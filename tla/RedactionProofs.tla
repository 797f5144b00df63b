-------------------------- MODULE RedactionProofs ---------------------------
(***************************************************************************)
(* A message and its answer on their way through the proxy: findings are   *)
(* dropped only for findings of as high a priority, each entity is         *)
(* replaced in its place, an answer is shown as it is rehydrated in one    *)
(* piece, wherever chunks cut it, with the originals and without           *)
(* placeholders.                                                           *)
(***************************************************************************)
EXTENDS Redaction, FiniteSetTheorems, WellFoundedInduction, TLAPS

(***************************************************************************)
(* Induction and recursion.                                                *)
(***************************************************************************)
LEMMA NatInduced ==
    ASSUME NEW S, 0 \in S, \A n \in Nat : n \in S => n + 1 \in S
    PROVE  Nat \subseteq S
  <1> DEFINE T == {n \in Nat : n \notin S}
  <1>1. SUFFICES ASSUME T # {} PROVE FALSE
    OBVIOUS
  <1>2. PICK x \in T : \A y \in T : ~(<<y, x>> \in OpToRel(<, Nat))
    <2>1. T \subseteq Nat /\ IsWellFoundedOn(OpToRel(<, Nat), Nat)
      BY NatLessThanWellFounded
    <2> HIDE DEF T
    <2> QED
      BY <1>1, <2>1, WFMin
  <1>3. \A y \in T : ~(y < x)
    BY <1>2 DEF OpToRel
  <1>4. x # 0 /\ x - 1 \in Nat /\ (x - 1) + 1 = x
    OBVIOUS
  <1>5. x - 1 \in S
    BY <1>3, <1>4
  <1> QED
    BY <1>4, <1>5

LEMMA Induced ==
    ASSUME NEW N \in Nat, NEW S, 0 \in S, \A n \in 1..N : n - 1 \in S => n \in S
    PROVE  0..N \subseteq S
  <1> DEFINE T == {n \in Nat : n <= N => n \in S}
  <1>1. 0 \in T
    OBVIOUS
  <1>2. ASSUME NEW n \in Nat, n \in T PROVE n + 1 \in T
    <2>1. n + 1 \in Nat /\ (n + 1) - 1 = n
      OBVIOUS
    <2>2. CASE n + 1 <= N
      <3>1. n \in S /\ n + 1 \in 1..N
        BY <1>2, <2>2
      <3> QED
        BY <2>1, <3>1
    <2> QED
      BY <2>1, <2>2
  <1> HIDE DEF T
  <1>3. Nat \subseteq T
    BY <1>1, <1>2, NatInduced
  <1> QED
    BY <1>3 DEF T

Steps(N, S, base, step) == base \in S /\ step \in [1..N -> [S -> S]]

Iterates(N, S, base, step, g) ==
    g \in [0..N -> S] /\ g[0] = base /\ \A i \in 1..N : g[i] = step[i][g[i - 1]]

\* A recursive function on 0..N exists.
LEMMA Recursion ==
    ASSUME NEW N \in Nat, NEW S, NEW base, NEW step, Steps(N, S, base, step)
    PROVE  \E g : Iterates(N, S, base, step, g)
  <1> base \in S /\ step \in [1..N -> [S -> S]]
    BY DEF Steps
  <1> DEFINE T == {n \in 0..N : \E g \in [0..n -> S] :
                      g[0] = base /\ \A i \in 1..n : g[i] = step[i][g[i - 1]]}
  <1>1. 0 \in T
    <2> DEFINE h == [i \in 0..0 |-> base]
    <2>1. h \in [0..0 -> S] /\ h[0] = base /\ \A i \in 1..0 : h[i] = step[i][h[i - 1]]
      OBVIOUS
    <2> HIDE DEF h
    <2>2. \E g \in [0..0 -> S] : g[0] = base /\ \A i \in 1..0 : g[i] = step[i][g[i - 1]]
      BY <2>1
    <2> QED
      BY <2>2
  <1>2. ASSUME NEW n \in 1..N, n - 1 \in T PROVE n \in T
    <2>1. PICK g \in [0..(n - 1) -> S] :
              g[0] = base /\ \A i \in 1..(n - 1) : g[i] = step[i][g[i - 1]]
      BY <1>2
    <2> DEFINE h == [i \in 0..n |-> IF i = n THEN step[n][g[n - 1]] ELSE g[i]]
    <2>2. step[n][g[n - 1]] \in S
      <3>1. g[n - 1] \in S /\ step[n] \in [S -> S]
        OBVIOUS
      <3> QED
        BY <3>1
    <2>3. \A i \in 0..n : i # n => i \in 0..(n - 1)
      OBVIOUS
    <2>4. h \in [0..n -> S]
      BY <2>2, <2>3
    <2>5. h[0] = base
      BY <2>1
    <2>6. ASSUME NEW i \in 1..n PROVE h[i] = step[i][h[i - 1]]
      <3>1. i - 1 \in 0..n /\ i - 1 # n /\ i \in 0..n
        OBVIOUS
      <3>2. h[i - 1] = g[i - 1]
        BY <3>1
      <3>3. CASE i = n
        BY <3>1, <3>2, <3>3
      <3>4. CASE i # n
        <4>1. i \in 1..(n - 1) /\ h[i] = g[i]
          BY <3>1, <3>4
        <4> QED
          BY <2>1, <3>2, <4>1
      <3> QED
        BY <3>3, <3>4
    <2> HIDE DEF h
    <2>7. \E k \in [0..n -> S] : k[0] = base /\ \A i \in 1..n : k[i] = step[i][k[i - 1]]
      BY <2>4, <2>5, <2>6
    <2>8. n \in 0..N
      OBVIOUS
    <2> QED
      BY <2>7, <2>8, Zenon
  <1> HIDE DEF T
  <1>3. 0..N \subseteq T
    BY <1>1, <1>2, Induced
  <1>4. N \in T
    BY <1>3
  <1> QED
    BY <1>4 DEF T, Iterates

(***************************************************************************)
(* FlattenSeq.                                                             *)
(***************************************************************************)
LEMMA Range1 ==
    ASSUME NEW N \in Nat
    PROVE  /\ N \in 0..N /\ 0 \in 0..N
           /\ \A i \in 1..N : i \in 0..N /\ i - 1 \in 0..N
  OBVIOUS

LEMMA InRange ==
    ASSUME NEW a \in Int, NEW b \in Int, NEW x \in a..b
    PROVE  x \in Int /\ a <= x /\ x <= b
  OBVIOUS

LEMMA SeqFacts ==
    ASSUME NEW S, NEW s \in Seq(S)
    PROVE  Len(s) \in Nat /\ DOMAIN s = 1..Len(s) /\ \A i \in 1..Len(s) : s[i] \in S
  OBVIOUS

LEMMA Associative ==
    ASSUME NEW S, NEW a \in Seq(S), NEW b \in Seq(S), NEW c \in Seq(S)
    PROVE  /\ a \o b \in Seq(S) /\ (a \o b) \o c \in Seq(S)
           /\ a \o (b \o c) = (a \o b) \o c
  OBVIOUS

LEMMA EmptyNeutral ==
    ASSUME NEW S, NEW a \in Seq(S)
    PROVE  a \o <<>> = a /\ <<>> \o a = a
  OBVIOUS

LEMMA NoLength == ASSUME NEW S, NEW s \in Seq(S), Len(s) = 0 PROVE s = <<>>
  OBVIOUS

Parts(S, N, s) == \A i \in 1..N : s[i] \in Seq(S)

\* g[i] is the first i of the N sequences of s in one.
Flattens(S, N, s, g) ==
    /\ Parts(S, N, s)
    /\ g \in [0..N -> Seq(S)]
    /\ g[0] = <<>>
    /\ \A i \in 1..N : g[i] = g[i - 1] \o s[i]

LEMMA SeqParts ==
    ASSUME NEW S, NEW s \in Seq(Seq(S)), NEW N, N = Len(s)
    PROVE  Parts(S, N, s) /\ N \in Nat
  BY SeqFacts DEF Parts

LEMMA FlattensExists ==
    ASSUME NEW S, NEW N \in Nat, NEW s, Parts(S, N, s)
    PROVE  \E g : Flattens(S, N, s, g)
  <1> DEFINE step == [i \in 1..N |-> [x \in Seq(S) |-> x \o s[i]]]
  <1>1. step \in [1..N -> [Seq(S) -> Seq(S)]]
    BY DEF Parts
  <1>2. <<>> \in Seq(S)
    OBVIOUS
  <1>3. \A i \in 1..N, x \in Seq(S) : step[i][x] = x \o s[i]
    OBVIOUS
  <1> HIDE DEF step
  <1>4. Steps(N, Seq(S), <<>>, step)
    BY <1>1, <1>2 DEF Steps
  <1>5. PICK g : Iterates(N, Seq(S), <<>>, step, g)
    BY <1>4, Recursion
  <1>6. /\ g \in [0..N -> Seq(S)] /\ g[0] = <<>>
        /\ \A i \in 1..N : g[i] = step[i][g[i - 1]]
    BY <1>5 DEF Iterates
  <1>7. \A i \in 1..N : g[i - 1] \in Seq(S)
    BY <1>6, Range1
  <1>8. \A i \in 1..N : g[i] = g[i - 1] \o s[i]
    BY <1>3, <1>6, <1>7
  <1> QED
    BY <1>6, <1>8 DEF Flattens

LEMMA FlattensTyped ==
    ASSUME NEW S, NEW N \in Nat, NEW s, NEW g, Flattens(S, N, s, g)
    PROVE  /\ \A i \in 0..N : g[i] \in Seq(S)
           /\ \A i \in 1..N : g[i - 1] \in Seq(S) /\ s[i] \in Seq(S)
  <1>1. \A i \in 0..N : g[i] \in Seq(S)
    BY DEF Flattens
  <1> QED
    BY <1>1, Range1 DEF Flattens, Parts

LEMMA FlattensFirst ==
    ASSUME NEW S, NEW N \in Nat, NEW s, NEW g, Flattens(S, N, s, g), 1 \in 1..N
    PROVE  g[1] = s[1]
  <1>1. PICK i \in 1..N : i = 1
    OBVIOUS
  <1>2. g[i] = g[i - 1] \o s[i] /\ s[i] \in Seq(S)
    BY DEF Flattens, Parts
  <1>4. i - 1 = 0
    BY <1>1
  <1>3. g[0] = <<>>
    BY DEF Flattens
  <1> QED
    BY <1>1, <1>2, <1>3, <1>4, EmptyNeutral

\* What FlattenSeq does, for sequences of sequences as functions.
LEMMA FlattenIs ==
    ASSUME NEW S, NEW N \in Nat, NEW s \in Seq(Seq(S)), N = Len(s),
           NEW g, Flattens(S, N, s, g)
    PROVE  FlattenSeq(s) = g[N]
  <1>2. /\ \A i \in 1..N : g[i] = g[i - 1] \o s[i]
        /\ g[0] = <<>> /\ (1 \in 1..N => g[1] = s[1])
    <2>1. 1 \in 1..N => g[1] = s[1]
      BY FlattensFirst
    <2> QED
      BY <2>1 DEF Flattens
  <1>3. CASE N = 0
    <2>1. s = <<>>
      BY <1>3, NoLength
    <2>2. FlattenSeq(s) = s
      BY <1>3 DEF FlattenSeq
    <2> QED
      BY <1>2, <1>3, <2>1, <2>2
  <1>4. CASE N # 0
    <2> DEFINE flat == CHOOSE f : f = [i \in 1..N |-> IF i = 1 THEN s[i] ELSE f[i - 1] \o s[i]]
               h == [i \in 1..N |-> g[i]]
    <2>1. FlattenSeq(s) = flat[N]
      BY <1>4 DEF FlattenSeq
    <2>2. h = [i \in 1..N |-> IF i = 1 THEN s[i] ELSE h[i - 1] \o s[i]]
      <3>1. \A i \in 1..N : i # 1 => i - 1 \in 1..N
        OBVIOUS
      <3>2. \A i \in 1..N : h[i] = IF i = 1 THEN s[i] ELSE h[i - 1] \o s[i]
        BY <1>2, <3>1
      <3> QED
        BY <3>2
    <2> HIDE DEF h
    <2>3. \E f : f = [i \in 1..N |-> IF i = 1 THEN s[i] ELSE f[i - 1] \o s[i]]
      BY <2>2
    <2>4. flat = [i \in 1..N |-> IF i = 1 THEN s[i] ELSE flat[i - 1] \o s[i]]
      BY <2>3, Zenon
    <2> HIDE DEF flat
    <2>5. \A i \in 1..N : flat[i] = IF i = 1 THEN s[i] ELSE flat[i - 1] \o s[i]
      BY <2>4
    <2> DEFINE T == {n \in 0..N : n # 0 => flat[n] = g[n]}
    <2>6. 0 \in T
      OBVIOUS
    <2>7. ASSUME NEW n \in 1..N, n - 1 \in T PROVE n \in T
      <3>1. CASE n = 1
        <4>1. flat[n] = g[n]
          BY <1>2, <2>5, <3>1
        <4> QED
          BY <4>1
      <3>2. CASE n # 1
        <4>1. flat[n - 1] = g[n - 1]
          BY <2>7, <3>2
        <4>2. flat[n] = g[n]
          BY <1>2, <2>5, <3>2, <4>1
        <4> QED
          BY <4>2
      <3> QED
        BY <3>1, <3>2
    <2> HIDE DEF T
    <2>8. 0..N \subseteq T
      BY <2>6, <2>7, Induced
    <2>9. N \in T
      BY <2>8
    <2> QED
      BY <1>4, <2>1, <2>9 DEF T
  <1> QED
    BY <1>3, <1>4

LEMMA FlattenTyped ==
    ASSUME NEW S, NEW s \in Seq(Seq(S))
    PROVE  FlattenSeq(s) \in Seq(S)
  <1>1. PICK N \in Nat : N = Len(s)
    OBVIOUS
  <1>2. Parts(S, N, s)
    BY <1>1, SeqParts
  <1>3. PICK g : Flattens(S, N, s, g)
    BY <1>2, FlattensExists
  <1>4. FlattenSeq(s) = g[N]
    BY <1>1, <1>3, FlattenIs
  <1>5. g[N] \in Seq(S)
    BY <1>3, FlattensTyped, Range1
  <1> QED
    BY <1>4, <1>5

LEMMA Concatenated ==
    ASSUME NEW S, NEW s \in Seq(S), NEW t \in Seq(S)
    PROVE  /\ s \o t \in Seq(S) /\ Len(s \o t) = Len(s) + Len(t)
           /\ \A i \in 1..Len(s) : (s \o t)[i] = s[i]
           /\ \A i \in 1..Len(t) : (s \o t)[Len(s) + i] = t[i]
  OBVIOUS

Join(S, s, t, u) ==
    /\ u \in Seq(S) /\ Len(u) = Len(s) + Len(t)
    /\ \A i \in 1..Len(s) : u[i] = s[i]
    /\ \A i \in 1..Len(t) : u[Len(s) + i] = t[i]

LEMMA Joined ==
    ASSUME NEW S, NEW s \in Seq(S), NEW t \in Seq(S)
    PROVE  Join(S, s, t, s \o t)
  BY Concatenated DEF Join

LEMMA FlattenConcat ==
    ASSUME NEW S, NEW s \in Seq(Seq(S)), NEW t \in Seq(Seq(S))
    PROVE  FlattenSeq(s \o t) = FlattenSeq(s) \o FlattenSeq(t)
  <1>1. PICK N \in Nat : N = Len(s)
    OBVIOUS
  <1>2. PICK M \in Nat : M = Len(t)
    OBVIOUS
  <1>3. PICK A : A = Seq(S)
    OBVIOUS
  <1>4. PICK u : u = s \o t
    OBVIOUS
  <1>5. /\ u \in Seq(A) /\ Len(u) = N + M
        /\ \A i \in 1..N : u[i] = s[i]
        /\ \A i \in 1..M : u[N + i] = t[i]
    BY <1>1, <1>2, <1>3, <1>4, Concatenated
  <1>6. Parts(S, N, s) /\ Parts(S, M, t)
    BY <1>1, <1>2, SeqParts
  <1> DEFINE L == N + M
  <1>7. Parts(S, L, u) /\ L \in Nat
    BY <1>3, <1>5, SeqParts
  <1>8. PICK g : Flattens(S, N, s, g)
    BY <1>6, FlattensExists
  <1>9. PICK h : Flattens(S, M, t, h)
    BY <1>6, FlattensExists
  <1>10. PICK k : Flattens(S, L, u, k)
    BY <1>7, FlattensExists
  <1>11. /\ \A i \in 1..N : g[i] = g[i - 1] \o s[i]
         /\ g[0] = <<>> /\ \A i \in 0..N : g[i] \in Seq(S)
    BY <1>8 DEF Flattens
  <1>12. /\ \A i \in 1..M : h[i] = h[i - 1] \o t[i]
         /\ h[0] = <<>>
    BY <1>9 DEF Flattens
  <1>13. k[0] = <<>> /\ \A i \in 1..(N + M) : k[i] = k[i - 1] \o u[i]
    <2> HIDE DEF L
    <2>1. k[0] = <<>> /\ \A i \in 1..L : k[i] = k[i - 1] \o u[i]
      BY <1>10 DEF Flattens
    <2> QED
      BY <2>1 DEF L
  <1> DEFINE T == {i \in 0..N : k[i] = g[i]}
             R == {i \in 0..M : k[N + i] = g[N] \o h[i]}
  <1>14. 0..N \subseteq T
    <2>1. 0 \in T
      BY <1>11, <1>13
    <2>2. ASSUME NEW i \in 1..N, i - 1 \in T PROVE i \in T
      <3>1. i \in 1..(N + M)
        OBVIOUS
      <3>2. k[i] = k[i - 1] \o s[i]
        BY <1>5, <1>13, <3>1
      <3>3. k[i - 1] = g[i - 1] /\ i \in 0..N
        BY <2>2
      <3>4. k[i] = g[i]
        BY <1>11, <3>2, <3>3
      <3> QED
        BY <3>3, <3>4
    <2> HIDE DEF T
    <2> QED
      BY <2>1, <2>2, Induced
  <1>15. 0..M \subseteq R
    <2>1. 0 \in R
      <3>1. k[N] = g[N] /\ g[N] \in Seq(S)
        BY <1>11, <1>14, Range1
      <3>2. g[N] \o h[0] = g[N]
        BY <1>12, <3>1, EmptyNeutral
      <3>3. N + 0 = N /\ 0 \in 0..M
        OBVIOUS
      <3> QED
        BY <3>1, <3>2, <3>3
    <2>2. ASSUME NEW i \in 1..M, i - 1 \in R PROVE i \in R
      <3>1. N + i \in 1..(N + M) /\ (N + i) - 1 = N + (i - 1) /\ i \in 0..M
        OBVIOUS
      <3>2. k[N + i] = k[N + (i - 1)] \o t[i]
        BY <1>5, <1>13, <3>1
      <3>3. k[N + i] = (g[N] \o h[i - 1]) \o t[i]
        BY <2>2, <3>2
      <3>4. g[N] \in Seq(S)
        BY <1>11, Range1
      <3>5. (g[N] \o h[i - 1]) \o t[i] = g[N] \o (h[i - 1] \o t[i])
        <4>1. h[i - 1] \in Seq(S) /\ t[i] \in Seq(S)
          BY <1>9, FlattensTyped
        <4>2. PICK a \in Seq(S), b \in Seq(S), c \in Seq(S) : a = g[N] /\ b = h[i - 1] /\ c = t[i]
          BY <3>4, <4>1
        <4>3. a \o (b \o c) = (a \o b) \o c
          BY Associative
        <4> QED
          BY <4>2, <4>3
      <3>6. h[i] = h[i - 1] \o t[i]
        BY <1>12
      <3> QED
        BY <3>1, <3>3, <3>5, <3>6
    <2> HIDE DEF R
    <2> QED
      BY <2>1, <2>2, Induced
  <1>16. k[N + M] = g[N] \o h[M]
    BY <1>15, Range1
  <1>17. FlattenSeq(u) = k[N + M]
    <2> HIDE DEF L
    <2>1. L = Len(u) /\ u \in Seq(Seq(S))
      BY <1>3, <1>5 DEF L
    <2>2. FlattenSeq(u) = k[L]
      BY <1>7, <1>10, <2>1, FlattenIs
    <2> QED
      BY <2>2 DEF L
  <1>18. FlattenSeq(s) = g[N] /\ FlattenSeq(t) = h[M]
    BY <1>1, <1>2, <1>8, <1>9, FlattenIs
  <1> QED
    BY <1>4, <1>16, <1>17, <1>18

LEMMA Extensional ==
    ASSUME NEW S, NEW s \in Seq(S), NEW t \in Seq(S), Len(s) = Len(t),
           \A k \in 1..Len(s) : s[k] = t[k]
    PROVE  s = t
  OBVIOUS

LEMMA Part ==
    ASSUME NEW S, NEW s \in Seq(S), NEW i \in 1..(Len(s) + 1), NEW j \in (i - 1)..Len(s)
    PROVE  /\ SubSeq(s, i, j) \in Seq(S)
           /\ Len(SubSeq(s, i, j)) = j - i + 1
           /\ \A k \in 1..(j - i + 1) : SubSeq(s, i, j)[k] = s[k + (i - 1)]
  OBVIOUS

\* Symbols one by one make the sequence of them.
LEMMA FlattenSymbols ==
    ASSUME NEW S, NEW s \in Seq(S), NEW N \in Nat, N = Len(s),
           NEW F \in Seq(Seq(S)), Len(F) = N, \A i \in 1..N : F[i] = <<s[i]>>
    PROVE  FlattenSeq(F) = s
  <1>4. \A i \in 1..N : s[i] \in S
    BY SeqFacts
  <1> DEFINE g == [i \in 0..N |-> SubSeq(s, 1, i)]
  <1>6. ASSUME NEW i \in 0..N
        PROVE  /\ SubSeq(s, 1, i) \in Seq(S) /\ Len(SubSeq(s, 1, i)) = i
               /\ \A k \in 1..i : SubSeq(s, 1, i)[k] = s[k]
    <2> DEFINE x == 1
    <2>0. x \in 1..(Len(s) + 1) /\ i \in (x - 1)..Len(s)
      OBVIOUS
    <2>1. /\ SubSeq(s, x, i) \in Seq(S) /\ Len(SubSeq(s, x, i)) = i - x + 1
          /\ \A k \in 1..(i - x + 1) : SubSeq(s, x, i)[k] = s[k + (x - 1)]
      <3> HIDE DEF x
      <3> QED
        BY <2>0, Part
    <2>2. i - x + 1 = i /\ \A k \in 1..i : k + (x - 1) = k
      OBVIOUS
    <2> QED
      BY <2>1, <2>2
  <1>7. Flattens(S, N, F, g)
    <2>1. Parts(S, N, F)
      BY SeqParts
    <2>2. g \in [0..N -> Seq(S)]
      BY <1>6
    <2>3. g[0] = <<>>
      <3>1. SubSeq(s, 1, 0) \in Seq(S) /\ Len(SubSeq(s, 1, 0)) = 0
        BY <1>6, Range1
      <3>2. SubSeq(s, 1, 0) = <<>>
        BY <3>1, NoLength
      <3> QED
        BY <3>2
    <2>4. ASSUME NEW i \in 1..N PROVE g[i] = g[i - 1] \o F[i]
      <3>1. i \in 0..N /\ i - 1 \in 0..N
        OBVIOUS
      <3>2. PICK a : a = SubSeq(s, 1, i - 1)
        OBVIOUS
      <3>3. PICK b : b = SubSeq(s, 1, i)
        OBVIOUS
      <3>4. PICK l : l = <<s[i]>>
        OBVIOUS
      <3>5. l \in Seq(S) /\ Len(l) = 1 /\ l[1] = s[i]
        BY <1>4, <3>4
      <3>6. PICK c : c = a \o l
        OBVIOUS
      <3>7. a \in Seq(S) /\ Len(a) = i - 1 /\ \A k \in 1..(i - 1) : a[k] = s[k]
        BY <1>6, <3>1, <3>2
      <3>8. b \in Seq(S) /\ Len(b) = i /\ \A k \in 1..i : b[k] = s[k]
        BY <1>6, <3>1, <3>3
      <3>9. Join(S, a, l, c)
        BY <3>5, <3>6, <3>7, Joined
      <3>10. /\ c \in Seq(S) /\ Len(c) = (i - 1) + 1
             /\ \A k \in 1..(i - 1) : c[k] = a[k]
             /\ c[(i - 1) + 1] = s[i]
        <4>1. /\ c \in Seq(S) /\ Len(c) = Len(a) + Len(l)
              /\ \A k \in 1..Len(a) : c[k] = a[k]
              /\ \A k \in 1..Len(l) : c[Len(a) + k] = l[k]
          BY <3>9 DEF Join
        <4>2. 1 \in 1..Len(l)
          BY <3>5
        <4> QED
          BY <3>5, <3>7, <4>1, <4>2
      <3>11. \A k \in 1..i : c[k] = b[k]
        <4>1. \A k \in 1..i : k \in 1..(i - 1) \/ k = (i - 1) + 1
          OBVIOUS
        <4>2. (i - 1) + 1 = i /\ i \in 1..i
          OBVIOUS
        <4> QED
          BY <3>7, <3>8, <3>10, <4>1, <4>2
      <3>12. c = b
        <4>1. Len(c) = i
          BY <3>10
        <4> QED
          BY <3>8, <3>10, <3>11, <4>1, Extensional
      <3>13. g[i] = b /\ g[i - 1] = a
        BY <3>1, <3>2, <3>3
      <3>14. F[i] = l
        BY <3>4
      <3> HIDE DEF g
      <3> QED
        BY <3>6, <3>12, <3>13, <3>14
    <2> HIDE DEF g
    <2> QED
      BY <2>1, <2>2, <2>3, <2>4 DEF Flattens
  <1>8. FlattenSeq(F) = g[N]
    <2> HIDE DEF g
    <2> QED
      BY <1>7, FlattenIs
  <1>9. g[N] = s
    <2>1. N \in 0..N /\ g[N] = SubSeq(s, 1, N)
      OBVIOUS
    <2>2. /\ SubSeq(s, 1, N) \in Seq(S) /\ Len(SubSeq(s, 1, N)) = N
          /\ \A k \in 1..N : SubSeq(s, 1, N)[k] = s[k]
      BY <1>6, <2>1
    <2>3. SubSeq(s, 1, N) = s
      BY <2>2, Extensional
    <2> QED
      BY <2>1, <2>3
  <1> QED
    BY <1>8, <1>9

(***************************************************************************)
(* Words and placeholders, by their positions in a text.                   *)
(***************************************************************************)
LEMMA WidthIs == Width \in Nat /\ Width >= 2
  <1>1. Width \in Nat \ {0, 1}
    BY RedactionAssumption
  <1> QED
    BY <1>1

LEMMA DigitsApart == \A x \in Digits : x \notin Names /\ x # "_"
  BY RedactionAssumption

\* Positions i to j of s have the form of a placeholder.
Form(s, i, j) ==
    /\ i <= j - Width - 1
    /\ s[i] \in Names
    /\ \A x \in i..(j - Width - 1) : s[x] \in Names \cup {"_"}
    /\ s[j - Width] = "_"
    /\ \A x \in (j - Width + 1)..j : s[x] \in Digits

\* Positions i to j of s have the form of the beginning of a placeholder, its
\* name up to k.
PartialTo(s, i, j, k) ==
    /\ s[i] \in Names
    /\ \A x \in i..k : s[x] \in Names \cup {"_"}
    /\ \/ j = k
       \/ /\ j \in (k + 1)..(k + Width)
          /\ s[k + 1] = "_"
          /\ \A x \in (k + 2)..j : s[x] \in Digits

Partial(s, i, j) == \E k \in i..j : PartialTo(s, i, j, k)

\* What s has at positions i to j, t has d later.
Shifted(s, t, d, i, j) == \A x \in i..j : t[x + d] = s[x]

LEMMA FormShifted ==
    ASSUME NEW s, NEW t, NEW d \in Int, NEW i \in Int, NEW j \in Int, Shifted(s, t, d, i, j)
    PROVE  Form(s, i, j) <=> Form(t, i + d, j + d)
  <1>1. Width \in Nat
    BY WidthIs
  <1>2. ASSUME Form(s, i, j) PROVE Form(t, i + d, j + d)
    <2>0. i <= j - Width - 1
      BY <1>2 DEF Form
    <2>1. i + d <= (j + d) - Width - 1 /\ i \in i..j /\ j - Width \in i..j
      BY <1>1, <2>0
    <2>2. t[i + d] = s[i] /\ t[(j - Width) + d] = s[j - Width] /\ (j - Width) + d = (j + d) - Width
      BY <1>1, <2>1 DEF Shifted
    <2>3. ASSUME NEW x \in (i + d)..((j + d) - Width - 1) PROVE t[x] \in Names \cup {"_"}
      <3>1. x - d \in i..(j - Width - 1) /\ x - d \in i..j /\ (x - d) + d = x
        BY <1>1
      <3> QED
        BY <1>2, <3>1 DEF Form, Shifted
    <2>4. ASSUME NEW x \in ((j + d) - Width + 1)..(j + d) PROVE t[x] \in Digits
      <3>1. x - d \in (j - Width + 1)..j /\ x - d \in i..j /\ (x - d) + d = x
        BY <1>1, <2>1
      <3> QED
        BY <1>2, <3>1 DEF Form, Shifted
    <2>5. t[i + d] \in Names /\ t[(j + d) - Width] = "_"
      BY <1>2, <2>2 DEF Form
    <2> QED
      BY <2>1, <2>3, <2>4, <2>5 DEF Form
  <1>3. ASSUME Form(t, i + d, j + d) PROVE Form(s, i, j)
    <2>0. i + d <= (j + d) - Width - 1
      BY <1>3 DEF Form
    <2>1. i <= j - Width - 1 /\ i \in i..j /\ j - Width \in i..j
      BY <1>1, <2>0
    <2>2. t[i + d] = s[i] /\ t[(j - Width) + d] = s[j - Width] /\ (j - Width) + d = (j + d) - Width
      BY <1>1, <2>1 DEF Shifted
    <2>3. ASSUME NEW x \in i..(j - Width - 1) PROVE s[x] \in Names \cup {"_"}
      <3>1. x + d \in (i + d)..((j + d) - Width - 1) /\ x \in i..j
        BY <1>1
      <3> QED
        BY <1>3, <3>1 DEF Form, Shifted
    <2>4. ASSUME NEW x \in (j - Width + 1)..j PROVE s[x] \in Digits
      <3>1. x + d \in ((j + d) - Width + 1)..(j + d) /\ x \in i..j
        BY <1>1, <2>1
      <3> QED
        BY <1>3, <3>1 DEF Form, Shifted
    <2>5. s[i] \in Names /\ s[j - Width] = "_"
      BY <1>3, <2>2 DEF Form
    <2> QED
      BY <2>1, <2>3, <2>4, <2>5 DEF Form
  <1> QED
    BY <1>2, <1>3

LEMMA PlaceholderForm ==
    ASSUME NEW S, NEW w \in Seq(S)
    PROVE  IsPlaceholder(w) <=> Form(w, 1, Len(w))
  <1>1. Width \in Nat /\ Len(w) \in Nat
    <2>1. Len(w) \in Nat
      OBVIOUS
    <2> QED
      BY <2>1, WidthIs
  <1>2. ASSUME IsPlaceholder(w) PROVE Form(w, 1, Len(w))
    <2>1. PICK k \in 1..(Len(w) - Width - 1) :
              /\ Len(w) = k + 1 + Width
              /\ NamePart(w, k)
              /\ w[k + 1] = "_"
              /\ \A i \in (k + 2)..Len(w) : w[i] \in Digits
      BY <1>2 DEF IsPlaceholder
    <2>2. k = Len(w) - Width - 1 /\ k + 1 = Len(w) - Width /\ k + 2 = Len(w) - Width + 1 /\ 1 <= k
      <3>1. k \in Nat /\ 1 <= k
        OBVIOUS
      <3>2. Len(w) = k + 1 + Width
        BY <2>1
      <3> QED
        BY <1>1, <3>1, <3>2
    <2> QED
      BY <2>1, <2>2 DEF Form, NamePart
  <1>3. ASSUME Form(w, 1, Len(w)) PROVE IsPlaceholder(w)
    <2> DEFINE k == Len(w) - Width - 1
    <2>1. /\ k \in 1..(Len(w) - Width - 1) /\ Len(w) = k + 1 + Width
          /\ k + 1 = Len(w) - Width /\ k + 2 = Len(w) - Width + 1
      <3>1. 1 <= Len(w) - Width - 1
        BY <1>3 DEF Form
      <3> QED
        BY <1>1, <3>1
    <2>2. NamePart(w, k) /\ w[k + 1] = "_" /\ \A i \in (k + 2)..Len(w) : w[i] \in Digits
      BY <1>3, <2>1 DEF Form, NamePart
    <2> HIDE DEF k
    <2> QED
      BY <2>1, <2>2 DEF IsPlaceholder
  <1> QED
    BY <1>2, <1>3

LEMMA PlaceholderIn ==
    ASSUME NEW S, NEW s \in Seq(S), NEW i \in 1..Len(s), NEW j \in i..Len(s)
    PROVE  IsPlaceholder(SubSeq(s, i, j)) <=> Form(s, i, j)
  <1>1. PICK w : w = SubSeq(s, i, j)
    OBVIOUS
  <1>2. /\ w \in Seq(S) /\ Len(w) = j - i + 1
        /\ \A k \in 1..(j - i + 1) : w[k] = s[k + (i - 1)]
    BY <1>1, Part
  <1>3. Shifted(w, s, i - 1, 1, j - i + 1)
    BY <1>2 DEF Shifted
  <1>4. i - 1 \in Int /\ j - i + 1 \in Int /\ 1 + (i - 1) = i /\ (j - i + 1) + (i - 1) = j
    OBVIOUS
  <1>5. Form(w, 1, j - i + 1) <=> Form(s, 1 + (i - 1), (j - i + 1) + (i - 1))
    BY <1>3, <1>4, FormShifted
  <1>6. IsPlaceholder(w) <=> Form(w, 1, Len(w))
    BY <1>2, PlaceholderForm
  <1> QED
    BY <1>1, <1>2, <1>4, <1>5, <1>6

LEMMA AtForm ==
    ASSUME NEW S, NEW s \in Seq(S), NEW i \in 1..Len(s), NEW j \in i..Len(s)
    PROVE  PlaceholderAt(s, i, j) <=> IsWord(s, i, j) /\ Form(s, i, j)
  BY PlaceholderIn DEF PlaceholderAt

\* A proper beginning of a placeholder.
LEMMA FormBegins ==
    ASSUME NEW s, NEW i \in Int, NEW j \in Int, NEW n \in i..(j - 1), Form(s, i, j)
    PROVE  Partial(s, i, n)
  <1>1. Width \in Nat
    BY WidthIs
  <1>2. CASE n <= j - Width - 1
    <2>1. /\ \A x \in i..n : x \in i..(j - Width - 1)
          /\ n \in i..n
      BY <1>1, <1>2
    <2>2. PartialTo(s, i, n, n)
      BY <2>1 DEF Form, PartialTo
    <2> QED
      BY <2>1, <2>2 DEF Partial
  <1>3. CASE n > j - Width - 1
    <2> DEFINE k == j - Width - 1
    <2>0. i <= j - Width - 1
      BY DEF Form
    <2>1. /\ k \in i..n /\ n \in (k + 1)..(k + Width) /\ k + 1 = j - Width
          /\ \A x \in (k + 2)..n : x \in (j - Width + 1)..j
      BY <1>1, <1>3, <2>0
    <2>2. PartialTo(s, i, n, k)
      <3>1. s[i] \in Names /\ \A x \in i..k : s[x] \in Names \cup {"_"}
        BY DEF Form
      <3>2. s[k + 1] = "_"
        BY <2>1 DEF Form
      <3>3. \A x \in (k + 2)..n : s[x] \in Digits
        BY <2>1 DEF Form
      <3> HIDE DEF k
      <3> QED
        BY <2>1, <3>1, <3>2, <3>3 DEF PartialTo
    <2> HIDE DEF k
    <2> QED
      BY <2>1, <2>2 DEF Partial
  <1> QED
    BY <1>1, <1>2, <1>3

LEMMA PartialBegins ==
    ASSUME NEW s, NEW i \in Int, NEW j \in Int, NEW n \in i..j, Partial(s, i, j)
    PROVE  Partial(s, i, n)
  <1>1. Width \in Nat
    BY WidthIs
  <1>2. PICK k \in i..j : PartialTo(s, i, j, k)
    BY DEF Partial
  <1>3. CASE n <= k
    <2>1. n \in i..n /\ \A x \in i..n : x \in i..k
      BY <1>3
    <2>2. PartialTo(s, i, n, n)
      BY <1>2, <2>1 DEF PartialTo
    <2> QED
      BY <2>1, <2>2 DEF Partial
  <1>4. CASE n > k
    <2>1. k \in i..n /\ j # k
      BY <1>4
    <2>2. /\ j \in (k + 1)..(k + Width)
          /\ s[k + 1] = "_"
          /\ \A x \in (k + 2)..j : s[x] \in Digits
      BY <1>2, <2>1 DEF PartialTo
    <2>3. n \in (k + 1)..(k + Width) /\ \A x \in (k + 2)..n : x \in (k + 2)..j
      <3>0. k \in Int /\ n \in Int
        OBVIOUS
      <3>1. n <= j
        OBVIOUS
      <3>2. j <= k + Width
        <4>1. j \in (k + 1)..(k + Width)
          BY <2>2
        <4>2. k + 1 \in Int /\ k + Width \in Int
          BY <1>1, <3>0
        <4> QED
          BY <4>1, <4>2, InRange
      <3>3. Width \in Int /\ k < n
        BY <1>1, <1>4, <3>0
      <3> QED
        BY ONLY <3>0, <3>1, <3>2, <3>3, j \in Int
    <2>4. PartialTo(s, i, n, k)
      BY <1>2, <2>2, <2>3 DEF PartialTo
    <2> QED
      BY <2>1, <2>4 DEF Partial
  <1> QED
    BY <1>3, <1>4

LEMMA OneEnd ==
    ASSUME NEW S, NEW s \in Seq(S), NEW i \in 1..Len(s), NEW j \in 1..Len(s), NEW k \in 1..Len(s),
           IsWord(s, i, j), IsWord(s, i, k)
    PROVE  j = k
  <1>0. Len(s) \in Nat
    OBVIOUS
  <1>1. ASSUME NEW x \in 1..Len(s), NEW y \in 1..Len(s), IsWord(s, i, x), IsWord(s, i, y), x < y
        PROVE  FALSE
    <2>1. x + 1 \in i..y /\ x # Len(s)
      BY <1>0, <1>1 DEF IsWord
    <2>2. s[x + 1] \in Words
      BY <1>1, <2>1 DEF IsWord
    <2>3. s[x + 1] \notin Words
      BY <1>1, <2>1 DEF IsWord, WordEnds
    <2> QED
      BY <2>2, <2>3
  <1>2. j < k \/ k < j \/ j = k
    OBVIOUS
  <1> QED
    BY <1>1, <1>2

(***************************************************************************)
(* A text that is cut where no placeholder is cut.                         *)
(***************************************************************************)
\* a is the first n symbols of s, and b the others.
Cut(S, s, n, a, b) ==
    /\ s \in Seq(S) /\ a \in Seq(S) /\ b \in Seq(S)
    /\ n \in 0..Len(s) /\ Len(a) = n /\ Len(b) = Len(s) - n
    /\ \A k \in 1..n : a[k] = s[k]
    /\ \A k \in 1..Len(b) : b[k] = s[k + n]

\* The word of s that ends at position n, if it goes on there, is not the
\* beginning of a placeholder.
Clean(s, n) ==
    \A i \in 1..n :
        WordStarts(s, i) /\ (\A k \in i..n : s[k] \in Words) => ~Partial(s, i, n)

LEMMA NoStraddle ==
    ASSUME NEW S, NEW s \in Seq(S), NEW n \in 0..Len(s), Clean(s, n),
           NEW i \in 1..n, NEW j \in (n + 1)..Len(s)
    PROVE  ~PlaceholderAt(s, i, j)
  <1>1. i \in 1..Len(s) /\ j \in i..Len(s) /\ n \in i..(j - 1) /\ i \in Int /\ j \in Int
    OBVIOUS
  <1>2. SUFFICES ASSUME IsWord(s, i, j), Form(s, i, j) PROVE FALSE
    BY <1>1, AtForm
  <1>3. Partial(s, i, n)
    BY <1>1, <1>2, FormBegins
  <1>4. \A k \in i..n : k \in i..j
    BY <1>1
  <1> QED
    BY <1>2, <1>3, <1>4 DEF Clean, IsWord

LEMMA CutForms ==
    ASSUME NEW S, NEW s, NEW n, NEW a, NEW b, Cut(S, s, n, a, b)
    PROVE  /\ \A i \in 1..n, j \in 1..n : Form(a, i, j) <=> Form(s, i, j)
           /\ \A i \in 1..Len(b), j \in 1..Len(b) : Form(b, i, j) <=> Form(s, i + n, j + n)
  <1>1. n \in Nat /\ Len(b) \in Nat
    BY DEF Cut
  <1>2. ASSUME NEW i \in 1..n, NEW j \in 1..n PROVE Form(a, i, j) <=> Form(s, i, j)
    <2>1. \A x \in i..j : x \in 1..n /\ x + 0 = x
      BY <1>1
    <2>2. Shifted(a, s, 0, i, j)
      BY <2>1 DEF Shifted, Cut
    <2>3. i \in Int /\ j \in Int /\ 0 \in Int /\ i + 0 = i /\ j + 0 = j
      BY <1>1
    <2>4. Form(a, i, j) <=> Form(s, i + 0, j + 0)
      BY <2>2, <2>3, FormShifted
    <2> QED
      BY <2>3, <2>4
  <1>3. ASSUME NEW i \in 1..Len(b), NEW j \in 1..Len(b) PROVE Form(b, i, j) <=> Form(s, i + n, j + n)
    <2>1. \A x \in i..j : x \in 1..Len(b)
      BY <1>1
    <2>2. Shifted(b, s, n, i, j)
      BY <2>1 DEF Shifted, Cut
    <2>3. i \in Int /\ j \in Int /\ n \in Int
      BY <1>1
    <2> QED
      BY <2>2, <2>3, FormShifted
  <1> QED
    BY <1>2, <1>3

CleanCut(S, s, n, a, b) == Cut(S, s, n, a, b) /\ Clean(s, n) /\ WordsWhole(s)

LEMMA CutTypes ==
    ASSUME NEW S, NEW s, NEW n, NEW a, NEW b, Cut(S, s, n, a, b)
    PROVE  /\ n \in Nat /\ Len(s) \in Nat /\ Len(b) \in Nat /\ Len(s) = n + Len(b) /\ Len(a) = n
           /\ s \in Seq(S) /\ a \in Seq(S) /\ b \in Seq(S) /\ n \in 0..Len(s)
           /\ DOMAIN a = 1..n /\ DOMAIN b = 1..Len(b) /\ DOMAIN s = 1..Len(s)
  <1>1. /\ s \in Seq(S) /\ a \in Seq(S) /\ b \in Seq(S) /\ n \in 0..Len(s)
        /\ Len(a) = n /\ Len(b) = Len(s) - n
    BY DEF Cut
  <1>2. Len(s) \in Nat /\ Len(b) \in Nat
    BY <1>1, SeqFacts
  <1>3. DOMAIN a = 1..n /\ DOMAIN b = 1..Len(b) /\ DOMAIN s = 1..Len(s)
    BY <1>1, SeqFacts
  <1>4. n \in Nat /\ Len(s) = n + Len(b)
    BY <1>1, <1>2
  <1> QED
    BY <1>1, <1>2, <1>3, <1>4

\* What has the form of a placeholder is within a placeholder.
LEMMA Whole ==
    ASSUME NEW S, NEW s \in Seq(S), WordsWhole(s),
           NEW i \in 1..Len(s), NEW j \in i..Len(s), Form(s, i, j)
    PROVE  \E h \in 1..i, k \in j..Len(s) : PlaceholderAt(s, h, k)
  <1>1. j \in 1..Len(s) /\ i <= j
    OBVIOUS
  <1>2. IsPlaceholder(SubSeq(s, i, j))
    BY PlaceholderIn
  <1>3. DOMAIN s = 1..Len(s)
    BY SeqFacts
  <1> QED
    BY <1>1, <1>2, <1>3 DEF WordsWhole

LEMMA LeftWords ==
    ASSUME NEW S, NEW s, NEW n, NEW a, NEW b, Cut(S, s, n, a, b),
           NEW i \in 1..n, NEW j \in i..n
    PROVE  /\ IsWord(s, i, j) => IsWord(a, i, j)
           /\ j # n /\ IsWord(a, i, j) => IsWord(s, i, j)
           /\ IsWord(a, i, j) => \A k \in i..j : s[k] \in Words
           /\ IsWord(a, i, j) => WordStarts(s, i)
  <1>1. /\ n \in Nat /\ Len(s) \in Nat /\ Len(b) \in Nat /\ Len(s) = n + Len(b) /\ Len(a) = n
    BY CutTypes
  <1>2. \A k \in 1..n : a[k] = s[k]
    BY DEF Cut
  <1>3. /\ i \in 1..n /\ j \in 1..n /\ \A k \in i..j : k \in 1..n
        /\ i # 1 => i - 1 \in 1..n
        /\ j # n => j + 1 \in 1..n /\ j # Len(s)
    BY <1>1
  <1>4. WordStarts(a, i) <=> WordStarts(s, i)
    BY <1>2, <1>3 DEF WordStarts
  <1>5. WordEnds(s, j) => WordEnds(a, j)
    BY <1>1, <1>2, <1>3 DEF WordEnds
  <1>6. j # n /\ WordEnds(a, j) => WordEnds(s, j)
    BY <1>1, <1>2, <1>3 DEF WordEnds
  <1>7. (\A k \in i..j : s[k] \in Words) <=> (\A k \in i..j : a[k] \in Words)
    BY <1>2, <1>3
  <1> QED
    BY <1>4, <1>5, <1>6, <1>7 DEF IsWord

LEMMA RightWords ==
    ASSUME NEW S, NEW s, NEW n, NEW a, NEW b, Cut(S, s, n, a, b),
           NEW i \in 1..Len(b), NEW j \in i..Len(b)
    PROVE  /\ IsWord(s, i + n, j + n) => IsWord(b, i, j)
           /\ IsWord(b, i, j) => /\ i = 1 \/ s[(i + n) - 1] \notin Words
                                 /\ WordEnds(s, j + n)
                                 /\ s[i + n] \in Words
                                 /\ \A k \in (i + n)..(j + n) : s[k] \in Words
  <1>1. /\ n \in Nat /\ Len(s) \in Nat /\ Len(b) \in Nat /\ Len(s) = n + Len(b)
    BY CutTypes
  <1>2. \A k \in 1..Len(b) : b[k] = s[k + n]
    BY DEF Cut
  <1>3. /\ i \in 1..Len(b) /\ j \in 1..Len(b) /\ i <= j /\ i + n <= j + n
        /\ \A k \in i..j : k \in 1..Len(b) /\ k + n \in (i + n)..(j + n)
        /\ \A k \in (i + n)..(j + n) : k - n \in i..j /\ (k - n) + n = k
        /\ i # 1 => i - 1 \in 1..Len(b) /\ (i - 1) + n = (i + n) - 1 /\ i + n # 1
        /\ j # Len(b) => j + 1 \in 1..Len(b) /\ (j + 1) + n = (j + n) + 1 /\ j + n # Len(s)
        /\ j = Len(b) => j + n = Len(s)
    BY <1>1
  <1>4. ASSUME IsWord(s, i + n, j + n) PROVE IsWord(b, i, j)
    <2>1. b[i] \in Words /\ b[j] \in Words
      BY <1>2, <1>3, <1>4 DEF IsWord, WordStarts, WordEnds
    <2>2. WordStarts(b, i)
      BY <1>2, <1>3, <1>4, <2>1 DEF IsWord, WordStarts
    <2>3. WordEnds(b, j)
      BY <1>2, <1>3, <1>4, <2>1 DEF IsWord, WordEnds
    <2>4. \A k \in i..j : b[k] \in Words
      BY <1>2, <1>3, <1>4 DEF IsWord
    <2> QED
      BY <1>3, <2>2, <2>3, <2>4 DEF IsWord
  <1>5. ASSUME IsWord(b, i, j)
        PROVE  /\ i = 1 \/ s[(i + n) - 1] \notin Words
               /\ WordEnds(s, j + n)
               /\ s[i + n] \in Words
               /\ \A k \in (i + n)..(j + n) : s[k] \in Words
    <2>1. (i = 1 \/ b[i - 1] \notin Words) /\ b[i] \in Words
      BY <1>5 DEF IsWord, WordStarts
    <2>2. (i = 1 \/ s[(i + n) - 1] \notin Words) /\ s[i + n] \in Words
      BY <1>2, <1>3, <2>1
    <2>3. b[j] \in Words /\ (j = Len(b) \/ b[j + 1] \notin Words)
      BY <1>5 DEF IsWord, WordEnds
    <2>4. WordEnds(s, j + n)
      BY <1>2, <1>3, <2>3 DEF WordEnds
    <2>5. \A k \in (i + n)..(j + n) : s[k] \in Words
      <3> TAKE k \in (i + n)..(j + n)
      <3>1. k - n \in i..j /\ k - n \in 1..Len(b) /\ (k - n) + n = k
        BY <1>3
      <3>2. b[k - n] \in Words
        BY <1>5, <3>1 DEF IsWord
      <3>3. b[k - n] = s[(k - n) + n]
        BY <1>2, <3>1
      <3> QED
        BY <3>1, <3>2, <3>3
    <2> QED
      BY <2>2, <2>4, <2>5
  <1> QED
    BY <1>4, <1>5

\* The placeholders of the whole are those of its parts.
LEMMA LeftPlaceholders ==
    ASSUME NEW S, NEW s, NEW n, NEW a, NEW b, CleanCut(S, s, n, a, b),
           NEW i \in 1..n, NEW j \in i..n
    PROVE  PlaceholderAt(a, i, j) <=> PlaceholderAt(s, i, j)
  <1>0. Cut(S, s, n, a, b) /\ Clean(s, n) /\ WordsWhole(s)
    BY DEF CleanCut
  <1>1. /\ n \in Nat /\ Len(s) \in Nat /\ Len(b) \in Nat /\ Len(s) = n + Len(b) /\ Len(a) = n
        /\ s \in Seq(S) /\ a \in Seq(S) /\ n \in 0..Len(s)
    BY <1>0, CutTypes
  <1>2. /\ i \in 1..Len(a) /\ j \in i..Len(a) /\ i \in 1..Len(s) /\ j \in i..Len(s)
        /\ i \in 1..n /\ j \in 1..n
    BY <1>1
  <1>3. PlaceholderAt(a, i, j) <=> IsWord(a, i, j) /\ Form(a, i, j)
    BY <1>1, <1>2, AtForm
  <1>4. PlaceholderAt(s, i, j) <=> IsWord(s, i, j) /\ Form(s, i, j)
    BY <1>1, <1>2, AtForm
  <1>5. Form(a, i, j) <=> Form(s, i, j)
    BY <1>0, <1>2, CutForms
  <1>6. /\ IsWord(s, i, j) => IsWord(a, i, j)
        /\ j # n /\ IsWord(a, i, j) => IsWord(s, i, j)
        /\ IsWord(a, i, j) => \A k \in i..j : s[k] \in Words
        /\ IsWord(a, i, j) => WordStarts(s, i)
    BY <1>0, LeftWords
  <1>7. ASSUME j = n, IsWord(a, i, n), Form(s, i, n) PROVE PlaceholderAt(s, i, n)
    <2>1. PICK h \in 1..i, k \in n..Len(s) : PlaceholderAt(s, h, k)
      BY <1>0, <1>1, <1>2, <1>7, Whole
    <2>2. k = n
      <3>1. h \in 1..n /\ (k # n => k \in (n + 1)..Len(s))
        BY <1>1, <1>2
      <3> QED
        BY <1>0, <1>1, <2>1, <3>1, NoStraddle
    <2>3. h = i
      <3>1. h # i => i - 1 \in h..n /\ i # 1
        BY <1>1, <1>2
      <3>2. \A x \in h..n : s[x] \in Words
        BY <2>1, <2>2 DEF PlaceholderAt, IsWord
      <3>3. i = 1 \/ s[i - 1] \notin Words
        BY <1>6, <1>7 DEF WordStarts
      <3> QED
        BY <3>1, <3>2, <3>3
    <2> QED
      BY <2>1, <2>2, <2>3
  <1> QED
    BY <1>3, <1>4, <1>5, <1>6, <1>7

LEMMA RightPlaceholders ==
    ASSUME NEW S, NEW s, NEW n, NEW a, NEW b, CleanCut(S, s, n, a, b),
           NEW i \in 1..Len(b), NEW j \in i..Len(b)
    PROVE  PlaceholderAt(b, i, j) <=> PlaceholderAt(s, i + n, j + n)
  <1>0. Cut(S, s, n, a, b) /\ Clean(s, n) /\ WordsWhole(s)
    BY DEF CleanCut
  <1>1. /\ n \in Nat /\ Len(s) \in Nat /\ Len(b) \in Nat /\ Len(s) = n + Len(b)
        /\ s \in Seq(S) /\ b \in Seq(S) /\ n \in 0..Len(s)
    BY <1>0, CutTypes
  <1>2. /\ i \in 1..Len(b) /\ j \in 1..Len(b)
        /\ i + n \in 1..Len(s) /\ j + n \in (i + n)..Len(s)
    BY <1>1
  <1>3. PlaceholderAt(b, i, j) <=> IsWord(b, i, j) /\ Form(b, i, j)
    BY <1>1, <1>2, AtForm
  <1>4. PlaceholderAt(s, i + n, j + n) <=> IsWord(s, i + n, j + n) /\ Form(s, i + n, j + n)
    BY <1>1, <1>2, AtForm
  <1>5. Form(b, i, j) <=> Form(s, i + n, j + n)
    BY <1>0, <1>2, CutForms
  <1>6. /\ IsWord(s, i + n, j + n) => IsWord(b, i, j)
        /\ IsWord(b, i, j) => /\ i = 1 \/ s[(i + n) - 1] \notin Words
                              /\ WordEnds(s, j + n)
    BY <1>0, RightWords
  <1>7. ASSUME IsWord(b, i, j), Form(s, i + n, j + n) PROVE PlaceholderAt(s, i + n, j + n)
    <2>1. PICK h \in 1..(i + n), k \in (j + n)..Len(s) : PlaceholderAt(s, h, k)
      BY <1>0, <1>1, <1>2, <1>7, Whole
    <2>2. h > n
      <3>1. ~(h > n) => h \in 1..n /\ k \in (n + 1)..Len(s)
        BY <1>1, <1>2
      <3> QED
        BY <1>0, <1>1, <2>1, <3>1, NoStraddle
    <2>3. \A x \in h..k : s[x] \in Words
      BY <2>1 DEF PlaceholderAt, IsWord
    <2>4. h = i + n
      <3>1. h # i + n => (i + n) - 1 \in h..k /\ i # 1
        BY <1>1, <1>2, <2>2
      <3> QED
        BY <1>6, <1>7, <2>3, <3>1
    <2>5. k = j + n
      <3>1. k # j + n => (j + n) + 1 \in h..k /\ j + n # Len(s)
        BY <1>1, <1>2, <2>2
      <3>2. j + n = Len(s) \/ s[(j + n) + 1] \notin Words
        BY <1>6, <1>7 DEF WordEnds
      <3> QED
        BY <2>3, <3>1, <3>2
    <2> QED
      BY <2>1, <2>4, <2>5
  <1> QED
    BY <1>3, <1>4, <1>5, <1>6, <1>7

\* A cut through no placeholder, that makes none either.
Splits(S, s, n, a, b) ==
    /\ Cut(S, s, n, a, b)
    /\ \A i \in 1..n, j \in (n + 1)..Len(s) : ~PlaceholderAt(s, i, j)
    /\ \A i \in 1..n : \A j \in i..n : PlaceholderAt(a, i, j) <=> PlaceholderAt(s, i, j)
    /\ \A i \in 1..Len(b) : \A j \in i..Len(b) :
          PlaceholderAt(b, i, j) <=> PlaceholderAt(s, i + n, j + n)

LEMMA CleanCutDivides ==
    ASSUME NEW S, NEW s, NEW n, NEW a, NEW b, CleanCut(S, s, n, a, b)
    PROVE  Splits(S, s, n, a, b)
  <1>1. Cut(S, s, n, a, b) /\ Clean(s, n)
    BY DEF CleanCut
  <1>2. s \in Seq(S) /\ n \in 0..Len(s)
    BY <1>1, CutTypes
  <1>3. \A i \in 1..n, j \in (n + 1)..Len(s) : ~PlaceholderAt(s, i, j)
    BY <1>1, <1>2, NoStraddle
  <1>4. \A i \in 1..n : \A j \in i..n : PlaceholderAt(a, i, j) <=> PlaceholderAt(s, i, j)
    BY LeftPlaceholders
  <1>5. \A i \in 1..Len(b) : \A j \in i..Len(b) :
            PlaceholderAt(b, i, j) <=> PlaceholderAt(s, i + n, j + n)
    BY RightPlaceholders
  <1> QED
    BY <1>1, <1>3, <1>4, <1>5 DEF Splits

\* At n, no word of s is cut.
Edge(s, n) == n = 0 \/ n = Len(s) \/ s[n] \notin Words \/ s[n + 1] \notin Words

LEMMA EdgeDivides ==
    ASSUME NEW S, NEW s, NEW n, NEW a, NEW b, Cut(S, s, n, a, b), Edge(s, n)
    PROVE  Splits(S, s, n, a, b)
  <1>1. /\ n \in Nat /\ Len(s) \in Nat /\ Len(b) \in Nat /\ Len(s) = n + Len(b) /\ Len(a) = n
        /\ s \in Seq(S) /\ a \in Seq(S) /\ b \in Seq(S)
    BY CutTypes
  <1>2. ASSUME NEW i \in 1..n, NEW j \in (n + 1)..Len(s), PlaceholderAt(s, i, j) PROVE FALSE
    <2>1. n \in i..j /\ n + 1 \in i..j /\ n # 0 /\ n # Len(s)
      BY <1>1
    <2>2. s[n] \in Words /\ s[n + 1] \in Words
      BY <1>2, <2>1 DEF PlaceholderAt, IsWord
    <2> QED
      BY <2>1, <2>2 DEF Edge
  <1>3. ASSUME NEW i \in 1..n, NEW j \in i..n
        PROVE  PlaceholderAt(a, i, j) <=> PlaceholderAt(s, i, j)
    <2>1. i \in 1..Len(a) /\ j \in i..Len(a) /\ i \in 1..Len(s) /\ j \in i..Len(s) /\ j \in 1..n
      BY <1>1
    <2>2. Form(a, i, j) <=> Form(s, i, j)
      BY <2>1, CutForms
    <2>3. IsWord(s, i, j) => IsWord(a, i, j)
      BY LeftWords
    <2>4. ASSUME IsWord(a, i, j) PROVE IsWord(s, i, j)
      <3>1. CASE j # n
        BY <2>4, <3>1, LeftWords
      <3>2. CASE j = n
        <4>1. WordStarts(s, i) /\ \A k \in i..j : s[k] \in Words
          BY <2>4, LeftWords
        <4>2. n # 0 /\ i <= j /\ j \in i..j
          BY <1>1, <3>2
        <4>3. j = Len(s) \/ s[j + 1] \notin Words
          BY <3>2, <4>1, <4>2 DEF Edge
        <4>4. WordEnds(s, j)
          BY <4>1, <4>2, <4>3 DEF WordEnds
        <4> QED
          BY <4>1, <4>2, <4>4 DEF IsWord
      <3> QED
        BY <3>1, <3>2
    <2> QED
      BY <1>1, <2>1, <2>2, <2>3, <2>4, AtForm
  <1>4. ASSUME NEW i \in 1..Len(b), NEW j \in i..Len(b)
        PROVE  PlaceholderAt(b, i, j) <=> PlaceholderAt(s, i + n, j + n)
    <2>1. /\ i + n \in 1..Len(s) /\ j + n \in (i + n)..Len(s) /\ j \in 1..Len(b)
          /\ i + n <= j + n /\ i + n # 1 => (i # 1 \/ n # 0)
      BY <1>1
    <2>2. Form(b, i, j) <=> Form(s, i + n, j + n)
      BY <2>1, CutForms
    <2>3. IsWord(s, i + n, j + n) => IsWord(b, i, j)
      BY RightWords
    <2>4. ASSUME IsWord(b, i, j) PROVE IsWord(s, i + n, j + n)
      <3>1. /\ i = 1 \/ s[(i + n) - 1] \notin Words
            /\ WordEnds(s, j + n)
            /\ s[i + n] \in Words
            /\ \A k \in (i + n)..(j + n) : s[k] \in Words
        BY <2>4, RightWords
      <3>2. i + n = 1 \/ s[(i + n) - 1] \notin Words
        <4>1. CASE i = 1 /\ n # 0
          <5>1. (i + n) - 1 = n /\ i + n = n + 1 /\ n # Len(s)
            BY <1>1, <4>1
          <5> QED
            BY <3>1, <4>1, <5>1 DEF Edge
        <4>2. CASE i = 1 /\ n = 0
          BY <4>2
        <4> QED
          BY <3>1, <4>1, <4>2
      <3>3. WordStarts(s, i + n)
        BY <3>1, <3>2 DEF WordStarts
      <3> QED
        BY <2>1, <3>1, <3>3 DEF IsWord
    <2> QED
      BY <1>1, <2>1, <2>2, <2>3, <2>4, AtForm
  <1> QED
    BY <1>2, <1>3, <1>4 DEF Splits

\* The beginnings of placeholders, as Form above.
LEMMA PartialMoved ==
    ASSUME NEW s, NEW t, NEW d \in Int, NEW i \in Int, NEW j \in Int, Shifted(s, t, d, i, j),
           Partial(s, i, j)
    PROVE  Partial(t, i + d, j + d)
  <1>1. Width \in Nat
    BY WidthIs
  <1>2. PICK k \in i..j : PartialTo(s, i, j, k)
    BY DEF Partial
  <1>3. k + d \in (i + d)..(j + d) /\ i \in i..j
    OBVIOUS
  <1>4. t[i + d] \in Names
    BY <1>2, <1>3 DEF PartialTo, Shifted
  <1>5. ASSUME NEW x \in (i + d)..(k + d) PROVE t[x] \in Names \cup {"_"}
    <2>1. x - d \in i..k /\ x - d \in i..j /\ (x - d) + d = x
      OBVIOUS
    <2> QED
      BY <1>2, <2>1 DEF PartialTo, Shifted
  <1>6. CASE j = k
    <2>1. j + d = k + d
      BY <1>6
    <2>2. PartialTo(t, i + d, j + d, k + d)
      BY <1>4, <1>5, <2>1 DEF PartialTo
    <2> QED
      BY <1>3, <2>2 DEF Partial
  <1>7. CASE j # k
    <2>1. /\ j \in (k + 1)..(k + Width)
          /\ s[k + 1] = "_"
          /\ \A x \in (k + 2)..j : s[x] \in Digits
      BY <1>2, <1>7 DEF PartialTo
    <2>2. /\ j + d \in ((k + d) + 1)..((k + d) + Width)
          /\ k + 1 \in i..j /\ (k + 1) + d = (k + d) + 1
      <3>1. k \in Int /\ i <= k /\ Width \in Int
        BY <1>1
      <3>2. j >= k + 1 /\ j <= k + Width
        <4>1. j \in (k + 1)..(k + Width)
          BY <2>1
        <4>2. k + 1 \in Int /\ k + Width \in Int
          BY <3>1
        <4> QED
          BY <4>1, <4>2, InRange
      <3>3. j + d >= (k + d) + 1 /\ j + d <= (k + d) + Width /\ j + d \in Int
        BY <3>1, <3>2
      <3>4. k + 1 \in i..j /\ (k + 1) + d = (k + d) + 1
        BY <3>1, <3>2
      <3>5. (k + d) + 1 \in Int /\ (k + d) + Width \in Int
        BY <3>1
      <3> QED
        BY ONLY <3>3, <3>4, <3>5
    <2>3. t[(k + d) + 1] = "_"
      BY <2>1, <2>2 DEF Shifted
    <2>4. ASSUME NEW x \in ((k + d) + 2)..(j + d) PROVE t[x] \in Digits
      <3>1. x - d \in (k + 2)..j /\ x - d \in i..j /\ (x - d) + d = x
        OBVIOUS
      <3> QED
        BY <2>1, <3>1 DEF Shifted
    <2>5. PartialTo(t, i + d, j + d, k + d)
      BY <1>4, <1>5, <2>2, <2>3, <2>4 DEF PartialTo
    <2> QED
      BY <1>3, <2>5 DEF Partial
  <1> QED
    BY <1>6, <1>7

LEMMA PartialShifted ==
    ASSUME NEW s, NEW t, NEW d \in Int, NEW i \in Int, NEW j \in Int, Shifted(s, t, d, i, j)
    PROVE  Partial(s, i, j) <=> Partial(t, i + d, j + d)
  <1> DEFINE e == 0 - d  k == i + d  l == j + d
  <1>1. /\ e \in Int /\ k \in Int /\ l \in Int /\ k + e = i /\ l + e = j
        /\ \A x \in k..l : x + e \in i..j /\ (x + e) + d = x
    OBVIOUS
  <1>2. Shifted(t, s, e, k, l)
    <2> HIDE DEF e, k, l
    <2> QED
      BY <1>1 DEF Shifted
  <1>3. Partial(s, i, j) => Partial(t, k, l)
    BY PartialMoved
  <1>4. Partial(t, k, l) => Partial(s, i, j)
    <2> HIDE DEF e, k, l
    <2>1. Partial(t, k, l) => Partial(s, k + e, l + e)
      BY <1>1, <1>2, PartialMoved
    <2> QED
      BY <1>1, <2>1
  <1> QED
    BY <1>3, <1>4

LEMMA NotYetForm ==
    ASSUME NEW S, NEW w \in Seq(S)
    PROVE  NotYetPlaceholder(w) <=> Partial(w, 1, Len(w))
  <1>1. \A k : PartialTo(w, 1, Len(w), k) <=>
                  /\ NamePart(w, k)
                  /\ \/ Len(w) = k
                     \/ /\ Len(w) \in (k + 1)..(k + Width)
                        /\ w[k + 1] = "_"
                        /\ \A i \in (k + 2)..Len(w) : w[i] \in Digits
    BY Zenon DEF PartialTo, NamePart
  <1> QED
    BY <1>1, Zenon DEF NotYetPlaceholder, Partial

LEMMA NotYetIn ==
    ASSUME NEW S, NEW s \in Seq(S), NEW i \in 1..Len(s), NEW j \in i..Len(s)
    PROVE  NotYetPlaceholder(SubSeq(s, i, j)) <=> Partial(s, i, j)
  <1>1. PICK w : w = SubSeq(s, i, j)
    OBVIOUS
  <1>2. /\ w \in Seq(S) /\ Len(w) = j - i + 1
        /\ \A k \in 1..(j - i + 1) : w[k] = s[k + (i - 1)]
    BY <1>1, Part
  <1>3. Shifted(w, s, i - 1, 1, j - i + 1)
    BY <1>2 DEF Shifted
  <1>4. i - 1 \in Int /\ j - i + 1 \in Int /\ 1 + (i - 1) = i /\ (j - i + 1) + (i - 1) = j
    OBVIOUS
  <1>5. Partial(w, 1, j - i + 1) <=> Partial(s, 1 + (i - 1), (j - i + 1) + (i - 1))
    BY <1>3, <1>4, PartialShifted
  <1>6. NotYetPlaceholder(w) <=> Partial(w, 1, Len(w))
    BY <1>2, NotYetForm
  <1> QED
    BY <1>1, <1>2, <1>4, <1>5, <1>6

(***************************************************************************)
(* Rehydration.                                                            *)
(***************************************************************************)
MapperType == [Types -> Seq(Seq(Symbols))]

LEMMA OriginalTyped ==
    ASSUME NEW m \in MapperType, NEW w
    PROVE  Original(m, w) \in Seq(Symbols)
  <1> DEFINE numbered == UNION {{type} \X (DOMAIN m[type]) : type \in Types}
             owners == {o \in numbered : Placeholder(o[1], o[2]) = w}
  <1>1. CASE owners = {}
    <2>1. Original(m, w) = <<Unknown>>
      BY <1>1 DEF Original
    <2>2. Unknown \in Symbols
      BY DEF Symbols
    <2> QED
      BY <2>1, <2>2
  <1>2. CASE owners # {}
    <2>1. PICK o \in owners : Original(m, w) = m[o[1]][o[2]]
      BY <1>2, Zenon DEF Original
    <2>2. PICK type \in Types : o \in {type} \X (DOMAIN m[type])
      BY <2>1
    <2>3. o[1] = type /\ o[2] \in DOMAIN m[type]
      BY <2>2
    <2>4. m[type] \in Seq(Seq(Symbols))
      BY DEF MapperType
    <2>5. m[type][o[2]] \in Seq(Symbols)
      BY <2>3, <2>4
    <2> QED
      BY <2>1, <2>3, <2>5
  <1> QED
    BY <1>1, <1>2

Plain(s, i) == \A h \in 1..i, j \in i..Len(s) : ~PlaceholderAt(s, h, j)

Begins(s, i) == \E j \in i..Len(s) : PlaceholderAt(s, i, j)

LEMMA AtPlaceholder ==
    ASSUME NEW S, NEW s \in Seq(S), NEW m, NEW i \in 1..Len(s), NEW j \in i..Len(s),
           PlaceholderAt(s, i, j)
    PROVE  RehydratedAt(m, s, i) = Original(m, SubSeq(s, i, j))
  <1>1. DOMAIN s = 1..Len(s) /\ j \in 1..Len(s)
    BY SeqFacts
  <1>2. {k \in DOMAIN s : PlaceholderAt(s, i, k)} = {j}
    <2>1. ASSUME NEW k \in DOMAIN s, PlaceholderAt(s, i, k) PROVE k = j
      <3>1. IsWord(s, i, k) /\ IsWord(s, i, j) /\ k \in 1..Len(s)
        BY <1>1, <2>1 DEF PlaceholderAt
      <3> QED
        BY <1>1, <3>1, OneEnd
    <2> QED
      BY <1>1, <2>1
  <1>3. {j} # {} /\ (CHOOSE k \in {j} : TRUE) = j
    OBVIOUS
  <1> QED
    BY <1>2, <1>3 DEF RehydratedAt

LEMMA NotBeginning ==
    ASSUME NEW S, NEW s \in Seq(S), NEW m, NEW i \in 1..Len(s), ~Begins(s, i)
    PROVE  RehydratedAt(m, s, i) = IF Plain(s, i) THEN <<s[i]>> ELSE <<>>
  <1>1. DOMAIN s = 1..Len(s)
    BY SeqFacts
  <1>2. {k \in DOMAIN s : PlaceholderAt(s, i, k)} = {}
    <2>1. ASSUME NEW k \in DOMAIN s, PlaceholderAt(s, i, k) PROVE FALSE
      <3>1. k \in i..Len(s)
        <4>1. i <= k /\ k \in 1..Len(s)
          BY <1>1, <2>1 DEF PlaceholderAt, IsWord
        <4> QED
          BY <4>1
      <3> QED
        BY <2>1, <3>1 DEF Begins
    <2> QED
      BY <2>1
  <1>3. Plain(s, i) <=> ~\E h \in 1..i, j \in i..Len(s) : PlaceholderAt(s, h, j)
    BY DEF Plain
  <1> QED
    BY <1>2, <1>3 DEF RehydratedAt

LEMMA SymbolsShown == Seq(Symbols) \subseteq Seq(Shown) /\ Symbols \subseteq Shown
  <1>1. Symbols \subseteq Shown
    BY DEF Shown
  <1> HIDE DEF Symbols, Shown
  <1> QED
    BY <1>1

LEMMA RehydratedTyped ==
    ASSUME NEW m \in MapperType, NEW s \in Seq(Shown), NEW i \in 1..Len(s)
    PROVE  RehydratedAt(m, s, i) \in Seq(Shown)
  <1>1. CASE Begins(s, i)
    <2>1. PICK j \in i..Len(s) : PlaceholderAt(s, i, j)
      BY <1>1 DEF Begins
    <2>2. RehydratedAt(m, s, i) = Original(m, SubSeq(s, i, j))
      BY <2>1, AtPlaceholder
    <2> QED
      BY <2>2, OriginalTyped, SymbolsShown
  <1>2. CASE ~Begins(s, i)
    <2>1. RehydratedAt(m, s, i) = IF Plain(s, i) THEN <<s[i]>> ELSE <<>>
      BY <1>2, NotBeginning
    <2>2. s[i] \in Shown
      BY SeqFacts
    <2>3. <<s[i]>> \in Seq(Shown) /\ <<>> \in Seq(Shown)
      BY <2>2
    <2> QED
      BY <2>1, <2>3
  <1> QED
    BY <1>1, <1>2

\* Each part is rehydrated as it is in the whole.
LEMMA LeftAt ==
    ASSUME NEW S, NEW s, NEW n, NEW a, NEW b, Splits(S, s, n, a, b), NEW m, NEW i \in 1..n
    PROVE  RehydratedAt(m, a, i) = RehydratedAt(m, s, i)
  <1>0. Cut(S, s, n, a, b)
    BY DEF Splits
  <1>1. /\ n \in Nat /\ Len(s) \in Nat /\ Len(s) >= n /\ Len(a) = n
        /\ s \in Seq(S) /\ a \in Seq(S) /\ n \in 0..Len(s)
    <2>1. /\ n \in Nat /\ Len(s) \in Nat /\ Len(b) \in Nat /\ Len(s) = n + Len(b) /\ Len(a) = n
          /\ s \in Seq(S) /\ a \in Seq(S) /\ n \in 0..Len(s)
      BY <1>0, CutTypes
    <2> QED
      BY <2>1
  <1>2. i \in 1..Len(s) /\ i \in 1..Len(a) /\ \A k \in 1..n : a[k] = s[k]
    BY <1>0, <1>1 DEF Cut
  <1>3. ASSUME NEW j \in i..n, PlaceholderAt(a, i, j) PROVE RehydratedAt(m, a, i) = RehydratedAt(m, s, i)
    <2>1. PlaceholderAt(s, i, j) /\ j \in i..Len(s) /\ j \in i..Len(a)
      BY <1>1, <1>3 DEF Splits
    <2>2. SubSeq(a, i, j) = SubSeq(s, i, j)
      <3>1. /\ SubSeq(a, i, j) \in Seq(S) /\ Len(SubSeq(a, i, j)) = j - i + 1
            /\ \A k \in 1..(j - i + 1) : SubSeq(a, i, j)[k] = a[k + (i - 1)]
        <4>1. i \in 1..(Len(a) + 1) /\ j \in (i - 1)..Len(a)
          BY <1>1, <2>1
        <4> QED
          BY <1>1, <4>1, Part
      <3>2. /\ SubSeq(s, i, j) \in Seq(S) /\ Len(SubSeq(s, i, j)) = j - i + 1
            /\ \A k \in 1..(j - i + 1) : SubSeq(s, i, j)[k] = s[k + (i - 1)]
        <4>1. i \in 1..(Len(s) + 1) /\ j \in (i - 1)..Len(s)
          BY <1>1, <2>1
        <4> QED
          BY <1>1, <4>1, Part
      <3>3. \A k \in 1..(j - i + 1) : k + (i - 1) \in 1..n
        BY <1>1
      <3>4. \A k \in 1..(j - i + 1) : SubSeq(a, i, j)[k] = SubSeq(s, i, j)[k]
        BY <1>2, <3>1, <3>2, <3>3
      <3> QED
        BY <3>1, <3>2, <3>4, Extensional
    <2>3. RehydratedAt(m, a, i) = Original(m, SubSeq(a, i, j))
      BY <1>1, <1>2, <1>3, <2>1, AtPlaceholder
    <2>4. RehydratedAt(m, s, i) = Original(m, SubSeq(s, i, j))
      BY <1>1, <1>2, <2>1, AtPlaceholder
    <2> QED
      BY <2>2, <2>3, <2>4
  <1>4. ASSUME ~Begins(a, i) PROVE RehydratedAt(m, a, i) = RehydratedAt(m, s, i)
    <2>1. ASSUME NEW h \in 1..i, NEW j \in i..Len(s) PROVE j > n => ~PlaceholderAt(s, h, j)
      <3>1. j > n => h \in 1..n /\ j \in (n + 1)..Len(s)
        BY <1>1
      <3> QED
        BY <3>1 DEF Splits
    <2>2. ASSUME NEW h \in 1..i, NEW j \in i..n
          PROVE  (PlaceholderAt(s, h, j) <=> PlaceholderAt(a, h, j)) /\ j \in i..Len(s)
      <3>1. h \in 1..n /\ j \in h..n /\ j \in i..Len(s)
        BY <1>1
      <3> QED
        BY <3>1 DEF Splits
    <2>3. \A j \in i..Len(s) : j > n \/ j \in i..n
      BY <1>1
    <2>4. i \in 1..i
      OBVIOUS
    <2>5. ~Begins(s, i)
      BY <1>1, <1>4, <2>1, <2>2, <2>3, <2>4 DEF Begins
    <2>6. Plain(s, i) <=> Plain(a, i)
      BY <1>1, <2>1, <2>2, <2>3 DEF Plain
    <2>7. a[i] = s[i]
      BY <1>2
    <2>8. RehydratedAt(m, a, i) = IF Plain(a, i) THEN <<a[i]>> ELSE <<>>
      BY <1>1, <1>2, <1>4, NotBeginning
    <2>9. RehydratedAt(m, s, i) = IF Plain(s, i) THEN <<s[i]>> ELSE <<>>
      BY <1>1, <1>2, <2>5, NotBeginning
    <2> QED
      BY <2>6, <2>7, <2>8, <2>9
  <1>5. Begins(a, i) => \E j \in i..n : PlaceholderAt(a, i, j)
    BY <1>1 DEF Begins
  <1> QED
    BY <1>3, <1>4, <1>5

LEMMA RightAt ==
    ASSUME NEW S, NEW s, NEW n, NEW a, NEW b, Splits(S, s, n, a, b), NEW m, NEW i \in 1..Len(b)
    PROVE  RehydratedAt(m, b, i) = RehydratedAt(m, s, i + n)
  <1>0. Cut(S, s, n, a, b)
    BY DEF Splits
  <1>1. /\ n \in Nat /\ Len(s) \in Nat /\ Len(b) \in Nat /\ Len(s) = n + Len(b)
        /\ s \in Seq(S) /\ b \in Seq(S) /\ n \in 0..Len(s)
    BY <1>0, CutTypes
  <1>2. \A k \in 1..Len(b) : b[k] = s[k + n]
    BY <1>0 DEF Cut
  <1>3. i + n \in 1..Len(s)
    BY <1>1
  <1>4. ASSUME NEW j \in i..Len(b), PlaceholderAt(b, i, j)
        PROVE  RehydratedAt(m, b, i) = RehydratedAt(m, s, i + n)
    <2>1. PlaceholderAt(s, i + n, j + n) /\ j + n \in (i + n)..Len(s)
      <3>1. j + n \in (i + n)..Len(s)
        BY <1>1
      <3> QED
        BY <1>4, <3>1 DEF Splits
    <2>2. SubSeq(b, i, j) = SubSeq(s, i + n, j + n)
      <3>1. /\ SubSeq(b, i, j) \in Seq(S) /\ Len(SubSeq(b, i, j)) = j - i + 1
            /\ \A k \in 1..(j - i + 1) : SubSeq(b, i, j)[k] = b[k + (i - 1)]
        <4>1. i \in 1..(Len(b) + 1) /\ j \in (i - 1)..Len(b)
          BY <1>1
        <4> QED
          BY <1>1, <4>1, Part
      <3> DEFINE x == i + n  y == j + n
      <3>2. /\ SubSeq(s, x, y) \in Seq(S) /\ Len(SubSeq(s, x, y)) = y - x + 1
            /\ \A k \in 1..(y - x + 1) : SubSeq(s, x, y)[k] = s[k + (x - 1)]
        <4>1. x \in 1..(Len(s) + 1) /\ y \in (x - 1)..Len(s)
          BY <1>1
        <4> HIDE DEF x, y
        <4> QED
          BY <1>1, <4>1, Part
      <3>3. y - x + 1 = j - i + 1
        BY <1>1
      <3>4. \A k \in 1..(j - i + 1) : k + (i - 1) \in 1..Len(b) /\ (k + (i - 1)) + n = k + (x - 1)
        BY <1>1
      <3> HIDE DEF x, y
      <3>5. \A k \in 1..(j - i + 1) : SubSeq(b, i, j)[k] = SubSeq(s, x, y)[k]
        BY <1>2, <3>1, <3>2, <3>3, <3>4
      <3>6. SubSeq(b, i, j) = SubSeq(s, x, y)
        BY <3>1, <3>2, <3>3, <3>5, Extensional
      <3> QED
        BY <3>6 DEF x, y
    <2>3. RehydratedAt(m, b, i) = Original(m, SubSeq(b, i, j))
      BY <1>1, <1>4, AtPlaceholder
    <2>4. RehydratedAt(m, s, i + n) = Original(m, SubSeq(s, i + n, j + n))
      BY <1>1, <1>3, <2>1, AtPlaceholder
    <2> QED
      BY <2>2, <2>3, <2>4
  <1>5. ASSUME ~Begins(b, i) PROVE RehydratedAt(m, b, i) = RehydratedAt(m, s, i + n)
    <2>1. ASSUME NEW h \in 1..(i + n), NEW j \in (i + n)..Len(s)
          PROVE  h <= n => ~PlaceholderAt(s, h, j)
      <3>1. h <= n => h \in 1..n /\ j \in (n + 1)..Len(s)
        BY <1>1
      <3> QED
        BY <3>1 DEF Splits
    <2>2. ASSUME NEW h \in 1..i, NEW j \in i..Len(b)
          PROVE  /\ PlaceholderAt(s, h + n, j + n) <=> PlaceholderAt(b, h, j)
                 /\ h + n \in 1..(i + n) /\ j + n \in (i + n)..Len(s)
      <3>1. h \in 1..Len(b) /\ j \in h..Len(b) /\ h + n \in 1..(i + n) /\ j + n \in (i + n)..Len(s)
        BY <1>1
      <3> QED
        BY <3>1 DEF Splits
    <2>3. /\ \A j \in (i + n)..Len(s) : j - n \in i..Len(b) /\ (j - n) + n = j
          /\ \A h \in 1..(i + n) : h <= n \/ (h - n \in 1..i /\ (h - n) + n = h)
          /\ i + n \in 1..(i + n) /\ i \in 1..i
      BY <1>1
    <2>4. ~Begins(s, i + n)
      <3>1. SUFFICES ASSUME NEW j \in (i + n)..Len(s), PlaceholderAt(s, i + n, j) PROVE FALSE
        BY DEF Begins
      <3>2. PlaceholderAt(b, i, j - n) /\ j - n \in i..Len(b)
        BY <2>2, <2>3, <3>1
      <3> QED
        BY <1>5, <3>2 DEF Begins
    <2>5. Plain(s, i + n) <=> Plain(b, i)
      <3>1. ASSUME Plain(s, i + n), NEW h \in 1..i, NEW j \in i..Len(b) PROVE ~PlaceholderAt(b, h, j)
        BY <2>2, <3>1 DEF Plain
      <3>2. ASSUME Plain(b, i), NEW h \in 1..(i + n), NEW j \in (i + n)..Len(s)
            PROVE  ~PlaceholderAt(s, h, j)
        <4>1. CASE h <= n
          BY <2>1, <4>1
        <4>2. CASE h - n \in 1..i /\ (h - n) + n = h
          <5>1. ~PlaceholderAt(b, h - n, j - n) /\ j - n \in i..Len(b) /\ (j - n) + n = j
            BY <2>3, <3>2, <4>2 DEF Plain
          <5>2. PlaceholderAt(s, (h - n) + n, (j - n) + n) <=> PlaceholderAt(b, h - n, j - n)
            BY <2>2, <4>2, <5>1
          <5> QED
            BY <4>2, <5>1, <5>2
        <4> QED
          BY <2>3, <4>1, <4>2
      <3> QED
        BY <3>1, <3>2 DEF Plain
    <2>6. b[i] = s[i + n]
      BY <1>2
    <2>7. RehydratedAt(m, b, i) = IF Plain(b, i) THEN <<b[i]>> ELSE <<>>
      BY <1>1, <1>5, NotBeginning
    <2>8. RehydratedAt(m, s, i + n) = IF Plain(s, i + n) THEN <<s[i + n]>> ELSE <<>>
      BY <1>1, <1>3, <2>4, NotBeginning
    <2> QED
      BY <2>5, <2>6, <2>7, <2>8
  <1> QED
    BY <1>4, <1>5 DEF Begins

LEMMA RehydrateParts ==
    ASSUME NEW m \in MapperType, NEW s \in Seq(Shown), NEW F,
           F = [i \in DOMAIN s |-> RehydratedAt(m, s, i)]
    PROVE  /\ F \in Seq(Seq(Shown)) /\ Len(F) = Len(s)
           /\ \A i \in 1..Len(s) : F[i] = RehydratedAt(m, s, i)
           /\ Rehydrate(m, s) = FlattenSeq(F)
           /\ Rehydrate(m, s) \in Seq(Shown)
  <1>1. PICK N \in Nat : N = Len(s)
    OBVIOUS
  <1>2. DOMAIN s = 1..N
    BY <1>1, SeqFacts
  <1>3. \A i \in 1..N : RehydratedAt(m, s, i) \in Seq(Shown)
    BY <1>1, RehydratedTyped
  <1>4. F \in Seq(Seq(Shown)) /\ Len(F) = N
    BY <1>2, <1>3
  <1>5. \A i \in 1..N : F[i] = RehydratedAt(m, s, i)
    BY <1>2
  <1>6. Rehydrate(m, s) = FlattenSeq(F)
    BY DEF Rehydrate
  <1> QED
    BY <1>1, <1>4, <1>5, <1>6, FlattenTyped

LEMMA RehydrateDivided ==
    ASSUME NEW m \in MapperType, NEW s, NEW n, NEW a, NEW b, Splits(Shown, s, n, a, b)
    PROVE  Rehydrate(m, s) = Rehydrate(m, a) \o Rehydrate(m, b)
  <1>0. Cut(Shown, s, n, a, b)
    BY DEF Splits
  <1>1. /\ n \in Nat /\ Len(s) \in Nat /\ Len(b) \in Nat /\ Len(s) = n + Len(b) /\ Len(a) = n
        /\ s \in Seq(Shown) /\ a \in Seq(Shown) /\ b \in Seq(Shown)
    BY <1>0, CutTypes
  <1>2. PICK F : F = [i \in DOMAIN s |-> RehydratedAt(m, s, i)]
    OBVIOUS
  <1>3. PICK A : A = [i \in DOMAIN a |-> RehydratedAt(m, a, i)]
    OBVIOUS
  <1>4. PICK B : B = [i \in DOMAIN b |-> RehydratedAt(m, b, i)]
    OBVIOUS
  <1>5. PICK T : T = Seq(Shown)
    OBVIOUS
  <1>6. /\ F \in Seq(T) /\ Len(F) = Len(s)
        /\ \A i \in 1..Len(s) : F[i] = RehydratedAt(m, s, i)
        /\ Rehydrate(m, s) = FlattenSeq(F)
    BY <1>1, <1>2, <1>5, RehydrateParts
  <1>7. /\ A \in Seq(T) /\ Len(A) = n
        /\ \A i \in 1..n : A[i] = RehydratedAt(m, a, i)
        /\ Rehydrate(m, a) = FlattenSeq(A)
    BY <1>1, <1>3, <1>5, RehydrateParts
  <1>8. /\ B \in Seq(T) /\ Len(B) = Len(b)
        /\ \A i \in 1..Len(b) : B[i] = RehydratedAt(m, b, i)
        /\ Rehydrate(m, b) = FlattenSeq(B)
    BY <1>1, <1>4, <1>5, RehydrateParts
  <1>12. PICK C : C = A \o B
    OBVIOUS
  <1>9. /\ C \in Seq(T) /\ Len(C) = n + Len(b)
        /\ \A i \in 1..n : C[i] = A[i]
        /\ \A i \in 1..Len(b) : C[n + i] = B[i]
    <2>1. A \in Seq(T) /\ B \in Seq(T) /\ Len(A) = n /\ Len(B) = Len(b)
      BY <1>7, <1>8
    <2>2. Join(T, A, B, C)
      BY <1>12, <2>1, Joined
    <2> QED
      BY <2>1, <2>2 DEF Join
  <1>10. \A i \in 1..Len(F) : F[i] = C[i]
    <2> TAKE i \in 1..Len(F)
    <2>1. CASE i <= n
      <3>1. i \in 1..n /\ i \in 1..Len(s)
        BY <1>1, <1>6, <2>1
      <3>2. RehydratedAt(m, a, i) = RehydratedAt(m, s, i)
        BY <3>1, LeftAt
      <3> QED
        BY <1>6, <1>7, <1>9, <3>1, <3>2
    <2>2. CASE i > n
      <3> DEFINE k == i - n
      <3>1. k \in 1..Len(b) /\ n + k = i /\ k + n = i /\ i \in 1..Len(s)
        BY <1>1, <1>6, <2>2
      <3> HIDE DEF k
      <3>2. RehydratedAt(m, b, k) = RehydratedAt(m, s, k + n)
        BY <3>1, RightAt
      <3> QED
        BY <1>6, <1>8, <1>9, <3>1, <3>2
    <2>3. i <= n \/ i > n
      BY <1>1, <1>6
    <2> QED
      BY <2>1, <2>2, <2>3
  <1>11. F = C
    BY <1>1, <1>6, <1>9, <1>10, Extensional
  <1> QED
    BY <1>5, <1>6, <1>7, <1>8, <1>11, <1>12, FlattenConcat

LEMMA RehydrateSplit ==
    ASSUME NEW m \in MapperType, NEW s, NEW n, NEW a, NEW b, CleanCut(Shown, s, n, a, b)
    PROVE  Rehydrate(m, s) = Rehydrate(m, a) \o Rehydrate(m, b)
  BY CleanCutDivides, RehydrateDivided

(***************************************************************************)
(* A text that arrives in chunks.                                          *)
(***************************************************************************)
\* No placeholder ends inside another.
LEMMA FormEnds ==
    ASSUME NEW s, NEW h \in Int, NEW i \in Int, NEW j \in Int, NEW k \in Int,
           h <= i, j < k, Form(s, h, k), Form(s, i, j)
    PROVE  FALSE
  <1>1. Width \in Nat /\ Width >= 2
    BY WidthIs
  <1>2. i <= j - Width - 1
    BY DEF Form
  <1> DEFINE x == j - Width + 1
  <1>3. /\ x \in (j - Width + 1)..j
        /\ x = k - Width \/ x \in h..(k - Width - 1)
    BY <1>1, <1>2
  <1> HIDE DEF x
  <1>4. s[x] \in Digits
    BY <1>3 DEF Form
  <1>5. s[x] \in Names \cup {"_"}
    <2>1. CASE x = k - Width
      BY <2>1 DEF Form
    <2>2. CASE x \in h..(k - Width - 1)
      BY <2>2 DEF Form
    <2> QED
      BY <1>3, <2>1, <2>2
  <1> QED
    BY <1>4, <1>5, DigitsApart

LEMMA PrefixWhole ==
    ASSUME NEW S, NEW s, NEW n, NEW a, NEW b, Cut(S, s, n, a, b), WordsWhole(s)
    PROVE  WordsWhole(a)
  <1>1. /\ n \in Nat /\ Len(s) \in Nat /\ Len(b) \in Nat /\ Len(s) = n + Len(b) /\ Len(a) = n
        /\ s \in Seq(S) /\ a \in Seq(S) /\ DOMAIN a = 1..n
    BY CutTypes
  <1>2. SUFFICES ASSUME NEW i \in 1..n, NEW j \in 1..n, i <= j, IsPlaceholder(SubSeq(a, i, j))
                 PROVE  \E h \in 1..i, k \in j..Len(a) : PlaceholderAt(a, h, k)
    BY <1>1 DEF WordsWhole
  <1>3. i \in 1..Len(a) /\ j \in i..Len(a) /\ i \in 1..Len(s) /\ j \in i..Len(s) /\ i \in Int /\ j \in Int
    BY <1>1, <1>2
  <1>4. Form(a, i, j)
    BY <1>1, <1>2, <1>3, PlaceholderIn
  <1>5. Form(s, i, j)
    BY <1>4, CutForms
  <1>6. PICK h \in 1..i, k \in j..Len(s) : PlaceholderAt(s, h, k)
    BY <1>1, <1>3, <1>5, Whole
  <1>7. h \in 1..Len(s) /\ k \in h..Len(s) /\ h \in Int /\ k \in Int /\ h <= i
    BY <1>1, <1>3
  <1>8. IsWord(s, h, k) /\ Form(s, h, k)
    BY <1>1, <1>6, <1>7, AtForm
  <1>9. j = k
    <2>1. j < k \/ j = k
      BY <1>1
    <2> QED
      BY <1>3, <1>5, <1>7, <1>8, <2>1, FormEnds
  <1>10. h \in 1..n /\ k \in h..n /\ h \in 1..Len(a) /\ k \in h..Len(a) /\ k \in j..Len(a) /\ k \in 1..n
    BY <1>1, <1>7, <1>9
  <1>11. IsWord(a, h, k)
    BY <1>8, <1>10, LeftWords
  <1>12. Form(a, h, k)
    BY <1>8, <1>10, CutForms
  <1>13. PlaceholderAt(a, h, k)
    BY <1>1, <1>10, <1>11, <1>12, AtForm
  <1> QED
    BY <1>10, <1>13

LEMMA CleanSame ==
    ASSUME NEW s, NEW t, NEW n \in Nat, \A k \in 1..n : s[k] = t[k], Clean(s, n)
    PROVE  Clean(t, n)
  <1> SUFFICES ASSUME NEW i \in 1..n, WordStarts(t, i), \A k \in i..n : t[k] \in Words,
                      Partial(t, i, n)
               PROVE  FALSE
    BY DEF Clean
  <1>1. /\ i \in Int /\ n \in Int /\ i + 0 = i /\ n + 0 = n /\ 0 \in Int
        /\ \A k \in i..n : k \in 1..n /\ k + 0 = k
        /\ i # 1 => i - 1 \in 1..n
    OBVIOUS
  <1>2. WordStarts(s, i)
    BY <1>1 DEF WordStarts
  <1>3. \A k \in i..n : s[k] \in Words
    BY <1>1
  <1>4. Shifted(t, s, 0, i, n)
    BY <1>1 DEF Shifted
  <1>5. Partial(s, i, n)
    <2>1. Partial(s, i + 0, n + 0)
      BY <1>1, <1>4, PartialMoved
    <2> QED
      BY <1>1, <2>1
  <1> QED
    BY <1>2, <1>3, <1>5 DEF Clean

LEMMA UnfinishedIs ==
    ASSUME NEW S, NEW s \in Seq(S), NEW e \in 0..Len(s)
    PROVE  \A i : i \in Unfinished(s, e) <=> i \in 1..e /\ IsWord(s, i, e) /\ Partial(s, i, e)
  <1>1. Len(s) \in Nat
    BY SeqFacts
  <1>2. ASSUME NEW i \in 1..e PROVE NotYetPlaceholder(SubSeq(s, i, e)) <=> Partial(s, i, e)
    <2>1. i \in 1..Len(s) /\ e \in i..Len(s)
      BY <1>1
    <2> QED
      BY <2>1, NotYetIn
  <1> QED
    BY <1>2 DEF Unfinished

\* No word of s ends there that may become a placeholder.
EndsWhole(s) == \A i \in 1..Len(s) : ~(IsWord(s, i, Len(s)) /\ Partial(s, i, Len(s)))

\* s is kept back from i on: a word that may become a placeholder, perhaps with a
\* newline.
KeptFrom(s, i, e) ==
    /\ i \in 1..Len(s) /\ e \in i..Len(s)
    /\ IsWord(s, i, e) /\ Partial(s, i, e)
    /\ e = Len(s) \/ (e = Len(s) - 1 /\ s[Len(s)] = Newline)

LEMMA HeldIs ==
    ASSUME NEW S, NEW s \in Seq(S)
    PROVE  /\ Held(s) \in 0..Len(s)
           /\ Held(s) = 0 => EndsWhole(s) \/ (Len(s) \in 1..Len(s) /\ s[Len(s)] = Newline)
           /\ Held(s) # 0 => \E i, e : Held(s) = Len(s) + 1 - i /\ KeptFrom(s, i, e)
  <1>1. PICK N \in Nat : N = Len(s)
    BY SeqFacts
  <1> DEFINE lined == s # <<>> /\ s[Len(s)] = Newline
  <1>2. lined => N \in 1..N
    <2> HAVE lined
    <2>1. N # 0
      BY <1>1, NoLength
    <2> QED
      BY <1>1, <2>1
  <1>3. PICK e : e = IF lined THEN N - 1 ELSE N
    OBVIOUS
  <1>4. e \in 0..N
    BY <1>1, <1>2, <1>3
  <1>5. PICK starts : starts = Unfinished(s, e)
    OBVIOUS
  <1>6. Held(s) = HeldFrom(starts, s)
    BY <1>1, <1>3, <1>5 DEF Held
  <1>7. \A i : i \in starts <=> i \in 1..e /\ IsWord(s, i, e) /\ Partial(s, i, e)
    BY <1>1, <1>4, <1>5, UnfinishedIs
  <1>8. CASE starts = {}
    <2>1. Held(s) = 0
      BY <1>6, <1>8 DEF HeldFrom
    <2>2. ASSUME ~lined PROVE EndsWhole(s)
      BY <1>1, <1>3, <1>7, <1>8, <2>2 DEF EndsWhole
    <2>3. 0 \in 0..N
      BY <1>1
    <2> QED
      BY <1>1, <1>2, <2>1, <2>2, <2>3
  <1>9. CASE starts # {}
    <2>1. PICK i \in starts : Held(s) = N + 1 - i
      BY <1>1, <1>6, <1>9, Zenon DEF HeldFrom
    <2>2. i \in 1..e /\ IsWord(s, i, e) /\ Partial(s, i, e)
      BY <1>7
    <2>3. i \in 1..N /\ e \in i..N /\ N + 1 - i \in 1..N
      BY <1>4, <2>2
    <2>4. e = N \/ (e = N - 1 /\ s[N] = Newline)
      BY <1>1, <1>3
    <2>5. KeptFrom(s, i, e)
      BY <1>1, <2>2, <2>3, <2>4 DEF KeptFrom
    <2>6. Held(s) \in 0..N /\ Held(s) # 0
      BY <1>1, <2>1, <2>3
    <2> QED
      BY <1>1, <2>1, <2>5, <2>6
  <1> QED
    BY <1>8, <1>9

LEMMA NewlineIs == Newline \notin Words
  BY RedactionAssumption

LEMMA EndClean ==
    ASSUME NEW S, NEW t, NEW n, NEW a, NEW b, Cut(S, t, n, a, b), Clean(t, n), EndsWhole(b)
    PROVE  Clean(t, Len(t))
  <1>1. /\ n \in Nat /\ Len(t) \in Nat /\ Len(b) \in Nat /\ Len(t) = n + Len(b)
        /\ t \in Seq(S) /\ b \in Seq(S)
    BY CutTypes
  <1>2. \A k \in 1..Len(b) : b[k] = t[k + n]
    BY DEF Cut
  <1>3. \A i \in 1..Len(b) : ~(IsWord(b, i, Len(b)) /\ Partial(b, i, Len(b)))
    BY DEF EndsWhole
  <1>4. SUFFICES ASSUME NEW i \in 1..Len(t), WordStarts(t, i), \A k \in i..Len(t) : t[k] \in Words,
                        Partial(t, i, Len(t))
                 PROVE  FALSE
    BY DEF Clean
  <1>5. CASE i <= n
    <2>1. i \in Int /\ Len(t) \in Int /\ n \in i..Len(t) /\ i \in 1..n
          /\ \A k \in i..n : k \in i..Len(t)
      BY <1>1, <1>5
    <2>2. Partial(t, i, n)
      BY <1>4, <2>1, PartialBegins
    <2> QED
      BY <1>4, <2>1, <2>2 DEF Clean
  <1>6. CASE i > n
    <2> DEFINE j == i - n
    <2>1. /\ j \in 1..Len(b) /\ j + n = i /\ Len(b) + n = Len(t) /\ Len(b) \in j..Len(b)
          /\ i <= Len(t) /\ Len(t) \in i..Len(t)
          /\ \A k \in j..Len(b) : k \in 1..Len(b)
          /\ j \in Int /\ n \in Int /\ Len(b) \in Int
      BY <1>1, <1>6
    <2> HIDE DEF j
    <2>2. IsWord(t, i, Len(t))
      BY <1>4, <2>1 DEF IsWord, WordEnds
    <2>3. IsWord(b, j, Len(b))
      <3>1. IsWord(t, j + n, Len(b) + n)
        BY <2>1, <2>2
      <3> QED
        BY <2>1, <3>1, RightWords
    <2>4. Shifted(b, t, n, j, Len(b))
      BY <1>2, <2>1 DEF Shifted
    <2>5. Partial(t, j + n, Len(b) + n)
      BY <1>4, <2>1
    <2>6. Partial(b, j, Len(b))
      BY <2>1, <2>4, <2>5, PartialShifted
    <2> QED
      BY <1>3, <2>1, <2>3, <2>6
  <1>7. i <= n \/ i > n
    BY <1>1
  <1> QED
    BY <1>5, <1>6, <1>7

\* What Held keeps back leaves a cut that cuts no placeholder.
LEMMA HeldClean ==
    ASSUME NEW S, NEW t, NEW n, NEW a, NEW b, Cut(S, t, n, a, b), Clean(t, n),
           NEW h, h = Len(b) - Held(b)
    PROVE  Clean(t, n + h)
  <1>1. /\ n \in Nat /\ Len(t) \in Nat /\ Len(b) \in Nat /\ Len(t) = n + Len(b)
        /\ t \in Seq(S) /\ b \in Seq(S)
    BY CutTypes
  <1>2. \A k \in 1..Len(b) : b[k] = t[k + n]
    BY DEF Cut
  <1>3. /\ Held(b) \in 0..Len(b)
        /\ Held(b) = 0 => EndsWhole(b) \/ (Len(b) \in 1..Len(b) /\ b[Len(b)] = Newline)
        /\ Held(b) # 0 => \E i, e : Held(b) = Len(b) + 1 - i /\ KeptFrom(b, i, e)
    BY <1>1, HeldIs
  \* Where the cut is at the beginning of b or behind what is not of a word.
  <1>4. ASSUME h \in 0..Len(b), h = 0 \/ b[h] \notin Words PROVE Clean(t, n + h)
    <2>1. CASE h = 0
      BY <1>1, <2>1
    <2>2. CASE h # 0
      <3>1. h \in 1..Len(b) /\ h + n = n + h /\ n + h \in Nat
        BY <1>1, <1>4, <2>2
      <3>2. t[n + h] \notin Words
        BY <1>2, <1>4, <2>2, <3>1
      <3>3. \A i \in 1..(n + h) : n + h \in i..(n + h)
        BY <3>1
      <3> QED
        BY <3>2, <3>3 DEF Clean
    <2> QED
      BY <2>1, <2>2
  <1>5. CASE Held(b) = 0
    <2>1. h = Len(b) /\ n + h = Len(t) /\ h \in 0..Len(b)
      BY <1>1, <1>5
    <2>2. CASE EndsWhole(b)
      <3>1. Clean(t, Len(t))
        BY <2>2, EndClean
      <3> QED
        BY <2>1, <3>1
    <2>3. CASE Len(b) \in 1..Len(b) /\ b[Len(b)] = Newline
      <3>1. b[h] \notin Words
        BY <2>1, <2>3, NewlineIs
      <3> QED
        BY <1>4, <2>1, <3>1
    <2> QED
      BY <1>3, <1>5, <2>2, <2>3
  <1>6. CASE Held(b) # 0
    <2>1. PICK i, e : Held(b) = Len(b) + 1 - i /\ KeptFrom(b, i, e)
      BY <1>3, <1>6
    <2>2. i \in 1..Len(b) /\ WordStarts(b, i)
      BY <2>1 DEF KeptFrom, IsWord
    <2>3. h = i - 1 /\ h \in 0..Len(b) /\ (h = 0 <=> i = 1)
      BY <1>1, <2>1, <2>2
    <2>4. h = 0 \/ b[h] \notin Words
      BY <2>2, <2>3 DEF WordStarts
    <2> QED
      BY <1>4, <2>3, <2>4
  <1> QED
    BY <1>5, <1>6

\* The first n + h symbols of s.
LEMMA CutFurther ==
    ASSUME NEW S, NEW s, NEW n, NEW a, NEW b, Cut(S, s, n, a, b), NEW h \in 0..Len(b),
           NEW c, c = SubSeq(b, 1, h), NEW d, d = SubSeq(b, h + 1, Len(b))
    PROVE  Cut(S, s, n + h, a \o c, d) /\ Cut(S, a \o c, n, a, c)
  <1>1. /\ n \in Nat /\ Len(s) \in Nat /\ Len(b) \in Nat /\ Len(s) = n + Len(b) /\ Len(a) = n
        /\ s \in Seq(S) /\ a \in Seq(S) /\ b \in Seq(S)
    BY CutTypes
  <1>2. /\ \A k \in 1..n : a[k] = s[k]
        /\ \A k \in 1..Len(b) : b[k] = s[k + n]
    BY DEF Cut
  <1>3. c \in Seq(S) /\ Len(c) = h /\ \A k \in 1..h : c[k] = b[k]
    <2> DEFINE x == 1
    <2>0. x \in 1..(Len(b) + 1) /\ h \in (x - 1)..Len(b)
      BY <1>1
    <2>1. /\ SubSeq(b, x, h) \in Seq(S) /\ Len(SubSeq(b, x, h)) = h - x + 1
          /\ \A k \in 1..(h - x + 1) : SubSeq(b, x, h)[k] = b[k + (x - 1)]
      <3> HIDE DEF x
      <3> QED
        BY <1>1, <2>0, Part
    <2>2. h - x + 1 = h /\ \A k \in 1..h : k + (x - 1) = k
      BY <1>1
    <2> QED
      BY <2>1, <2>2
  <1>4. d \in Seq(S) /\ Len(d) = Len(b) - h /\ \A k \in 1..(Len(b) - h) : d[k] = b[k + h]
    <2> DEFINE x == h + 1  y == Len(b)
    <2>0. x \in 1..(Len(b) + 1) /\ y \in (x - 1)..Len(b)
      BY <1>1
    <2>1. /\ SubSeq(b, x, y) \in Seq(S) /\ Len(SubSeq(b, x, y)) = y - x + 1
          /\ \A k \in 1..(y - x + 1) : SubSeq(b, x, y)[k] = b[k + (x - 1)]
      <3> HIDE DEF x, y
      <3> QED
        BY <1>1, <2>0, Part
    <2>2. y - x + 1 = Len(b) - h /\ \A k \in 1..(Len(b) - h) : k + (x - 1) = k + h
      BY <1>1
    <2>3. d = SubSeq(b, x, y)
      OBVIOUS
    <2> HIDE DEF x, y
    <2> QED
      BY <2>1, <2>2, <2>3
  <1>5. PICK e : e = a \o c
    OBVIOUS
  <1>6. Join(S, a, c, e)
    BY <1>1, <1>3, <1>5, Joined
  <1>7. /\ e \in Seq(S) /\ Len(e) = n + h
        /\ \A k \in 1..n : e[k] = a[k]
        /\ \A k \in 1..h : e[n + k] = c[k]
    BY <1>1, <1>3, <1>6 DEF Join
  <1>8. Cut(S, e, n, a, c)
    <2>1. n \in 0..(n + h) /\ (n + h) - n = h /\ \A k \in 1..h : n + k = k + n
      BY <1>1
    <2> QED
      BY <1>1, <1>3, <1>7, <2>1 DEF Cut
  <1>9. Cut(S, s, n + h, e, d)
    <2>1. n + h \in 0..Len(s) /\ Len(b) - h = Len(s) - (n + h)
      BY <1>1
    <2>2. \A k \in 1..(n + h) : e[k] = s[k]
      <3> TAKE k \in 1..(n + h)
      <3>1. CASE k <= n
        <4>1. k \in 1..n
          BY <1>1, <3>1
        <4> QED
          BY <1>2, <1>7, <4>1
      <3>2. CASE k > n
        <4> DEFINE l == k - n
        <4>1. l \in 1..h /\ n + l = k /\ l + n = k /\ l \in 1..Len(b)
          BY <1>1, <3>2
        <4> HIDE DEF l
        <4> QED
          BY <1>2, <1>3, <1>7, <4>1
      <3>3. k <= n \/ k > n
        BY <1>1
      <3> QED
        BY <3>1, <3>2, <3>3
    <2>3. \A k \in 1..(Len(b) - h) : d[k] = s[k + (n + h)]
      <3> TAKE k \in 1..(Len(b) - h)
      <3>1. k + h \in 1..Len(b) /\ (k + h) + n = k + (n + h)
        BY <1>1
      <3> QED
        BY <1>2, <1>4, <3>1
    <2> QED
      BY <1>1, <1>4, <1>7, <2>1, <2>2, <2>3 DEF Cut
  <1> QED
    BY <1>5, <1>8, <1>9

\* Text added to s is added to its second part.
Extended(S, s, n, a, c, t, e) ==
    /\ Cut(S, t, n, a, e) /\ Cut(S, t, Len(s), s, c)
    /\ \A k \in 1..n : t[k] = s[k]

LEMMA CutExtended ==
    ASSUME NEW S, NEW s, NEW n, NEW a, NEW b, Cut(S, s, n, a, b), NEW c \in Seq(S)
    PROVE  Extended(S, s, n, a, c, s \o c, b \o c)
  <1>3. PICK t : t = s \o c
    OBVIOUS
  <1>4. PICK e : e = b \o c
    OBVIOUS
  <1>1. /\ n \in Nat /\ Len(s) \in Nat /\ Len(b) \in Nat /\ Len(s) = n + Len(b) /\ Len(a) = n
        /\ s \in Seq(S) /\ a \in Seq(S) /\ b \in Seq(S)
    BY CutTypes
  <1>2. /\ \A k \in 1..n : a[k] = s[k]
        /\ \A k \in 1..Len(b) : b[k] = s[k + n]
    BY DEF Cut
  <1>5. Join(S, s, c, t) /\ Join(S, b, c, e)
    BY <1>1, <1>3, <1>4, Joined
  <1>6. /\ t \in Seq(S) /\ Len(t) = Len(s) + Len(c)
        /\ \A k \in 1..Len(s) : t[k] = s[k]
        /\ \A k \in 1..Len(c) : t[Len(s) + k] = c[k]
    BY <1>5 DEF Join
  <1>7. /\ e \in Seq(S) /\ Len(e) = Len(b) + Len(c)
        /\ \A k \in 1..Len(b) : e[k] = b[k]
        /\ \A k \in 1..Len(c) : e[Len(b) + k] = c[k]
    BY <1>5 DEF Join
  <1>8. Len(c) \in Nat
    BY SeqFacts
  <1>9. /\ n \in 0..Len(t) /\ Len(e) = Len(t) - n
        /\ Len(s) \in 0..Len(t) /\ Len(c) = Len(t) - Len(s)
        /\ \A k \in 1..n : k \in 1..Len(s)
        /\ \A k \in 1..Len(c) : Len(s) + k = k + Len(s)
    BY <1>1, <1>6, <1>7, <1>8
  <1>10. \A k \in 1..n : t[k] = s[k]
    BY <1>6, <1>9
  <1>11. \A k \in 1..Len(e) : e[k] = t[k + n]
    <2> TAKE k \in 1..Len(e)
    <2>1. CASE k <= Len(b)
      <3>1. k \in 1..Len(b) /\ k + n \in 1..Len(s)
        BY <1>1, <2>1
      <3> QED
        BY <1>2, <1>6, <1>7, <3>1
    <2>2. CASE k > Len(b)
      <3> DEFINE l == k - Len(b)
      <3>1. l \in 1..Len(c) /\ Len(b) + l = k /\ Len(s) + l = k + n
        BY <1>1, <1>7, <1>8, <2>2
      <3> HIDE DEF l
      <3> QED
        BY <1>6, <1>7, <3>1
    <2>3. k <= Len(b) \/ k > Len(b)
      BY <1>1
    <2> QED
      BY <2>1, <2>2, <2>3
  <1>12. Cut(S, t, n, a, e)
    BY <1>1, <1>2, <1>6, <1>7, <1>9, <1>10, <1>11 DEF Cut
  <1>13. Cut(S, t, Len(s), s, c)
    BY <1>1, <1>6, <1>9 DEF Cut
  <1> QED
    BY <1>3, <1>4, <1>10, <1>12, <1>13 DEF Extended

\* Of the text s, out has been shown and buf is kept back.
Carried(m, s, out, buf) ==
    \E n \in Nat, a \in Seq(Shown) :
        /\ Cut(Shown, s, n, a, buf)
        /\ Clean(s, n)
        /\ WordsWhole(s) => out = Rehydrate(m, a)

\* Of the text s, out has been shown.
Complete(m, s, out) == WordsWhole(s) => out = Rehydrate(m, s)

LEMMA NothingCarried ==
    ASSUME NEW m
    PROVE  Carried(m, <<>>, <<>>, <<>>)
  <1>1. Cut(Shown, <<>>, 0, <<>>, <<>>)
    BY DEF Cut
  <1>2. Clean(<<>>, 0)
    BY DEF Clean
  <1>3. Rehydrate(m, <<>>) = <<>>
    BY DEF Rehydrate, FlattenSeq
  <1>4. <<>> \in Seq(Shown) /\ 0 \in Nat
    OBVIOUS
  <1> QED
    BY <1>1, <1>2, <1>3, <1>4, Zenon DEF Carried

LEMMA CarriedComplete ==
    ASSUME NEW m \in MapperType, NEW s, NEW out, NEW buf, Carried(m, s, out, buf)
    PROVE  Complete(m, s, out \o Rehydrate(m, buf))
  <1>1. PICK n \in Nat, a \in Seq(Shown) :
            /\ Cut(Shown, s, n, a, buf)
            /\ Clean(s, n)
            /\ WordsWhole(s) => out = Rehydrate(m, a)
    BY DEF Carried
  <1>2. ASSUME WordsWhole(s) PROVE Rehydrate(m, s) = Rehydrate(m, a) \o Rehydrate(m, buf)
    <2>1. CleanCut(Shown, s, n, a, buf)
      BY <1>1, <1>2 DEF CleanCut
    <2> QED
      BY <2>1, RehydrateSplit
  <1> QED
    BY <1>1, <1>2 DEF Complete

\* What a chunk adds, Held tells what of it to show.
LEMMA ReceiveCarries ==
    ASSUME NEW m \in MapperType, NEW s, NEW out, NEW buf, Carried(m, s, out, buf),
           NEW c \in Seq(Shown), NEW b, b = buf \o c, NEW safe, NEW rest,
           safe = SubSeq(b, 1, Len(b) - Held(b)), rest = SubSeq(b, Len(b) - Held(b) + 1, Len(b))
    PROVE  Carried(m, s \o c, out \o Rehydrate(m, safe), rest)
  <1>1. PICK n \in Nat, a \in Seq(Shown) :
            /\ Cut(Shown, s, n, a, buf)
            /\ Clean(s, n)
            /\ WordsWhole(s) => out = Rehydrate(m, a)
    BY DEF Carried
  <1>2. PICK t : t = s \o c
    OBVIOUS
  <1>3. Cut(Shown, t, n, a, b) /\ Cut(Shown, t, Len(s), s, c) /\ \A k \in 1..n : t[k] = s[k]
    <2>1. Extended(Shown, s, n, a, c, t, b)
      BY <1>1, <1>2, CutExtended
    <2> QED
      BY <2>1 DEF Extended
  <1>4. Clean(t, n)
    BY <1>1, <1>3, CleanSame
  <1>5. b \in Seq(Shown) /\ Len(b) \in Nat
    BY <1>3, CutTypes
  <1>6. PICK h : h = Len(b) - Held(b)
    OBVIOUS
  <1>7. h \in 0..Len(b)
    <2>1. Held(b) \in 0..Len(b)
      BY <1>5, HeldIs
    <2> QED
      BY <1>5, <1>6, <2>1
  <1>8. Clean(t, n + h)
    BY <1>3, <1>4, <1>6, HeldClean
  <1>9. PICK e : e = a \o safe
    OBVIOUS
  <1>10. safe = SubSeq(b, 1, h) /\ rest = SubSeq(b, h + 1, Len(b))
    BY <1>6
  <1>11. Cut(Shown, t, n + h, e, rest) /\ Cut(Shown, e, n, a, safe)
    BY <1>3, <1>7, <1>9, <1>10, CutFurther
  <1>12. ASSUME WordsWhole(t) PROVE out \o Rehydrate(m, safe) = Rehydrate(m, e)
    <2>1. WordsWhole(s) /\ WordsWhole(e)
      BY <1>3, <1>11, <1>12, PrefixWhole
    <2>2. \A k \in 1..n : t[k] = e[k]
      <3>1. \A k \in 1..n : a[k] = t[k]
        BY <1>3 DEF Cut
      <3>2. \A k \in 1..n : a[k] = e[k]
        BY <1>11 DEF Cut
      <3> QED
        BY <3>1, <3>2
    <2>3. Clean(e, n)
      BY <1>4, <2>2, CleanSame
    <2>4. CleanCut(Shown, e, n, a, safe)
      BY <1>11, <2>1, <2>3 DEF CleanCut
    <2>5. Rehydrate(m, e) = Rehydrate(m, a) \o Rehydrate(m, safe)
      BY <2>4, RehydrateSplit
    <2> QED
      BY <1>1, <2>1, <2>5
  <1>13. n + h \in Nat /\ e \in Seq(Shown)
    BY <1>5, <1>7, <1>11, CutTypes
  <1> QED
    BY <1>2, <1>8, <1>11, <1>12, <1>13 DEF Carried

(***************************************************************************)
(* What the chunks said, without the images.                               *)
(***************************************************************************)
LEMMA TextParts ==
    ASSUME NEW s \in Seq(Shown), NEW F,
           F = [i \in DOMAIN s |-> IF s[i] = Image THEN <<>> ELSE <<s[i]>>]
    PROVE  /\ F \in Seq(Seq(Symbols)) /\ Len(F) = Len(s)
           /\ \A i \in 1..Len(s) : F[i] = IF s[i] = Image THEN <<>> ELSE <<s[i]>>
           /\ TextOf(s) = FlattenSeq(F)
           /\ TextOf(s) \in Seq(Symbols)
  <1>1. PICK N \in Nat : N = Len(s)
    OBVIOUS
  <1>2. DOMAIN s = 1..N
    BY <1>1, SeqFacts
  <1>3. ASSUME NEW i \in 1..N PROVE (IF s[i] = Image THEN <<>> ELSE <<s[i]>>) \in Seq(Symbols)
    <2>1. s[i] \in Symbols \cup {Image}
      BY <1>1, SeqFacts DEF Shown
    <2> HIDE DEF Symbols
    <2>2. CASE s[i] = Image
      BY <2>2
    <2>3. CASE s[i] # Image
      <3>1. <<s[i]>> \in Seq(Symbols)
        BY <2>1, <2>3
      <3> QED
        BY <2>3, <3>1
    <2> QED
      BY <2>2, <2>3
  <1>4. F \in Seq(Seq(Symbols)) /\ Len(F) = N
    BY <1>2, <1>3
  <1>5. \A i \in 1..N : F[i] = IF s[i] = Image THEN <<>> ELSE <<s[i]>>
    BY <1>2
  <1>6. TextOf(s) = FlattenSeq(F)
    BY DEF TextOf
  <1> QED
    BY <1>1, <1>4, <1>5, <1>6, FlattenTyped

LEMMA TextConcat ==
    ASSUME NEW s \in Seq(Shown), NEW t \in Seq(Shown)
    PROVE  TextOf(s \o t) = TextOf(s) \o TextOf(t)
  <1>1. PICK u : u = s \o t
    OBVIOUS
  <1>2. Join(Shown, s, t, u)
    BY <1>1, Joined
  <1>3. /\ u \in Seq(Shown) /\ Len(u) = Len(s) + Len(t)
        /\ \A i \in 1..Len(s) : u[i] = s[i]
        /\ \A i \in 1..Len(t) : u[Len(s) + i] = t[i]
    BY <1>2 DEF Join
  <1>4. PICK F : F = [i \in DOMAIN u |-> IF u[i] = Image THEN <<>> ELSE <<u[i]>>]
    OBVIOUS
  <1>5. PICK A : A = [i \in DOMAIN s |-> IF s[i] = Image THEN <<>> ELSE <<s[i]>>]
    OBVIOUS
  <1>6. PICK B : B = [i \in DOMAIN t |-> IF t[i] = Image THEN <<>> ELSE <<t[i]>>]
    OBVIOUS
  <1>7. PICK T : T = Seq(Symbols)
    OBVIOUS
  <1>8. /\ F \in Seq(T) /\ Len(F) = Len(u)
        /\ \A i \in 1..Len(u) : F[i] = IF u[i] = Image THEN <<>> ELSE <<u[i]>>
        /\ TextOf(u) = FlattenSeq(F)
    BY <1>3, <1>4, <1>7, TextParts
  <1>9. /\ A \in Seq(T) /\ Len(A) = Len(s)
        /\ \A i \in 1..Len(s) : A[i] = IF s[i] = Image THEN <<>> ELSE <<s[i]>>
        /\ TextOf(s) = FlattenSeq(A)
    BY <1>5, <1>7, TextParts
  <1>10. /\ B \in Seq(T) /\ Len(B) = Len(t)
         /\ \A i \in 1..Len(t) : B[i] = IF t[i] = Image THEN <<>> ELSE <<t[i]>>
         /\ TextOf(t) = FlattenSeq(B)
    BY <1>6, <1>7, TextParts
  <1>11. PICK C : C = A \o B
    OBVIOUS
  <1>12. Join(T, A, B, C)
    BY <1>9, <1>10, <1>11, Joined
  <1>13. /\ C \in Seq(T) /\ Len(C) = Len(s) + Len(t)
         /\ \A i \in 1..Len(s) : C[i] = A[i]
         /\ \A i \in 1..Len(t) : C[Len(s) + i] = B[i]
    BY <1>9, <1>10, <1>12 DEF Join
  <1>14. Len(s) \in Nat /\ Len(t) \in Nat
    BY SeqFacts
  <1>15. \A i \in 1..Len(F) : F[i] = C[i]
    <2> TAKE i \in 1..Len(F)
    <2>0. i \in 1..Len(u)
      BY <1>8
    <2>1. CASE i <= Len(s)
      <3>1. i \in 1..Len(s)
        BY <1>14, <2>1
      <3> QED
        BY <1>3, <1>8, <1>9, <1>13, <2>0, <3>1
    <2>2. CASE i > Len(s)
      <3> DEFINE k == i - Len(s)
      <3>1. k \in 1..Len(t) /\ Len(s) + k = i
        BY <1>3, <1>14, <2>0, <2>2
      <3> HIDE DEF k
      <3> QED
        BY <1>3, <1>8, <1>10, <1>13, <2>0, <3>1
    <2>3. i <= Len(s) \/ i > Len(s)
      BY <1>3, <1>14, <2>0
    <2> QED
      BY <2>1, <2>2, <2>3
  <1>16. F = C
    BY <1>3, <1>8, <1>13, <1>15, Extensional
  <1> QED
    BY <1>1, <1>7, <1>8, <1>9, <1>10, <1>11, <1>16, FlattenConcat

LEMMA TextPlain ==
    ASSUME NEW s \in Seq(Symbols)
    PROVE  TextOf(s) = s
  <1>0. s \in Seq(Shown)
    BY SymbolsShown
  <1>1. PICK N \in Nat : N = Len(s)
    OBVIOUS
  <1>2. PICK F : F = [i \in DOMAIN s |-> IF s[i] = Image THEN <<>> ELSE <<s[i]>>]
    OBVIOUS
  <1>3. /\ F \in Seq(Seq(Symbols)) /\ Len(F) = N
        /\ \A i \in 1..N : F[i] = IF s[i] = Image THEN <<>> ELSE <<s[i]>>
        /\ TextOf(s) = FlattenSeq(F)
    BY <1>0, <1>1, <1>2, TextParts
  <1>4. \A i \in 1..N : s[i] \in Symbols /\ s[i] # Image
    <2>1. Image \notin Symbols
      BY RedactionAssumption
    <2>2. \A i \in 1..N : s[i] \in Symbols
      BY <1>1, SeqFacts
    <2> QED
      BY <2>1, <2>2
  <1>5. \A i \in 1..N : F[i] = <<s[i]>>
    BY <1>3, <1>4
  <1> QED
    BY <1>1, <1>3, <1>5, FlattenSymbols

LEMMA ImageSymbol ==
    /\ Image \in Shown /\ Image \notin Words
    /\ <<Image>> \in Seq(Shown) /\ Len(<<Image>>) = 1 /\ <<Image>>[1] = Image
  <1>1. Image \notin Symbols /\ Words \subseteq Symbols
    BY RedactionAssumption DEF Symbols
  <1>2. Image \in Shown
    BY DEF Shown
  <1> HIDE DEF Symbols, Shown
  <1> QED
    BY <1>1, <1>2

LEMMA TextImage == TextOf(<<Image>>) = <<>>
  <1>1. PICK s : s = <<Image>>
    OBVIOUS
  <1>2. s \in Seq(Shown) /\ Len(s) = 1 /\ s[1] = Image
    BY <1>1, ImageSymbol
  <1>3. PICK F : F = [i \in DOMAIN s |-> IF s[i] = Image THEN <<>> ELSE <<s[i]>>]
    OBVIOUS
  <1>4. /\ F \in Seq(Seq(Symbols)) /\ Len(F) = 1
        /\ F[1] = <<>>
        /\ TextOf(s) = FlattenSeq(F)
    <2>1. /\ F \in Seq(Seq(Symbols)) /\ Len(F) = Len(s)
          /\ \A i \in 1..Len(s) : F[i] = IF s[i] = Image THEN <<>> ELSE <<s[i]>>
          /\ TextOf(s) = FlattenSeq(F)
      BY <1>2, <1>3, TextParts
    <2>2. 1 \in 1..Len(s)
      BY <1>2
    <2> QED
      BY <1>2, <2>1, <2>2
  <1> DEFINE N == 1
  <1>5. N \in Nat /\ N = Len(F) /\ 1 \in 1..N /\ N \in 1..N
    BY <1>4
  <1> HIDE DEF N
  <1>6. PICK g : Flattens(Symbols, N, F, g)
    BY <1>4, <1>5, SeqParts, FlattensExists
  <1>7. FlattenSeq(F) = g[N]
    BY <1>4, <1>5, <1>6, FlattenIs
  <1>8. g[1] = F[1]
    BY <1>5, <1>6, FlattensFirst
  <1>9. g[N] = <<>>
    BY <1>4, <1>8 DEF N
  <1> QED
    BY <1>1, <1>4, <1>7, <1>9

(***************************************************************************)
(* The answer as it is streamed.                                           *)
(***************************************************************************)
\* Of the answer without its images, and unless an image came in the middle of a
\* word also of the answer with them, the first part is shown as it is rehydrated
\* in one piece, and the rest is kept back.
StreamInv ==
    /\ pc = "ready" => full = <<>> /\ shown = <<>> /\ buffer = <<>> /\ ~overtaken
    /\ pc # "finished" =>
          /\ Carried(mapper, Said, TextOf(shown), buffer)
          /\ ~overtaken => Carried(mapper, full, shown, buffer)
    /\ pc = "finished" =>
          /\ buffer = <<>>
          /\ Complete(mapper, Said, TextOf(shown))
          /\ ~overtaken => Complete(mapper, full, shown)

LEMMA RehydrateNothing == \A m : Rehydrate(m, <<>>) = <<>>
  BY DEF Rehydrate, FlattenSeq

LEMMA TextNothing == TextOf(<<>>) = <<>>
  BY DEF TextOf, FlattenSeq

LEMMA RehydrateTyped ==
    ASSUME NEW m \in MapperType, NEW s \in Seq(Symbols)
    PROVE  Rehydrate(m, s) \in Seq(Symbols)
  <1>1. s \in Seq(Shown)
    BY SymbolsShown
  <1>2. PICK N \in Nat : N = Len(s)
    OBVIOUS
  <1>3. PICK F : F = [i \in DOMAIN s |-> RehydratedAt(m, s, i)]
    OBVIOUS
  <1>4. ASSUME NEW i \in 1..N PROVE RehydratedAt(m, s, i) \in Seq(Symbols)
    <2>1. CASE Begins(s, i)
      <3>1. PICK j \in i..Len(s) : PlaceholderAt(s, i, j)
        BY <2>1 DEF Begins
      <3>2. RehydratedAt(m, s, i) = Original(m, SubSeq(s, i, j))
        BY <1>2, <3>1, AtPlaceholder
      <3> QED
        BY <3>2, OriginalTyped
    <2>2. CASE ~Begins(s, i)
      <3>1. RehydratedAt(m, s, i) = IF Plain(s, i) THEN <<s[i]>> ELSE <<>>
        BY <1>2, <2>2, NotBeginning
      <3>2. s[i] \in Symbols
        BY <1>2, SeqFacts
      <3>3. <<s[i]>> \in Seq(Symbols) /\ <<>> \in Seq(Symbols)
        BY <3>2
      <3> QED
        BY <3>1, <3>3
    <2> QED
      BY <2>1, <2>2
  <1>5. DOMAIN s = 1..N
    BY <1>2, SeqFacts
  <1>6. F \in Seq(Seq(Symbols))
    BY <1>3, <1>4, <1>5
  <1>7. FlattenSeq(F) \in Seq(Symbols)
    BY <1>6, FlattenTyped
  <1> QED
    BY <1>3, <1>7 DEF Rehydrate

StreamTypes ==
    /\ mapper \in MapperType
    /\ full \in Seq(Shown) /\ shown \in Seq(Shown) /\ buffer \in Seq(Symbols)

LEMMA HeldParts ==
    ASSUME NEW b \in Seq(Symbols)
    PROVE  /\ SubSeq(b, 1, Len(b) - Held(b)) \in Seq(Symbols)
           /\ SubSeq(b, Len(b) - Held(b) + 1, Len(b)) \in Seq(Symbols)
  <1>1. PICK h : h = Len(b) - Held(b)
    OBVIOUS
  <1>2. PICK N \in Nat : N = Len(b)
    OBVIOUS
  <1>3. Held(b) \in 0..N
    BY <1>2, HeldIs
  <1>4. h \in 0..N
    BY <1>1, <1>2, <1>3
  <1> DEFINE x == 1  y == h + 1
  <1>5. x \in 1..(Len(b) + 1) /\ h \in (x - 1)..Len(b) /\ y \in 1..(Len(b) + 1) /\ N \in (y - 1)..Len(b)
    BY <1>2, <1>4
  <1>6. SubSeq(b, x, h) \in Seq(Symbols) /\ SubSeq(b, y, N) \in Seq(Symbols)
    <2> HIDE DEF x, y
    <2> QED
      BY <1>5, Part
  <1> QED
    BY <1>1, <1>2, <1>6

\* The chunk c is received.
LEMMA ReceiveKeeps ==
    ASSUME StreamInv, StreamTypes, pc = "streaming",
           NEW c \in Seq(Symbols), NEW last \in BOOLEAN, Receive(c, last), full' = full \o c,
           mapper' = mapper, overtaken' = overtaken,
           pc' = IF last THEN "finished" ELSE "streaming"
    PROVE  StreamInv' /\ StreamTypes'
  <1>1. PICK b : b = buffer \o c
    OBVIOUS
  <1>2. PICK safe : safe = SubSeq(b, 1, Len(b) - Held(b))
    OBVIOUS
  <1>3. PICK rest : rest = SubSeq(b, Len(b) - Held(b) + 1, Len(b))
    OBVIOUS
  <1>4. /\ mapper \in MapperType
        /\ full \in Seq(Shown) /\ shown \in Seq(Shown) /\ buffer \in Seq(Symbols)
    BY DEF StreamTypes
  <1>5. b \in Seq(Symbols) /\ safe \in Seq(Symbols) /\ rest \in Seq(Symbols) /\ c \in Seq(Shown)
    <2>1. Join(Symbols, buffer, c, b)
      BY <1>1, <1>4, Joined
    <2>2. b \in Seq(Symbols)
      BY <2>1 DEF Join
    <2>3. safe \in Seq(Symbols) /\ rest \in Seq(Symbols)
      BY <1>2, <1>3, <2>2, HeldParts
    <2> QED
      BY <2>2, <2>3, SymbolsShown
  <1>6. PICK x : x = Rehydrate(mapper, safe)
    OBVIOUS
  <1>7. PICK y : y = Rehydrate(mapper, rest)
    OBVIOUS
  <1>8. x \in Seq(Symbols) /\ y \in Seq(Symbols) /\ x \in Seq(Shown) /\ y \in Seq(Shown)
    BY <1>4, <1>5, <1>6, <1>7, RehydrateTyped, SymbolsShown
  <1>9. PICK s : s = Said /\ s = TextOf(full)
    BY DEF Said
  <1>10. PICK o : o = TextOf(shown)
    OBVIOUS
  <1>11. s \in Seq(Symbols) /\ o \in Seq(Symbols)
    BY <1>4, <1>9, <1>10, TextParts
  <1>12. Said' = s \o c
    <2>1. TextOf(full \o c) = TextOf(full) \o TextOf(c)
      BY <1>4, <1>5, TextConcat
    <2>2. TextOf(c) = c
      BY TextPlain
    <2> QED
      BY <1>9, <2>1, <2>2 DEF Said
  <1>13. PICK p : p = shown \o x
    OBVIOUS
  <1>14. p \in Seq(Shown) /\ TextOf(p) = o \o x
    <2>1. Join(Shown, shown, x, p)
      BY <1>4, <1>8, <1>13, Joined
    <2>2. TextOf(shown \o x) = TextOf(shown) \o TextOf(x)
      BY <1>4, <1>8, TextConcat
    <2>3. TextOf(x) = x
      BY <1>8, TextPlain
    <2> QED
      BY <1>10, <1>13, <2>1, <2>2, <2>3 DEF Join
  <1>15. p \o y \in Seq(Shown) /\ TextOf(p \o y) = (o \o x) \o y
    <2>1. Join(Shown, p, y, p \o y)
      BY <1>8, <1>14, Joined
    <2>2. TextOf(p \o y) = TextOf(p) \o TextOf(y)
      BY <1>8, <1>14, TextConcat
    <2>3. TextOf(y) = y
      BY <1>8, TextPlain
    <2> QED
      BY <1>14, <2>1, <2>2, <2>3 DEF Join
  <1>16. /\ Carried(mapper, s, o, buffer)
         /\ ~overtaken => Carried(mapper, full, shown, buffer)
    BY <1>9, <1>10 DEF StreamInv
  <1>17. Carried(mapper, s \o c, o \o x, rest)
    BY <1>1, <1>2, <1>3, <1>4, <1>5, <1>6, <1>16, ReceiveCarries
  <1>18. ~overtaken => Carried(mapper, full \o c, shown \o x, rest)
    BY <1>1, <1>2, <1>3, <1>4, <1>5, <1>6, <1>16, ReceiveCarries
  <1>19. full' \in Seq(Shown)
    <2>1. Join(Shown, full, c, full \o c)
      BY <1>4, <1>5, Joined
    <2> QED
      BY <2>1 DEF Join
  <1>20. CASE last
    <2>1. shown' = p \o y /\ buffer' = <<>>
      BY <1>1, <1>2, <1>3, <1>6, <1>7, <1>13, <1>20 DEF Receive
    <2>2. Complete(mapper, s \o c, (o \o x) \o y)
      BY <1>4, <1>7, <1>17, CarriedComplete
    <2>3. ~overtaken => Complete(mapper, full \o c, p \o y)
      BY <1>4, <1>7, <1>13, <1>18, CarriedComplete
    <2>4. pc' = "finished" /\ <<>> \in Seq(Symbols)
      BY <1>20
    <2>5. StreamTypes'
      BY <1>4, <1>15, <1>19, <2>1, <2>4 DEF StreamTypes
    <2>6. StreamInv'
      <3>1. Complete(mapper, Said', TextOf(shown'))
        BY <1>12, <1>15, <2>1, <2>2
      <3>2. ~overtaken' => Complete(mapper, full', shown')
        BY <2>1, <2>3
      <3> QED
        BY <2>1, <2>4, <3>1, <3>2 DEF StreamInv, Said
    <2> QED
      BY <2>5, <2>6
  <1>21. CASE ~last
    <2>1. shown' = p /\ buffer' = rest
      BY <1>1, <1>2, <1>3, <1>6, <1>13, <1>21 DEF Receive
    <2>2. pc' = "streaming"
      BY <1>21
    <2>3. StreamTypes'
      BY <1>4, <1>5, <1>14, <1>19, <2>1 DEF StreamTypes
    <2>4. StreamInv'
      <3>1. Carried(mapper, Said', TextOf(shown'), rest)
        BY <1>12, <1>14, <1>17, <2>1
      <3>2. ~overtaken' => Carried(mapper, full', shown', rest)
        BY <1>13, <1>18, <2>1
      <3> QED
        BY <2>1, <2>2, <3>1, <3>2 DEF StreamInv, Said
    <2> QED
      BY <2>3, <2>4
  <1> QED
    BY <1>20, <1>21

\* An image is no part of a word.
LEMMA RehydrateImage ==
    ASSUME NEW m \in MapperType
    PROVE  Rehydrate(m, <<Image>>) = <<Image>>
  <1>1. PICK s : s = <<Image>>
    OBVIOUS
  <1>2. s \in Seq(Shown) /\ Len(s) = 1 /\ s[1] = Image /\ Image \notin Words
    BY <1>1, ImageSymbol
  <1>3. PICK F : F = [i \in DOMAIN s |-> RehydratedAt(m, s, i)]
    OBVIOUS
  <1>4. /\ F \in Seq(Seq(Shown)) /\ Len(F) = 1
        /\ F[1] = RehydratedAt(m, s, 1)
        /\ Rehydrate(m, s) = FlattenSeq(F)
    <2>0. PICK T : T = Seq(Shown)
      OBVIOUS
    <2>1. /\ F \in Seq(T) /\ Len(F) = Len(s)
          /\ \A i \in 1..Len(s) : F[i] = RehydratedAt(m, s, i)
          /\ Rehydrate(m, s) = FlattenSeq(F)
      <3>1. s \in Seq(Shown)
        BY <1>2
      <3> QED
        BY <1>3, <2>0, <3>1, RehydrateParts
    <2>2. 1 \in 1..Len(s)
      BY <1>2
    <2> QED
      BY <1>2, <2>0, <2>1, <2>2
  <1>5. RehydratedAt(m, s, 1) = <<Image>>
    <2> DEFINE i == 1
    <2>1. i \in 1..Len(s) /\ \A h \in 1..i : h = 1
      BY <1>2
    <2>2. \A h \in 1..i, j \in i..Len(s) : ~PlaceholderAt(s, h, j)
      BY <1>2, <2>1 DEF PlaceholderAt, IsWord, WordStarts
    <2>3. Plain(s, i) /\ ~Begins(s, i)
      BY <2>1, <2>2 DEF Plain, Begins
    <2>4. RehydratedAt(m, s, i) = IF Plain(s, i) THEN <<s[i]>> ELSE <<>>
      <3> HIDE DEF i
      <3> QED
        BY <1>2, <2>1, <2>3, NotBeginning
    <2> QED
      BY <1>2, <2>3, <2>4
  <1> DEFINE N == 1
  <1>6. N \in Nat /\ N = Len(F) /\ 1 \in 1..N
    BY <1>4
  <1> HIDE DEF N
  <1>7. PICK g : Flattens(Shown, N, F, g)
    BY <1>4, <1>6, SeqParts, FlattensExists
  <1>8. FlattenSeq(F) = g[N]
    BY <1>4, <1>6, <1>7, FlattenIs
  <1>9. g[1] = F[1]
    BY <1>6, <1>7, FlattensFirst
  <1>10. g[N] = F[1]
    BY <1>9 DEF N
  <1> QED
    BY <1>1, <1>4, <1>5, <1>8, <1>10

LEMMA ImageCarried ==
    ASSUME NEW m \in MapperType, NEW s, NEW out, Carried(m, s, out, <<>>)
    PROVE  Carried(m, s \o <<Image>>, out \o <<Image>>, <<>>)
  <1>1. PICK n \in Nat, a \in Seq(Shown) :
            /\ Cut(Shown, s, n, a, <<>>)
            /\ Clean(s, n)
            /\ WordsWhole(s) => out = Rehydrate(m, a)
    BY DEF Carried
  <1>2. s \in Seq(Shown) /\ Len(s) = n
    <2>1. s \in Seq(Shown) /\ Len(s) \in Nat /\ Len(<<>>) = Len(s) - n
      BY <1>1, CutTypes DEF Cut
    <2>2. Len(<<>>) = 0
      OBVIOUS
    <2> QED
      BY <2>1, <2>2
  <1>3. a = s
    <2>1. Len(a) = n /\ \A k \in 1..n : a[k] = s[k]
      BY <1>1 DEF Cut
    <2> QED
      BY <1>2, <2>1, Extensional
  <1>4. PICK l : l = <<Image>>
    OBVIOUS
  <1>5. l \in Seq(Shown) /\ Len(l) = 1 /\ l[1] = Image /\ Image \notin Words
    BY <1>4, ImageSymbol
  <1>6. PICK t : t = s \o l
    OBVIOUS
  <1>7. /\ t \in Seq(Shown) /\ Len(t) = n + 1
        /\ \A k \in 1..n : t[k] = s[k]
        /\ t[n + 1] = Image
    <2>1. Join(Shown, s, l, t)
      BY <1>2, <1>5, <1>6, Joined
    <2>2. /\ t \in Seq(Shown) /\ Len(t) = Len(s) + Len(l)
          /\ \A k \in 1..Len(s) : t[k] = s[k]
          /\ \A k \in 1..Len(l) : t[Len(s) + k] = l[k]
      BY <2>1 DEF Join
    <2>3. 1 \in 1..Len(l)
      BY <1>5
    <2> QED
      BY <1>2, <1>5, <2>2, <2>3
  <1>8. Cut(Shown, t, n, s, l)
    <2>1. n \in 0..(n + 1) /\ 1 = (n + 1) - n /\ 1 + n = n + 1 /\ \A k \in 1..1 : k = 1
      OBVIOUS
    <2> QED
      BY <1>2, <1>5, <1>7, <2>1 DEF Cut
  <1> DEFINE N == n + 1
  <1>9. Cut(Shown, t, N, t, <<>>)
    <2>1. /\ N \in 0..Len(t) /\ Len(t) = N /\ <<>> \in Seq(Shown)
          /\ Len(<<>>) = Len(t) - N /\ \A k \in 1..Len(<<>>) : FALSE
      BY <1>7
    <2> HIDE DEF N
    <2> QED
      BY <1>7, <2>1 DEF Cut
  <1>10. Clean(t, N)
    <2>1. \A i \in 1..N : N \in i..N
      OBVIOUS
    <2>2. t[N] \notin Words
      BY <1>5, <1>7
    <2> HIDE DEF N
    <2> QED
      BY <2>1, <2>2 DEF Clean
  <1>11. ASSUME WordsWhole(t) PROVE out \o l = Rehydrate(m, t)
    <2>1. WordsWhole(s)
      BY <1>8, <1>11, PrefixWhole
    <2>2. Clean(t, n)
      BY <1>1, <1>7, CleanSame
    <2>3. CleanCut(Shown, t, n, s, l)
      BY <1>8, <1>11, <2>2 DEF CleanCut
    <2>4. Rehydrate(m, t) = Rehydrate(m, s) \o Rehydrate(m, l)
      BY <2>3, RehydrateSplit
    <2>5. Rehydrate(m, l) = l
      BY <1>4, RehydrateImage
    <2> QED
      BY <1>1, <1>3, <2>1, <2>4, <2>5
  <1>12. N \in Nat
    OBVIOUS
  <1> HIDE DEF N
  <1>13. Carried(m, t, out \o l, <<>>)
    BY <1>7, <1>9, <1>10, <1>11, <1>12 DEF Carried
  <1> QED
    BY <1>4, <1>6, <1>13

LEMMA AppendIs ==
    ASSUME NEW S, NEW s \in Seq(S), NEW x \in S
    PROVE  Append(s, x) = s \o <<x>> /\ Append(s, x) \in Seq(S)
  OBVIOUS

LEMMA ImageKeeps ==
    ASSUME StreamInv, StreamTypes, pc = "streaming", ImageChunk
    PROVE  StreamInv' /\ StreamTypes'
  <1>1. /\ mapper \in MapperType
        /\ full \in Seq(Shown) /\ shown \in Seq(Shown) /\ buffer \in Seq(Symbols)
    BY DEF StreamTypes
  <1>2. /\ full' = Append(full, Image) /\ shown' = Append(shown, Image)
        /\ overtaken' = (overtaken \/ buffer # <<>>)
        /\ pc' = pc /\ mapper' = mapper /\ buffer' = buffer
    BY DEF ImageChunk, request
  <1>3. /\ full' = full \o <<Image>> /\ full' \in Seq(Shown)
        /\ shown' = shown \o <<Image>> /\ shown' \in Seq(Shown)
    BY <1>1, <1>2, AppendIs, ImageSymbol
  <1>4. \A s \in Seq(Shown) : TextOf(s \o <<Image>>) = TextOf(s)
    <2> TAKE s \in Seq(Shown)
    <2>1. TextOf(s \o <<Image>>) = TextOf(s) \o TextOf(<<Image>>)
      BY ImageSymbol, TextConcat
    <2>2. TextOf(s) \in Seq(Symbols)
      BY TextParts
    <2>3. TextOf(s) \o <<>> = TextOf(s)
      BY <2>2, EmptyNeutral
    <2> QED
      BY <2>1, <2>3, TextImage
  <1>5. Said' = Said /\ TextOf(shown') = TextOf(shown)
    BY <1>1, <1>3, <1>4 DEF Said
  <1>6. /\ Carried(mapper, Said, TextOf(shown), buffer)
        /\ ~overtaken => Carried(mapper, full, shown, buffer)
    BY DEF StreamInv
  <1>7. ASSUME ~overtaken' PROVE Carried(mapper, full', shown', buffer)
    <2>1. ~overtaken /\ buffer = <<>>
      BY <1>2, <1>7
    <2> QED
      BY <1>1, <1>3, <1>6, <2>1, ImageCarried
  <1>8. StreamTypes'
    BY <1>1, <1>2, <1>3 DEF StreamTypes
  <1>9. StreamInv'
    BY <1>2, <1>5, <1>6, <1>7 DEF StreamInv, Said
  <1> QED
    BY <1>8, <1>9

\* What is kept back may become a placeholder.
\* What is kept back is nothing or may become a placeholder, but for a newline.
KeptBack(b) ==
    \/ b = <<>>
    \/ NotYetPlaceholder(b)
    \/ b[Len(b)] = Newline /\ NotYetPlaceholder(SubSeq(b, 1, Len(b) - 1))

LEMMA WithoutLast ==
    ASSUME NEW S, NEW s \in Seq(S), NEW N, N = Len(s), NEW i \in 1..N, i < N,
           NEW u, u = SubSeq(s, i, N)
    PROVE  u[Len(u)] = s[N] /\ SubSeq(u, 1, Len(u) - 1) = SubSeq(s, i, N - 1)
  <1>1. N \in Nat /\ i \in Nat
    BY SeqFacts
  <1>2. /\ u \in Seq(S) /\ Len(u) = N - i + 1
        /\ \A k \in 1..(N - i + 1) : u[k] = s[k + (i - 1)]
    BY Part
  <1>3. N - i \in Nat
    BY <1>1
  <1>4. PICK M \in Nat : M = N - i
    BY <1>3
  <1>5. Len(u) = M + 1 /\ u[M + 1] = s[N]
    <2>1. M + 1 \in 1..(N - i + 1) /\ (M + 1) + (i - 1) = N /\ N - i + 1 = M + 1
      BY <1>1, <1>4
    <2> QED
      BY <1>2, <2>1
  <1>6. PICK v : v = SubSeq(u, 1, M)
    OBVIOUS
  <1>7. PICK w : w = SubSeq(s, i, N - 1)
    OBVIOUS
  <1>8. v \in Seq(S) /\ Len(v) = M /\ \A k \in 1..M : v[k] = u[k]
    <2>1. PICK x \in Nat : x = 1
      OBVIOUS
    <2>2. x \in 1..(Len(u) + 1) /\ M \in (x - 1)..Len(u)
      BY <1>4, <1>5, <2>1
    <2>3. /\ SubSeq(u, x, M) \in Seq(S) /\ Len(SubSeq(u, x, M)) = M - x + 1
          /\ \A k \in 1..(M - x + 1) : SubSeq(u, x, M)[k] = u[k + (x - 1)]
      BY <1>2, <2>2, Part
    <2>4. M - x + 1 = M /\ \A k \in 1..M : k + (x - 1) = k
      BY <2>1
    <2> QED
      BY <1>6, <2>1, <2>3, <2>4
  <1>9. w \in Seq(S) /\ Len(w) = M /\ \A k \in 1..M : w[k] = s[k + (i - 1)]
    <2>1. PICK x : x = N - 1
      OBVIOUS
    <2>2. i \in 1..(Len(s) + 1) /\ x \in (i - 1)..Len(s) /\ x - i + 1 = M
      BY <1>1, <1>4, <2>1
    <2>3. /\ SubSeq(s, i, x) \in Seq(S) /\ Len(SubSeq(s, i, x)) = x - i + 1
          /\ \A k \in 1..(x - i + 1) : SubSeq(s, i, x)[k] = s[k + (i - 1)]
      BY <2>2, Part
    <2> QED
      BY <1>7, <2>1, <2>2, <2>3
  <1>10. \A k \in 1..M : v[k] = w[k]
    <2>1. \A k \in 1..M : k \in 1..(N - i + 1)
      BY <1>1, <1>4
    <2> QED
      BY <1>2, <1>8, <1>9, <2>1
  <1>11. v = w
    BY <1>8, <1>9, <1>10, Extensional
  <1>12. (M + 1) - 1 = M
    OBVIOUS
  <1> QED
    BY <1>5, <1>6, <1>7, <1>11, <1>12

LEMMA RestKept ==
    ASSUME NEW b \in Seq(Symbols), NEW rest,
           rest = SubSeq(b, Len(b) - Held(b) + 1, Len(b))
    PROVE  KeptBack(rest)
  <1>1. PICK N \in Nat : N = Len(b)
    BY SeqFacts
  <1>2. Held(b) # 0 => \E i, e : Held(b) = N + 1 - i /\ KeptFrom(b, i, e)
    BY <1>1, HeldIs
  <1>3. CASE Held(b) = 0
    <2> DEFINE x == N + 1
    <2>1. x \in 1..(Len(b) + 1) /\ N \in (x - 1)..Len(b) /\ rest = SubSeq(b, x, N)
      BY <1>1, <1>3
    <2>2. SubSeq(b, x, N) \in Seq(Symbols) /\ Len(SubSeq(b, x, N)) = N - x + 1
      <3> HIDE DEF x
      <3> QED
        BY <2>1, Part
    <2>3. N - x + 1 = 0
      OBVIOUS
    <2> HIDE DEF x
    <2>4. rest = <<>>
      BY <2>1, <2>2, <2>3, NoLength
    <2> QED
      BY <2>4 DEF KeptBack
  <1>4. CASE Held(b) # 0
    <2>1. PICK i, e : Held(b) = N + 1 - i /\ KeptFrom(b, i, e)
      BY <1>2, <1>4
    <2>2. /\ i \in 1..N /\ e \in i..N /\ Partial(b, i, e)
          /\ e = N \/ (e = N - 1 /\ b[N] = Newline)
      BY <1>1, <2>1 DEF KeptFrom
    <2>3. rest = SubSeq(b, i, N)
      <3>1. N - Held(b) + 1 = i
        BY <1>1, <2>1, <2>2
      <3> QED
        BY <1>1, <3>1
    <2>4. NotYetPlaceholder(SubSeq(b, i, e))
      BY <1>1, <2>2, NotYetIn
    <2>5. CASE e = N
      BY <2>3, <2>4, <2>5 DEF KeptBack
    <2>6. CASE e = N - 1 /\ b[N] = Newline
      <3>1. i < N
        BY <2>2, <2>6
      <3>2. rest[Len(rest)] = b[N] /\ SubSeq(rest, 1, Len(rest) - 1) = SubSeq(b, i, N - 1)
        BY <1>1, <2>2, <2>3, <3>1, WithoutLast
      <3> QED
        BY <2>4, <2>6, <3>2 DEF KeptBack
    <2> QED
      BY <2>2, <2>5, <2>6
  <1> QED
    BY <1>3, <1>4

(***************************************************************************)
(* Findings in order.                                                      *)
(***************************************************************************)
StrictOrder(S, before) ==
    /\ \A i \in S : <<i, i>> \notin before
    /\ \A i, j \in S : i # j => <<i, j>> \in before \/ <<j, i>> \in before
    /\ \A i, j, k \in S : <<i, j>> \in before /\ <<j, k>> \in before => <<i, k>> \in before

IsLast(U, before, m) == m \in U /\ \A x \in U : x # m => <<x, m>> \in before

LEMMA Removed ==
    ASSUME NEW S, IsFiniteSet(S), NEW n \in Nat, NEW U \in SUBSET S, Cardinality(U) = n, NEW x \in U
    PROVE  n - 1 \in Nat /\ U \ {x} \in SUBSET S /\ Cardinality(U \ {x}) = n - 1
  <1>1. IsFiniteSet(U)
    BY FS_Subset
  <1>2. Cardinality(U \ {x}) = Cardinality(U) - 1 /\ IsFiniteSet(U \ {x})
    BY <1>1, FS_RemoveElement
  <1>3. Cardinality(U \ {x}) \in Nat
    BY <1>2, FS_CardinalityType
  <1> QED
    BY <1>2, <1>3

LEMMA EmptyCount ==
    ASSUME NEW S, IsFiniteSet(S), NEW U \in SUBSET S
    PROVE  /\ Cardinality(U) = 0 <=> U = {}
           /\ Cardinality(U) \in 0..Cardinality(S)
  <1>1. IsFiniteSet(U) /\ Cardinality(U) <= Cardinality(S)
    BY FS_Subset
  <1> QED
    BY <1>1, FS_EmptySet, FS_CardinalityType

LEMMA HasLast ==
    ASSUME NEW S, NEW before, IsFiniteSet(S), StrictOrder(S, before), NEW U \in SUBSET S, U # {}
    PROVE  \E m : IsLast(U, before, m)
  <1> DEFINE T == {n \in Nat : \A V \in SUBSET S :
                      Cardinality(V) = n /\ V # {} => \E m : IsLast(V, before, m)}
  <1>1. 0 \in T
    BY EmptyCount
  <1>2. ASSUME NEW n \in Nat, n \in T PROVE n + 1 \in T
    <2>1. SUFFICES ASSUME NEW V \in SUBSET S, Cardinality(V) = n + 1, V # {}
                   PROVE  \E m : IsLast(V, before, m)
      OBVIOUS
    <2>2. PICK x : x \in V
      BY <2>1
    <2>3. V \ {x} \in SUBSET S /\ Cardinality(V \ {x}) = n
      <3>1. n + 1 \in Nat /\ (n + 1) - 1 = n
        OBVIOUS
      <3> QED
        BY <2>1, <2>2, <3>1, Removed
    <2>4. CASE V \ {x} = {}
      <3>1. IsLast(V, before, x)
        BY <2>2, <2>4 DEF IsLast
      <3> QED
        BY <3>1
    <2>5. CASE V \ {x} # {}
      <3>1. PICK m : IsLast(V \ {x}, before, m)
        BY <1>2, <2>3, <2>5
      <3>2. m \in V /\ m # x /\ m \in S /\ x \in S /\ \A y \in V : y \in S
        BY <2>2, <3>1 DEF IsLast
      <3>3. CASE <<x, m>> \in before
        <4>1. IsLast(V, before, m)
          BY <3>1, <3>2, <3>3 DEF IsLast
        <4> QED
          BY <4>1
      <3>4. CASE <<m, x>> \in before
        <4>1. \A y \in V : y # x => <<y, x>> \in before
          <5> TAKE y \in V
          <5>1. CASE y = m
            BY <3>4, <5>1
          <5>2. CASE y # m /\ y # x
            <6>1. <<y, m>> \in before
              BY <3>1, <5>2 DEF IsLast
            <6> QED
              BY <3>2, <3>4, <6>1 DEF StrictOrder
          <5> QED
            BY <5>1, <5>2
        <4>2. IsLast(V, before, x)
          BY <2>2, <4>1 DEF IsLast
        <4> QED
          BY <4>2
      <3> QED
        BY <3>2, <3>3, <3>4 DEF StrictOrder
    <2> QED
      BY <2>4, <2>5
  <1> HIDE DEF T
  <1>3. Nat \subseteq T
    BY <1>1, <1>2, NatInduced
  <1>4. Cardinality(U) \in T
    BY <1>3, FS_Subset, FS_CardinalityType
  <1> QED
    BY <1>4 DEF T

IsKept(f, U, before, K) ==
    /\ K \in SUBSET U
    /\ \A i \in U : i \in K <=> ~\E k \in K : <<k, i>> \in before /\ Overlap(f[k], f[i])

LEMMA KeptIs ==
    ASSUME NEW S, NEW before, NEW f, IsFiniteSet(S), StrictOrder(S, before)
    PROVE  IsKept(f, S, before, Kept(f, S, before))
  <1> DEFINE T == {n \in Nat : \A V \in SUBSET S :
                      Cardinality(V) = n => \E K : IsKept(f, V, before, K)}
  <1>1. 0 \in T
    <2>1. IsKept(f, {}, before, {})
      BY DEF IsKept
    <2> QED
      BY <2>1, EmptyCount
  <1>2. ASSUME NEW n \in Nat, n \in T PROVE n + 1 \in T
    <2>1. SUFFICES ASSUME NEW V \in SUBSET S, Cardinality(V) = n + 1
                   PROVE  \E K : IsKept(f, V, before, K)
      OBVIOUS
    <2>2. V # {}
      BY <2>1, EmptyCount
    <2>3. PICK m : IsLast(V, before, m)
      BY <2>2, HasLast
    <2>4. m \in V /\ \A x \in V : x \in S
      BY <2>3 DEF IsLast
    <2>5. V \ {m} \in SUBSET S /\ Cardinality(V \ {m}) = n
      <3>1. n + 1 \in Nat /\ (n + 1) - 1 = n
        OBVIOUS
      <3> QED
        BY <2>1, <2>4, <3>1, Removed
    <2>6. PICK K : IsKept(f, V \ {m}, before, K)
      BY <1>2, <2>5
    <2>7. \A x \in V : <<m, x>> \notin before
      BY <2>3, <2>4 DEF IsLast, StrictOrder
    <2>8. CASE \E k \in K : <<k, m>> \in before /\ Overlap(f[k], f[m])
      <3>1. IsKept(f, V, before, K)
        BY <2>6, <2>8 DEF IsKept
      <3> QED
        BY <3>1
    <2>9. CASE ~\E k \in K : <<k, m>> \in before /\ Overlap(f[k], f[m])
      <3>1. IsKept(f, V, before, K \cup {m})
        BY <2>4, <2>6, <2>7, <2>9 DEF IsKept
      <3> QED
        BY <3>1
    <2> QED
      BY <2>8, <2>9
  <1> HIDE DEF T
  <1>3. Nat \subseteq T
    BY <1>1, <1>2, NatInduced
  <1>4. \E K : IsKept(f, S, before, K)
    <2>1. Cardinality(S) \in T /\ S \in SUBSET S
      BY <1>3, FS_CardinalityType
    <2> QED
      BY <2>1 DEF T
  <1>5. \E K \in SUBSET S :
            \A i \in S : i \in K <=> ~\E k \in K : <<k, i>> \in before /\ Overlap(f[k], f[i])
    BY <1>4 DEF IsKept
  <1> QED
    BY <1>5, Zenon DEF Kept, IsKept

Sorts(U, before, n, s) ==
    /\ s \in [1..n -> U]
    /\ \A x \in U : \E i \in 1..n : s[i] = x
    /\ \A i, j \in 1..n : i < j => <<s[i], s[j]>> \in before

LEMMA SortedIs ==
    ASSUME NEW S, NEW before, IsFiniteSet(S), StrictOrder(S, before)
    PROVE  Sorts(S, before, Cardinality(S), Sorted(S, before))
  <1> DEFINE T == {n \in Nat : \A V \in SUBSET S :
                      Cardinality(V) = n => \E s : Sorts(V, before, n, s)}
  <1>1. 0 \in T
    <2>1. \A s \in [1..0 -> {}] : Sorts({}, before, 0, s)
      BY DEF Sorts
    <2>2. [i \in 1..0 |-> i] \in [1..0 -> {}]
      OBVIOUS
    <2>3. \E s : Sorts({}, before, 0, s)
      BY <2>1, <2>2
    <2>4. \A V \in SUBSET S : Cardinality(V) = 0 => V = {}
      BY EmptyCount
    <2> QED
      BY <2>3, <2>4
  <1>2. ASSUME NEW n \in Nat, n \in T PROVE n + 1 \in T
    <2>1. SUFFICES ASSUME NEW V \in SUBSET S, Cardinality(V) = n + 1
                   PROVE  \E s : Sorts(V, before, n + 1, s)
      OBVIOUS
    <2>2. V # {}
      BY <2>1, EmptyCount
    <2>3. PICK m : IsLast(V, before, m)
      BY <2>2, HasLast
    <2>4. m \in V /\ \A x \in V : x # m => <<x, m>> \in before
      BY <2>3 DEF IsLast
    <2>5. V \ {m} \in SUBSET S /\ Cardinality(V \ {m}) = n
      <3>1. n + 1 \in Nat /\ (n + 1) - 1 = n
        OBVIOUS
      <3> QED
        BY <2>1, <2>4, <3>1, Removed
    <2>6. PICK s : Sorts(V \ {m}, before, n, s)
      BY <1>2, <2>5
    <2>7. /\ s \in [1..n -> V \ {m}]
          /\ \A x \in V \ {m} : \E i \in 1..n : s[i] = x
          /\ \A i, j \in 1..n : i < j => <<s[i], s[j]>> \in before
      BY <2>6 DEF Sorts
    <2> DEFINE t == [i \in 1..(n + 1) |-> IF i = n + 1 THEN m ELSE s[i]]
    <2>8. \A i \in 1..(n + 1) : i = n + 1 \/ i \in 1..n
      OBVIOUS
    <2>9. /\ \A i \in 1..n : i \in 1..(n + 1) /\ i # n + 1
          /\ n + 1 \in 1..(n + 1)
      OBVIOUS
    <2>10. \A i \in 1..n : s[i] \in V /\ s[i] # m
      BY <2>7
    <2>11. t \in [1..(n + 1) -> V]
      BY <2>4, <2>8, <2>10
    <2>12. t[n + 1] = m /\ \A i \in 1..n : t[i] = s[i]
      BY <2>9
    <2> HIDE DEF t
    <2>13. \A x \in V : \E i \in 1..(n + 1) : t[i] = x
      <3> TAKE x \in V
      <3>1. CASE x = m
        BY <2>9, <2>12, <3>1
      <3>2. CASE x # m
        <4>1. PICK i \in 1..n : s[i] = x
          BY <2>7, <3>2
        <4> QED
          BY <2>9, <2>12, <4>1
      <3> QED
        BY <3>1, <3>2
    <2>14. ASSUME NEW i \in 1..(n + 1), NEW j \in 1..(n + 1), i < j PROVE <<t[i], t[j]>> \in before
      <3>1. i \in 1..n
        BY <2>14
      <3>2. CASE j = n + 1
        BY <2>4, <2>10, <2>12, <3>1, <3>2
      <3>3. CASE j \in 1..n
        BY <2>7, <2>12, <2>14, <3>1, <3>3
      <3> QED
        BY <2>8, <3>2, <3>3
    <2>15. Sorts(V, before, n + 1, t)
      BY <2>11, <2>13, <2>14 DEF Sorts
    <2> QED
      BY <2>15
  <1> HIDE DEF T
  <1>3. Nat \subseteq T
    BY <1>1, <1>2, NatInduced
  <1>4. PICK N : N = Cardinality(S)
    OBVIOUS
  <1>5. \E s : Sorts(S, before, N, s)
    <2>1. Cardinality(S) \in T /\ S \in SUBSET S
      BY <1>3, FS_CardinalityType
    <2> QED
      BY <1>4, <2>1 DEF T
  <1>6. \A s \in [1..N -> S] :
            Sorts(S, before, N, s) <=>
              /\ Range(s) = S
              /\ \A i, j \in DOMAIN s : i < j => <<s[i], s[j]>> \in before
    <2> TAKE s \in [1..N -> S]
    <2>1. DOMAIN s = 1..N /\ \A i \in 1..N : s[i] \in S
      OBVIOUS
    <2>2. Range(s) = S <=> \A x \in S : \E i \in 1..N : s[i] = x
      BY <2>1 DEF Range
    <2> QED
      BY <2>1, <2>2 DEF Sorts
  <1>7. \E s \in [1..N -> S] :
            /\ Range(s) = S
            /\ \A i, j \in DOMAIN s : i < j => <<s[i], s[j]>> \in before
    <2>1. PICK s : Sorts(S, before, N, s)
      BY <1>5
    <2>2. s \in [1..N -> S]
      BY <2>1 DEF Sorts
    <2> QED
      BY <1>6, <2>1, <2>2
  <1>8. PICK s : s = Sorted(S, before)
    OBVIOUS
  <1>9. /\ s \in [1..N -> S]
        /\ Range(s) = S
        /\ \A i, j \in DOMAIN s : i < j => <<s[i], s[j]>> \in before
    BY <1>4, <1>7, <1>8, Zenon DEF Sorted
  <1>10. Sorts(S, before, N, s)
    BY <1>6, <1>9
  <1> QED
    BY <1>4, <1>8, <1>10

Findings(f) == f \in Seq(Detection)

LEMMA FindingIs ==
    ASSUME NEW f, Findings(f), NEW i \in DOMAIN f
    PROVE  /\ f[i] \in Detection /\ i \in Nat
           /\ f[i].detector \in Detectors /\ f[i].type \in Types /\ f[i].value \in Seq(Symbols)
           /\ f[i].start \in Nat /\ f[i].end \in Nat /\ f[i].confidence \in Nat
           /\ Length(f[i]) \in Int /\ Priority[f[i].detector] \in 0..2
  <1>1. f[i] \in Detection /\ i \in Nat
    BY DEF Findings
  <1>2. /\ f[i].detector \in Detectors /\ f[i].type \in Types /\ f[i].value \in Seq(Symbols)
        /\ f[i].start \in Nat /\ f[i].end \in Nat /\ f[i].confidence \in Nat
    BY <1>1 DEF Detection
  <1>3. Length(f[i]) \in Int
    BY <1>2 DEF Length
  <1>4. Priority[f[i].detector] \in 0..2
    BY <1>2 DEF Priority, Detectors
  <1> QED
    BY <1>1, <1>2, <1>3, <1>4

LEMMA FindingsFinite ==
    ASSUME NEW f, Findings(f), NEW S \in SUBSET (DOMAIN f)
    PROVE  IsFiniteSet(S)
  <1>1. DOMAIN f = 1..Len(f) /\ Len(f) \in Int /\ 1 \in Int
    BY DEF Findings
  <1>2. IsFiniteSet(DOMAIN f)
    BY <1>1, FS_Interval
  <1> QED
    BY <1>2, FS_Subset

LEMMA LongerIs ==
    ASSUME NEW f, Findings(f), NEW i \in DOMAIN f, NEW j \in DOMAIN f
    PROVE  <<i, j>> \in LongerFirst(f) <=>
              \/ Length(f[i]) > Length(f[j])
              \/ Length(f[i]) = Length(f[j]) /\ f[i].confidence > f[j].confidence
              \/ Length(f[i]) = Length(f[j]) /\ f[i].confidence = f[j].confidence /\ i < j
  BY Zenon DEF LongerFirst

LEMMA PriorityIs ==
    ASSUME NEW f, Findings(f), NEW i \in DOMAIN f, NEW j \in DOMAIN f
    PROVE  <<i, j>> \in PriorityFirst(f) <=>
              \/ Priority[f[i].detector] < Priority[f[j].detector]
              \/ Priority[f[i].detector] = Priority[f[j].detector] /\ <<i, j>> \in LongerFirst(f)
  BY Zenon DEF PriorityFirst

LEMMA PositionIs ==
    ASSUME NEW f, Findings(f), NEW i \in DOMAIN f, NEW j \in DOMAIN f
    PROVE  <<i, j>> \in ByPosition(f) <=>
              \/ f[i].start < f[j].start
              \/ f[i].start = f[j].start /\ <<i, j>> \in PriorityFirst(f)
  BY Zenon DEF ByPosition

LEMMA FromTheEndIs ==
    ASSUME NEW f, Findings(f), NEW i \in DOMAIN f, NEW j \in DOMAIN f
    PROVE  <<i, j>> \in FromTheEnd(f) <=>
              \/ f[i].start > f[j].start
              \/ f[i].start = f[j].start /\ i < j
  BY Zenon DEF FromTheEnd

LEMMA LongerOrder ==
    ASSUME NEW f, Findings(f)
    PROVE  StrictOrder(DOMAIN f, LongerFirst(f))
  <1>1. \A i \in DOMAIN f : Length(f[i]) \in Int /\ f[i].confidence \in Int /\ i \in Int
    BY FindingIs
  <1>2. \A i, j \in DOMAIN f :
           <<i, j>> \in LongerFirst(f) <=>
              \/ Length(f[i]) > Length(f[j])
              \/ Length(f[i]) = Length(f[j]) /\ f[i].confidence > f[j].confidence
              \/ Length(f[i]) = Length(f[j]) /\ f[i].confidence = f[j].confidence /\ i < j
    BY LongerIs
  <1>3. \A i \in DOMAIN f : <<i, i>> \notin LongerFirst(f)
    BY <1>1, <1>2
  <1>4. \A i, j \in DOMAIN f :
            i # j => <<i, j>> \in LongerFirst(f) \/ <<j, i>> \in LongerFirst(f)
    BY <1>1, <1>2
  <1>5. \A i, j, k \in DOMAIN f :
            <<i, j>> \in LongerFirst(f) /\ <<j, k>> \in LongerFirst(f) => <<i, k>> \in LongerFirst(f)
    BY <1>1, <1>2
  <1> QED
    BY <1>3, <1>4, <1>5 DEF StrictOrder

LEMMA PriorityOrder ==
    ASSUME NEW f, Findings(f)
    PROVE  StrictOrder(DOMAIN f, PriorityFirst(f))
  <1>1. \A i \in DOMAIN f : Priority[f[i].detector] \in Int
    BY FindingIs
  <1>2. \A i, j \in DOMAIN f :
           <<i, j>> \in PriorityFirst(f) <=>
              \/ Priority[f[i].detector] < Priority[f[j].detector]
              \/ Priority[f[i].detector] = Priority[f[j].detector] /\ <<i, j>> \in LongerFirst(f)
    BY PriorityIs
  <1>0. StrictOrder(DOMAIN f, LongerFirst(f))
    BY LongerOrder
  <1>3. \A i \in DOMAIN f : <<i, i>> \notin PriorityFirst(f)
    <2> TAKE i \in DOMAIN f
    <2>1. <<i, i>> \notin LongerFirst(f)
      BY <1>0 DEF StrictOrder
    <2>2. Priority[f[i].detector] \in Int
      BY <1>1
    <2>3. <<i, i>> \in PriorityFirst(f) <=>
              (Priority[f[i].detector] < Priority[f[i].detector] \/ (Priority[f[i].detector] = Priority[f[i].detector] /\ <<i, i>> \in LongerFirst(f)))
      BY <1>2
    <2> QED
      BY <2>1, <2>2, <2>3
  <1>4. \A i, j \in DOMAIN f :
            i # j => <<i, j>> \in PriorityFirst(f) \/ <<j, i>> \in PriorityFirst(f)
    <2> TAKE i, j \in DOMAIN f
    <2>1. i # j => <<i, j>> \in LongerFirst(f) \/ <<j, i>> \in LongerFirst(f)
      BY <1>0 DEF StrictOrder
    <2>2. Priority[f[i].detector] \in Int /\ Priority[f[j].detector] \in Int
      BY <1>1
    <2>3. /\ <<i, j>> \in PriorityFirst(f) <=>
              (Priority[f[i].detector] < Priority[f[j].detector] \/ (Priority[f[i].detector] = Priority[f[j].detector] /\ <<i, j>> \in LongerFirst(f)))
          /\ <<j, i>> \in PriorityFirst(f) <=>
              (Priority[f[j].detector] < Priority[f[i].detector] \/ (Priority[f[j].detector] = Priority[f[i].detector] /\ <<j, i>> \in LongerFirst(f)))
      BY <1>2
    <2> QED
      BY <2>1, <2>2, <2>3
  <1>5. \A i, j, k \in DOMAIN f :
            <<i, j>> \in PriorityFirst(f) /\ <<j, k>> \in PriorityFirst(f)
                => <<i, k>> \in PriorityFirst(f)
    BY <1>0, <1>1, <1>2 DEF StrictOrder
  <1> QED
    BY <1>3, <1>4, <1>5 DEF StrictOrder

LEMMA PositionOrder ==
    ASSUME NEW f, Findings(f)
    PROVE  StrictOrder(DOMAIN f, ByPosition(f))
  <1>1. \A i \in DOMAIN f : f[i].start \in Int
    BY FindingIs
  <1>2. \A i, j \in DOMAIN f :
           <<i, j>> \in ByPosition(f) <=>
              \/ f[i].start < f[j].start
              \/ f[i].start = f[j].start /\ <<i, j>> \in PriorityFirst(f)
    BY PositionIs
  <1>0. StrictOrder(DOMAIN f, PriorityFirst(f))
    BY PriorityOrder
  <1>3. \A i \in DOMAIN f : <<i, i>> \notin ByPosition(f)
    <2> TAKE i \in DOMAIN f
    <2>1. <<i, i>> \notin PriorityFirst(f)
      BY <1>0 DEF StrictOrder
    <2>2. f[i].start \in Int
      BY <1>1
    <2>3. <<i, i>> \in ByPosition(f) <=>
              (f[i].start < f[i].start \/ (f[i].start = f[i].start /\ <<i, i>> \in PriorityFirst(f)))
      BY <1>2
    <2> QED
      BY <2>1, <2>2, <2>3
  <1>4. \A i, j \in DOMAIN f :
            i # j => <<i, j>> \in ByPosition(f) \/ <<j, i>> \in ByPosition(f)
    <2> TAKE i, j \in DOMAIN f
    <2>1. i # j => <<i, j>> \in PriorityFirst(f) \/ <<j, i>> \in PriorityFirst(f)
      BY <1>0 DEF StrictOrder
    <2>2. f[i].start \in Int /\ f[j].start \in Int
      BY <1>1
    <2>3. /\ <<i, j>> \in ByPosition(f) <=>
              (f[i].start < f[j].start \/ (f[i].start = f[j].start /\ <<i, j>> \in PriorityFirst(f)))
          /\ <<j, i>> \in ByPosition(f) <=>
              (f[j].start < f[i].start \/ (f[j].start = f[i].start /\ <<j, i>> \in PriorityFirst(f)))
      BY <1>2
    <2> QED
      BY <2>1, <2>2, <2>3
  <1>5. \A i, j, k \in DOMAIN f :
            <<i, j>> \in ByPosition(f) /\ <<j, k>> \in ByPosition(f) => <<i, k>> \in ByPosition(f)
    BY <1>0, <1>1, <1>2 DEF StrictOrder
  <1> QED
    BY <1>3, <1>4, <1>5 DEF StrictOrder

LEMMA FromTheEndOrder ==
    ASSUME NEW f, Findings(f)
    PROVE  StrictOrder(DOMAIN f, FromTheEnd(f))
  <1>1. \A i \in DOMAIN f : f[i].start \in Int /\ i \in Int
    BY FindingIs
  <1>2. \A i, j \in DOMAIN f :
           <<i, j>> \in FromTheEnd(f) <=>
              \/ f[i].start > f[j].start
              \/ f[i].start = f[j].start /\ i < j
    BY FromTheEndIs
  <1>3. \A i \in DOMAIN f : <<i, i>> \notin FromTheEnd(f)
    BY <1>1, <1>2
  <1>4. \A i, j \in DOMAIN f :
            i # j => <<i, j>> \in FromTheEnd(f) \/ <<j, i>> \in FromTheEnd(f)
    BY <1>1, <1>2
  <1>5. \A i, j, k \in DOMAIN f :
            <<i, j>> \in FromTheEnd(f) /\ <<j, k>> \in FromTheEnd(f) => <<i, k>> \in FromTheEnd(f)
    BY <1>1, <1>2
  <1> QED
    BY <1>3, <1>4, <1>5 DEF StrictOrder

LEMMA SubOrder ==
    ASSUME NEW S, NEW before, StrictOrder(S, before), NEW U \in SUBSET S
    PROVE  StrictOrder(U, before)
  BY DEF StrictOrder

(***************************************************************************)
(* What the registry leaves.                                               *)
(***************************************************************************)
Regex(f) == {i \in DOMAIN f : f[i].detector = "regex"}
Left(f) == (DOMAIN f \ Regex(f)) \cup Kept(f, Regex(f), LongerFirst(f))

LEMMA LeftIs ==
    ASSUME NEW f, Findings(f)
    PROVE  /\ IsKept(f, Regex(f), LongerFirst(f), Kept(f, Regex(f), LongerFirst(f)))
           /\ Left(f) \in SUBSET (DOMAIN f)
           /\ IsKept(f, Left(f), PriorityFirst(f), Resolved(f))
           /\ Resolved(f) \in SUBSET (DOMAIN f)
  <1>1. Regex(f) \in SUBSET (DOMAIN f)
    BY DEF Regex
  <1>2. IsKept(f, Regex(f), LongerFirst(f), Kept(f, Regex(f), LongerFirst(f)))
    BY <1>1, FindingsFinite, LongerOrder, SubOrder, KeptIs
  <1>3. Left(f) \in SUBSET (DOMAIN f)
    BY <1>1, <1>2 DEF Left, IsKept
  <1>4. Resolved(f) = Kept(f, Left(f), PriorityFirst(f))
    BY DEF Resolved, Left, Regex
  <1>5. IsKept(f, Left(f), PriorityFirst(f), Resolved(f))
    BY <1>3, <1>4, FindingsFinite, PriorityOrder, SubOrder, KeptIs
  <1> QED
    BY <1>2, <1>3, <1>5 DEF IsKept

LEMMA ResolveIs ==
    ASSUME NEW f, Findings(f)
    PROVE  /\ Findings(Resolve(f))
           /\ \A k \in DOMAIN Resolve(f) : \E i \in Resolved(f) : Resolve(f)[k] = f[i]
           /\ \A i \in Resolved(f) : \E k \in DOMAIN Resolve(f) : Resolve(f)[k] = f[i]
  <1>1. PICK S : S = Resolved(f)
    OBVIOUS
  <1>2. S \in SUBSET (DOMAIN f) /\ IsFiniteSet(S) /\ StrictOrder(S, ByPosition(f))
    BY <1>1, LeftIs, FindingsFinite, PositionOrder, SubOrder
  <1>3. PICK N : N = Cardinality(S)
    OBVIOUS
  <1>4. PICK s : s = Sorted(S, ByPosition(f))
    OBVIOUS
  <1>5. N \in Nat
    BY <1>2, <1>3, FS_CardinalityType
  <1>6. s \in [1..N -> S] /\ \A x \in S : \E i \in 1..N : s[i] = x
    BY <1>2, <1>3, <1>4, SortedIs DEF Sorts
  <1>7. Resolve(f) = [k \in 1..N |-> f[s[k]]]
    BY <1>1, <1>4, <1>6 DEF Resolve
  <1>8. \A k \in 1..N : s[k] \in S /\ s[k] \in DOMAIN f /\ f[s[k]] \in Detection
    BY <1>2, <1>6, FindingIs
  <1>9. Findings(Resolve(f))
    BY <1>5, <1>7, <1>8 DEF Findings
  <1>10. DOMAIN Resolve(f) = 1..N /\ \A k \in 1..N : Resolve(f)[k] = f[s[k]]
    BY <1>7
  <1> QED
    BY <1>1, <1>6, <1>8, <1>9, <1>10

\* What became of each finding.
LEMMA PriorityKept ==
    ASSUME NEW f, Findings(f), NEW e, e = Resolve(f), NEW i \in DOMAIN f
    PROVE  \/ \E k \in DOMAIN e : e[k] = f[i]
           \/ \E k \in DOMAIN e :
                 /\ Overlap(f[i], e[k])
                 /\ e[k].detector \in MayDisplace[f[i].detector]
           \/ /\ f[i].detector = "regex"
              /\ \E j \in DOMAIN f \ {i} :
                    f[j].detector = "regex" /\ Overlap(f[i], f[j])
  <1>1. CASE i \in Resolved(f)
    BY <1>1, ResolveIs
  <1>2. CASE i \in Left(f) /\ i \notin Resolved(f)
    <2>1. PICK k \in Resolved(f) : <<k, i>> \in PriorityFirst(f) /\ Overlap(f[k], f[i])
      BY <1>2, LeftIs DEF IsKept
    <2>2. k \in DOMAIN f
      BY LeftIs
    <2>3. Priority[f[k].detector] <= Priority[f[i].detector]
      <3>1. Priority[f[k].detector] \in 0..2 /\ Priority[f[i].detector] \in 0..2
        BY <2>2, FindingIs
      <3>2. \/ Priority[f[k].detector] < Priority[f[i].detector]
            \/ Priority[f[k].detector] = Priority[f[i].detector]
        BY <2>1, <2>2, PriorityIs
      <3> QED
        BY <3>1, <3>2
    <2>4. f[k].detector \in Detectors /\ f[i].detector \in Detectors
      BY <2>2, FindingIs
    <2>5. f[k].detector \in MayDisplace[f[i].detector]
      BY <2>3, <2>4 DEF Detectors, Priority, MayDisplace
    <2>6. Overlap(f[i], f[k])
      BY <2>1, <2>2, FindingIs DEF Overlap
    <2>7. PICK l \in DOMAIN e : e[l] = f[k]
      BY ResolveIs
    <2> QED
      BY <2>5, <2>6, <2>7
  <1>3. CASE i \notin Left(f)
    <2>1. i \in Regex(f) /\ i \notin Kept(f, Regex(f), LongerFirst(f))
      BY <1>3 DEF Left
    <2>2. PICK k \in Regex(f) : <<k, i>> \in LongerFirst(f) /\ Overlap(f[k], f[i])
      BY <2>1, LeftIs DEF IsKept
    <2>3. k # i
      BY <2>2, LongerOrder DEF StrictOrder
    <2>4. k \in DOMAIN f \ {i} /\ f[k].detector = "regex" /\ f[i].detector = "regex"
      BY <2>1, <2>2, <2>3 DEF Regex
    <2>5. Overlap(f[i], f[k])
      BY <2>2, <2>4, FindingIs DEF Overlap
    <2> QED
      BY <2>4, <2>5
  <1> QED
    BY <1>1, <1>2, <1>3

(***************************************************************************)
(* Numbers.                                                                *)
(***************************************************************************)
\* The findings ds lie within the text t.
Within(t, ds) ==
    /\ t \in Seq(Symbols)
    /\ Findings(ds)
    /\ \A k \in DOMAIN ds : ds[k].start <= ds[k].end /\ ds[k].end <= Len(t)

LEMMA WithinIs ==
    ASSUME NEW t, NEW ds, Within(t, ds), NEW k \in DOMAIN ds
    PROVE  /\ ds[k].type \in Types /\ ds[k].start \in Nat /\ ds[k].end \in Nat
           /\ ds[k].start <= ds[k].end /\ ds[k].end <= Len(t) /\ Len(t) \in Nat
           /\ ds[k].value \in Seq(Symbols)
  <1>1. /\ ds[k].type \in Types /\ ds[k].start \in Nat /\ ds[k].end \in Nat
        /\ ds[k].start <= ds[k].end /\ ds[k].end <= Len(t)
        /\ ds[k].value \in Seq(Symbols)
    BY FindingIs DEF Within
  <1>2. Len(t) \in Nat
    BY SeqFacts DEF Within
  <1> QED
    BY <1>1, <1>2

LEMMA WithNumberIs ==
    ASSUME NEW m \in MapperType, NEW type \in Types, NEW value \in Seq(Symbols),
           NEW n, n = WithNumber(m, type, value)
    PROVE  /\ n \in MapperType
           /\ Numbered(n, type, value)
           /\ \A u \in Types : \A v : Numbered(m, u, v) => Numbered(n, u, v)
  <1>1. CASE Numbered(m, type, value)
    <2>1. n = m
      BY <1>1 DEF WithNumber
    <2> QED
      BY <1>1, <2>1
  <1>2. CASE ~Numbered(m, type, value)
    <2>1. n = [m EXCEPT ![type] = Append(@, value)]
      BY <1>2 DEF WithNumber
    <2>2. PICK q : q = Append(m[type], value)
      OBVIOUS
    <2>3. m[type] \in Seq(Seq(Symbols)) /\ \A u \in Types : m[u] \in Seq(Seq(Symbols))
      BY DEF MapperType
    <2>4. PICK N \in Nat : N = Len(m[type])
      BY <2>3
    <2>5. /\ q \in Seq(Seq(Symbols)) /\ DOMAIN q = 1..(N + 1) /\ q[N + 1] = value
          /\ DOMAIN m[type] = 1..N
          /\ \A i \in 1..N : i \in 1..(N + 1) /\ q[i] = m[type][i]
      BY <2>2, <2>3, <2>4
    <2>6. n \in MapperType /\ n[type] = q /\ \A u \in Types : u # type => n[u] = m[u]
      BY <2>1, <2>2, <2>5 DEF MapperType
    <2>7. Numbered(n, type, value)
      <3>1. N + 1 \in DOMAIN n[type] /\ n[type][N + 1] = value
        BY <2>5, <2>6
      <3>2. HasNumber(n, type, value, N + 1)
        BY <3>1 DEF HasNumber
      <3> QED
        BY <3>1, <3>2 DEF Numbered
    <2>8. ASSUME NEW u \in Types, NEW v, Numbered(m, u, v) PROVE Numbered(n, u, v)
      <3>1. PICK i \in DOMAIN m[u] : HasNumber(m, u, v, i)
        BY <2>8 DEF Numbered
      <3>2. i \in DOMAIN n[u] /\ n[u][i] = m[u][i]
        BY <2>5, <2>6
      <3>3. HasNumber(n, u, v, i)
        BY <3>1, <3>2 DEF HasNumber
      <3> QED
        BY <3>2, <3>3 DEF Numbered
    <2> QED
      BY <2>6, <2>7, <2>8
  <1> QED
    BY <1>1, <1>2

\* Every entity has a number in the mapper m.
AllNumbered(m, ds) == \A k \in DOMAIN ds : Numbered(m, ds[k].type, ds[k].value)

LEMMA AssignIs ==
    ASSUME NEW m \in MapperType, NEW t, NEW ds, Within(t, ds)
    PROVE  Assign(m, ds) \in MapperType /\ AllNumbered(Assign(m, ds), ds)
  <1>1. PICK N \in Nat : N = Len(ds)
    BY DEF Within, Findings
  <1>2. DOMAIN ds = 1..N
    BY <1>1 DEF Within, Findings
  <1>3. PICK type : type = [k \in 1..N |-> ds[k].type]
    OBVIOUS
  <1>4. PICK val : val = [k \in 1..N |-> ds[k].value]
    OBVIOUS
  <1>5. \A k \in 1..N : /\ type[k] = ds[k].type /\ type[k] \in Types
                        /\ val[k] = ds[k].value /\ val[k] \in Seq(Symbols)
    BY <1>2, <1>3, <1>4, WithinIs
  <1> DEFINE step == [k \in 1..N |-> [x \in MapperType |-> WithNumber(x, type[k], val[k])]]
  <1>6. Steps(N, MapperType, m, step)
    <2>1. \A k \in 1..N, x \in MapperType : WithNumber(x, type[k], val[k]) \in MapperType
      BY <1>5, WithNumberIs
    <2>2. step \in [1..N -> [MapperType -> MapperType]]
      BY <2>1
    <2> HIDE DEF step
    <2> QED
      BY <2>2 DEF Steps
  <1>7. \A k \in 1..N, x \in MapperType : step[k][x] = WithNumber(x, type[k], val[k])
    OBVIOUS
  <1> HIDE DEF step
  <1>8. PICK g : Iterates(N, MapperType, m, step, g)
    BY <1>6, Recursion
  <1>9. /\ g \in [0..N -> MapperType] /\ g[0] = m
        /\ \A k \in 1..N : g[k] = step[k][g[k - 1]]
    BY <1>8 DEF Iterates
  <1>10. \A k \in 0..N : g[k] \in MapperType
    BY <1>9
  <1>11. \A k \in 1..N : g[k] = WithNumber(g[k - 1], type[k], val[k]) /\ g[k - 1] \in MapperType
    <2> TAKE k \in 1..N
    <2>1. g[k - 1] \in MapperType
      BY <1>10, Range1
    <2> QED
      BY <1>7, <1>9, <2>1
  <1> DEFINE after == CHOOSE f : f = [k \in 0..N |-> IF k = 0 THEN m
                          ELSE WithNumber(f[k - 1], ds[k].type, ds[k].value)]
  <1>12. Assign(m, ds) = after[N]
    BY <1>1 DEF Assign
  <1>13. \E f : f = [k \in 0..N |-> IF k = 0 THEN m
                        ELSE WithNumber(f[k - 1], ds[k].type, ds[k].value)]
    <2>1. \A k \in 0..N : k # 0 => k \in 1..N
      OBVIOUS
    <2>2. \A k \in 0..N : g[k] = IF k = 0 THEN m
                                 ELSE WithNumber(g[k - 1], ds[k].type, ds[k].value)
      BY <1>5, <1>9, <1>11, <2>1
    <2>3. g = [k \in 0..N |-> g[k]]
      BY <1>9
    <2>4. g = [k \in 0..N |-> IF k = 0 THEN m
                              ELSE WithNumber(g[k - 1], ds[k].type, ds[k].value)]
      BY <2>2, <2>3, Zenon
    <2> QED
      BY <2>4
  <1>14. after = [k \in 0..N |-> IF k = 0 THEN m
                      ELSE WithNumber(after[k - 1], ds[k].type, ds[k].value)]
    BY <1>13, Zenon
  <1> HIDE DEF after
  <1>15. after[0] = m /\ \A k \in 1..N : after[k] = WithNumber(after[k - 1], type[k], val[k])
    <2>1. \A k \in 0..N : after[k] = IF k = 0 THEN m
                                     ELSE WithNumber(after[k - 1], ds[k].type, ds[k].value)
      BY <1>14
    <2>2. 0 \in 0..N /\ \A k \in 1..N : k \in 0..N /\ k # 0
      OBVIOUS
    <2> QED
      BY <1>5, <2>1, <2>2
  <1> DEFINE T == {n \in 0..N : /\ after[n] \in MapperType
                                /\ \A l \in 1..n : Numbered(after[n], type[l], val[l])}
  <1>16. 0..N \subseteq T
    <2>1. 0 \in T
      <3>1. 0 \in 0..N /\ \A l \in 1..0 : FALSE
        OBVIOUS
      <3> QED
        BY <1>15, <3>1
    <2>2. ASSUME NEW n \in 1..N, n - 1 \in T PROVE n \in T
      <3>1. /\ after[n - 1] \in MapperType
            /\ \A l \in 1..(n - 1) : Numbered(after[n - 1], type[l], val[l])
        BY <2>2
      <3>2. after[n] = WithNumber(after[n - 1], type[n], val[n])
        BY <1>15
      <3>3. type[n] \in Types /\ val[n] \in Seq(Symbols)
        BY <1>5
      <3>4. /\ after[n] \in MapperType
            /\ Numbered(after[n], type[n], val[n])
            /\ \A u \in Types : \A v : Numbered(after[n - 1], u, v) => Numbered(after[n], u, v)
        BY <3>1, <3>2, <3>3, WithNumberIs
      <3>5. \A l \in 1..n : l = n \/ (l \in 1..(n - 1) /\ l \in 1..N)
        OBVIOUS
      <3>6. \A l \in 1..n : Numbered(after[n], type[l], val[l])
        BY <1>5, <3>1, <3>4, <3>5
      <3>7. n \in 0..N
        OBVIOUS
      <3> QED
        BY <3>4, <3>6, <3>7
    <2> HIDE DEF T
    <2> QED
      BY <2>1, <2>2, Induced
  <1>17. after[N] \in MapperType /\ \A l \in 1..N : Numbered(after[N], type[l], val[l])
    BY <1>16, Range1
  <1> QED
    BY <1>2, <1>5, <1>12, <1>17 DEF AllNumbered

LEMMA BaseIs == Base \in Nat /\ Base >= 2
  <1>1. Base \in Nat \ {0, 1}
    BY RedactionAssumption
  <1> QED
    BY <1>1

LEMMA Divided ==
    ASSUME NEW x \in Nat
    PROVE  /\ x \div Base \in Nat /\ x % Base \in 0..(Base - 1)
           /\ x # 0 => x \div Base < x
  BY BaseIs

\* g[k] is n without its last k digits, and without w digits nothing is left.
Divides(n, w, g) ==
    /\ g[0] = n /\ g[w] = 0
    /\ \A k \in 0..w : g[k] \in Nat
    /\ \A k \in 1..w : g[k] = g[k - 1] \div Base

\* The numeral of n has w digits.
Spelled(n, w, g) ==
    /\ Divides(n, w, g)
    /\ Numeral(n) = [i \in 1..w |-> Digit[g[w - i] % Base]]

LEMMA NumeralIs ==
    ASSUME NEW n \in Nat
    PROVE  \E w \in Nat : \E g : Spelled(n, w, g)
  <1>1. PICK N \in Nat : N = Width + n
    BY WidthIs
  <1> DEFINE step == [k \in 1..N |-> [x \in Nat |-> x \div Base]]
  <1>2. Steps(N, Nat, n, step)
    <2>1. \A x \in Nat : x \div Base \in Nat
      BY Divided
    <2>2. step \in [1..N -> [Nat -> Nat]]
      BY <2>1
    <2> HIDE DEF step
    <2> QED
      BY <2>2 DEF Steps
  <1>3. \A k \in 1..N, x \in Nat : step[k][x] = x \div Base
    OBVIOUS
  <1> HIDE DEF step
  <1>4. PICK g : Iterates(N, Nat, n, step, g)
    BY <1>2, Recursion
  <1>5. /\ g \in [0..N -> Nat] /\ g[0] = n
        /\ \A k \in 1..N : g[k] = step[k][g[k - 1]]
    BY <1>4 DEF Iterates
  <1>6. \A k \in 1..N : g[k] = g[k - 1] \div Base /\ g[k - 1] \in Nat
    BY <1>3, <1>5, Range1
  <1> DEFINE without == CHOOSE f : f = [k \in 0..N |-> IF k = 0 THEN n ELSE f[k - 1] \div Base]
             w == CHOOSE k \in Width..(Width + n) :
                      without[k] = 0 /\ (k = Width \/ without[k - 1] # 0)
  <1>7. Numeral(n) = [i \in 1..w |-> Digit[without[w - i] % Base]]
    BY <1>1 DEF Numeral
  <1>8. without = g
    <2>1. \E f : f = [k \in 0..N |-> IF k = 0 THEN n ELSE f[k - 1] \div Base]
      <3>1. \A k \in 0..N : g[k] = IF k = 0 THEN n ELSE g[k - 1] \div Base
        <4>1. \A k \in 0..N : k # 0 => k \in 1..N
          OBVIOUS
        <4> QED
          BY <1>5, <1>6, <4>1
      <3>2. g = [k \in 0..N |-> g[k]]
        BY <1>5
      <3>3. g = [k \in 0..N |-> IF k = 0 THEN n ELSE g[k - 1] \div Base]
        BY <3>1, <3>2, Zenon
      <3> QED
        BY <3>3
    <2>2. without = [k \in 0..N |-> IF k = 0 THEN n ELSE without[k - 1] \div Base]
      BY <2>1, Zenon
    <2> HIDE DEF without
    <2>3. without[0] = n /\ \A k \in 1..N : without[k] = without[k - 1] \div Base
      <3>1. \A k \in 0..N : without[k] = IF k = 0 THEN n ELSE without[k - 1] \div Base
        BY <2>2
      <3>2. 0 \in 0..N /\ \A k \in 1..N : k \in 0..N /\ k # 0
        OBVIOUS
      <3> QED
        BY <3>1, <3>2
    <2> DEFINE T == {k \in 0..N : without[k] = g[k]}
    <2>4. 0 \in T
      BY <1>5, <2>3
    <2>5. ASSUME NEW k \in 1..N, k - 1 \in T PROVE k \in T
      <3>1. without[k] = g[k]
        BY <1>6, <2>3, <2>5
      <3>2. k \in 0..N
        OBVIOUS
      <3> QED
        BY <3>1, <3>2
    <2> HIDE DEF T
    <2>6. 0..N \subseteq T
      BY <2>4, <2>5, Induced
    <2>7. \A k \in 0..N : without[k] = g[k]
      BY <2>6 DEF T
    <2>8. without = [k \in 0..N |-> without[k]] /\ g = [k \in 0..N |-> g[k]]
      BY <1>5, <2>2
    <2> QED
      BY <2>7, <2>8
  <1> HIDE DEF without
  <1>9. g[N] = 0
    <2> DEFINE T == {k \in 0..N : g[k] = 0 \/ g[k] <= n - k}
    <2>1. 0 \in T
      BY <1>5
    <2>2. ASSUME NEW k \in 1..N, k - 1 \in T PROVE k \in T
      <3>1. g[k - 1] \in Nat /\ g[k] = g[k - 1] \div Base /\ (g[k - 1] = 0 \/ g[k - 1] <= n - (k - 1))
        BY <1>6, <2>2
      <3>2. g[k] \in Nat /\ (g[k - 1] # 0 => g[k] < g[k - 1])
        BY <3>1, Divided
      <3>3. g[k - 1] = 0 => g[k] = 0
        BY <3>1, BaseIs
      <3>4. g[k] = 0 \/ g[k] <= n - k
        BY <3>1, <3>2, <3>3
      <3>5. k \in 0..N
        OBVIOUS
      <3> QED
        BY <3>4, <3>5
    <2> HIDE DEF T
    <2>3. 0..N \subseteq T
      BY <2>1, <2>2, Induced
    <2>4. g[N] = 0 \/ g[N] <= n - N
      BY <2>3, Range1 DEF T
    <2>5. g[N] \in Nat /\ n - N <= 0
      BY <1>1, <1>5, WidthIs, Range1
    <2> QED
      BY <2>4, <2>5
  <1>10. \E k \in Width..(Width + n) : g[k] = 0 /\ (k = Width \/ g[k - 1] # 0)
    <2>1. SUFFICES ASSUME ~\E k \in Width..N : g[k] = 0 /\ (k = Width \/ g[k - 1] # 0) PROVE FALSE
      BY <1>1
    <2> DEFINE T == {k \in 0..N : k >= Width => g[k] # 0}
    <2>2. 0 \in T
      BY WidthIs
    <2>3. ASSUME NEW k \in 1..N, k - 1 \in T PROVE k \in T
      <3>0. Width \in Nat
        BY WidthIs
      <3>1. CASE k < Width
        BY <3>0, <3>1
      <3>2. CASE k = Width
        <4>1. k \in Width..N
          BY <3>0, <3>2
        <4> QED
          BY <2>1, <3>2, <4>1
      <3>3. CASE k > Width
        <4>1. k \in Width..N /\ k - 1 >= Width
          BY <3>0, <3>3
        <4>2. g[k - 1] # 0
          BY <2>3, <4>1
        <4> QED
          BY <2>1, <4>1, <4>2
      <3> QED
        BY <3>0, <3>1, <3>2, <3>3
    <2> HIDE DEF T
    <2>4. N \in T
      BY <2>2, <2>3, Induced, Range1
    <2>5. N >= Width
      BY <1>1, WidthIs
    <2> QED
      BY <1>9, <2>4, <2>5 DEF T
  <1>11. w \in Width..(Width + n) /\ g[w] = 0
    <2>1. \E k \in Width..(Width + n) : without[k] = 0 /\ (k = Width \/ without[k - 1] # 0)
      BY <1>8, <1>10
    <2>2. w \in Width..(Width + n) /\ without[w] = 0
      BY <2>1, Zenon
    <2> HIDE DEF w
    <2> QED
      BY <1>8, <2>2
  <1> HIDE DEF w
  <1>12. w \in Nat /\ w <= N
    BY <1>1, <1>11, WidthIs
  <1>13. Divides(n, w, g)
    <2>1. \A k \in 0..w : k \in 0..N
      BY <1>12
    <2>2. \A k \in 1..w : k \in 1..N
      BY <1>12
    <2> QED
      BY <1>5, <1>6, <1>11, <2>1, <2>2 DEF Divides
  <1>14. Numeral(n) = [i \in 1..w |-> Digit[g[w - i] % Base]]
    BY <1>7, <1>8
  <1> QED
    BY <1>12, <1>13, <1>14 DEF Spelled

LEMMA NumeralTyped ==
    ASSUME NEW n \in Nat
    PROVE  Numeral(n) \in Seq(Symbols)
  <1>0. PICK w \in Nat : \E g : Spelled(n, w, g)
    BY NumeralIs
  <1>1. PICK g : /\ Divides(n, w, g)
                 /\ Numeral(n) = [i \in 1..w |-> Digit[g[w - i] % Base]]
    BY <1>0 DEF Spelled
  <1>2. ASSUME NEW i \in 1..w PROVE Digit[g[w - i] % Base] \in Symbols
    <2>1. w - i \in 0..w
      OBVIOUS
    <2>2. g[w - i] \in Nat
      BY <1>1, <2>1 DEF Divides
    <2>3. g[w - i] % Base \in 0..(Base - 1)
      BY <2>2, Divided
    <2>4. Digit[g[w - i] % Base] \in Digits
      BY <2>3, RedactionAssumption DEF Digits, Range
    <2> QED
      BY <2>4 DEF Symbols, Words
  <1> QED
    BY <1>1, <1>2

LEMMA DigitsDiffer ==
    ASSUME NEW x \in 0..(Base - 1), NEW y \in 0..(Base - 1), Digit[x] = Digit[y]
    PROVE  x = y
  BY RedactionAssumption

LEMMA DividedBy ==
    ASSUME NEW x \in Nat, NEW y \in Nat, x \div Base = y \div Base, x % Base = y % Base
    PROVE  x = y
  <1>1. Base \in Nat /\ Base > 0
    BY BaseIs
  <1>2. x = Base * (x \div Base) + (x % Base) /\ y = Base * (y \div Base) + (y % Base)
    BY <1>1
  <1> QED
    BY <1>2

\* Different numbers are written differently.
LEMMA NumeralsDiffer ==
    ASSUME NEW n \in Nat, NEW o \in Nat, Numeral(n) = Numeral(o)
    PROVE  n = o
  <1>0. PICK w \in Nat, v \in Nat : (\E g : Spelled(n, w, g)) /\ (\E f : Spelled(o, v, f))
    BY NumeralIs
  <1>1. PICK g : /\ Divides(n, w, g)
                 /\ Numeral(n) = [i \in 1..w |-> Digit[g[w - i] % Base]]
    BY <1>0 DEF Spelled
  <1>2. PICK f : /\ Divides(o, v, f)
                 /\ Numeral(o) = [i \in 1..v |-> Digit[f[v - i] % Base]]
    BY <1>0 DEF Spelled
  <1>3. w = v
    <2>1. PICK s : s = Numeral(n)
      OBVIOUS
    <2>2. DOMAIN s = 1..w /\ DOMAIN s = 1..v
      BY <1>1, <1>2, <2>1
    <2>3. Len(s) = w /\ Len(s) = v
      <3>1. s = [i \in 1..w |-> Digit[g[w - i] % Base]]
        BY <1>1, <2>1
      <3>2. s = [i \in 1..v |-> Digit[f[v - i] % Base]]
        BY <1>2, <2>1
      <3>3. Len([i \in 1..w |-> Digit[g[w - i] % Base]]) = w
        OBVIOUS
      <3>4. Len([i \in 1..v |-> Digit[f[v - i] % Base]]) = v
        OBVIOUS
      <3> QED
        BY <3>1, <3>2, <3>3, <3>4
    <2> QED
      BY <2>3
  <1>4. \A i \in 1..w : Digit[g[w - i] % Base] = Digit[f[w - i] % Base]
    <2>1. \A i \in 1..w : Numeral(n)[i] = Digit[g[w - i] % Base]
      BY <1>1
    <2>2. \A i \in 1..w : Numeral(o)[i] = Digit[f[w - i] % Base]
      BY <1>2, <1>3
    <2> QED
      BY <2>1, <2>2
  <1>5. /\ \A k \in 0..w : g[k] \in Nat /\ f[k] \in Nat
        /\ \A k \in 1..w : g[k] = g[k - 1] \div Base /\ f[k] = f[k - 1] \div Base
        /\ g[w] = 0 /\ f[w] = 0 /\ g[0] = n /\ f[0] = o
    BY <1>1, <1>2, <1>3 DEF Divides
  <1> DEFINE T == {k \in 0..w : g[w - k] = f[w - k]}
  <1>6. 0 \in T
    <2>1. w - 0 = w /\ 0 \in 0..w
      OBVIOUS
    <2> QED
      BY <1>5, <2>1
  <1>7. ASSUME NEW k \in 1..w, k - 1 \in T PROVE k \in T
    <2>1. PICK i \in 0..w : i = w - k
      OBVIOUS
    <2>2. i + 1 \in 1..w /\ (i + 1) - 1 = i /\ w - (k - 1) = i + 1 /\ k \in 0..w
      BY <2>1
    <2>3. g[i + 1] = f[i + 1]
      BY <1>7, <2>2
    <2>4. g[i] \div Base = f[i] \div Base
      BY <1>5, <2>2, <2>3
    <2>5. Digit[g[i] % Base] = Digit[f[i] % Base]
      BY <1>4, <2>1
    <2>6. g[i] \in Nat /\ f[i] \in Nat
      BY <1>5
    <2>7. g[i] % Base \in 0..(Base - 1) /\ f[i] % Base \in 0..(Base - 1)
      BY <2>6, Divided
    <2>8. g[i] % Base = f[i] % Base
      BY <2>5, <2>7, DigitsDiffer
    <2>9. g[i] = f[i]
      BY <2>4, <2>6, <2>8, DividedBy
    <2> QED
      BY <2>1, <2>2, <2>9
  <1> HIDE DEF T
  <1>8. w \in T
    BY <1>6, <1>7, Induced, Range1
  <1>9. w - w = 0
    OBVIOUS
  <1> QED
    BY <1>5, <1>8, <1>9 DEF T

LEMMA Pair == ASSUME NEW S, NEW a \in S, NEW b \in S PROVE <<a, b>> \in Seq(S)
  OBVIOUS

LEMMA PlaceholderTyped ==
    ASSUME NEW type \in Types, NEW n \in Nat
    PROVE  Placeholder(type, n) \in Seq(Symbols)
  <1>1. PICK p : p = Numeral(n)
    OBVIOUS
  <1>2. type \in Symbols /\ "_" \in Symbols
    <2>1. type \in Names \cup Letters
      BY RedactionAssumption
    <2> QED
      BY <2>1 DEF Symbols, Words
  <1>3. p \in Seq(Symbols)
    BY <1>1, NumeralTyped
  <1>4. <<type, "_">> \in Seq(Symbols)
    <2>1. PICK u : u = "_"
      OBVIOUS
    <2>2. u \in Symbols /\ type \in Symbols
      BY <1>2, <2>1
    <2>3. <<type, u>> \in Seq(Symbols)
      BY <2>2, Pair
    <2> QED
      BY <2>1, <2>3
  <1>5. PICK q : q = <<type, "_">>
    OBVIOUS
  <1>6. Join(Symbols, q, p, q \o p)
    BY <1>3, <1>4, <1>5, Joined
  <1>7. q \o p \in Seq(Symbols)
    BY <1>6 DEF Join
  <1> QED
    BY <1>1, <1>5, <1>7 DEF Placeholder

LEMMA NumberIs ==
    ASSUME NEW m \in MapperType, NEW t, NEW ds, Within(t, ds), AllNumbered(m, ds),
           NEW k \in DOMAIN ds, NEW n, n = NumberOf(m, ds[k])
    PROVE  /\ n \in DOMAIN m[ds[k].type] /\ n \in Nat
           /\ PlaceholderOf(m, ds[k]) = Placeholder(ds[k].type, n)
           /\ FirstSpelling(m, ds[k]) = m[ds[k].type][n]
           /\ m[ds[k].type][n] \in Seq(Symbols)
  <1>1. PICK type : type = ds[k].type
    OBVIOUS
  <1>2. type \in Types
    BY <1>1, WithinIs
  <1>3. \E i \in DOMAIN m[type] : HasNumber(m, type, ds[k].value, i)
    BY <1>1 DEF AllNumbered, Numbered
  <1>4. n \in DOMAIN m[type]
    BY <1>1, <1>3, Zenon DEF NumberOf
  <1>5. m[type] \in Seq(Seq(Symbols))
    BY <1>2 DEF MapperType
  <1>6. n \in Nat /\ m[type][n] \in Seq(Symbols)
    <2>1. DOMAIN m[type] = 1..Len(m[type]) /\ Len(m[type]) \in Nat
      BY <1>5
    <2> QED
      BY <1>4, <1>5, <2>1
  <1>7. PlaceholderOf(m, ds[k]) = Placeholder(type, n)
    BY <1>1, Zenon DEF PlaceholderOf
  <1>8. FirstSpelling(m, ds[k]) = m[type][n]
    BY <1>1, Zenon DEF FirstSpelling
  <1> QED
    BY <1>1, <1>4, <1>6, <1>7, <1>8

LEMMA PlaceholderOfTyped ==
    ASSUME NEW m \in MapperType, NEW t, NEW ds, Within(t, ds), AllNumbered(m, ds),
           NEW k \in DOMAIN ds
    PROVE  PlaceholderOf(m, ds[k]) \in Seq(Symbols)
  <1>1. PICK n : n = NumberOf(m, ds[k])
    OBVIOUS
  <1>2. n \in Nat /\ PlaceholderOf(m, ds[k]) = Placeholder(ds[k].type, n)
    BY <1>1, NumberIs
  <1>3. ds[k].type \in Types
    BY WithinIs
  <1> QED
    BY <1>2, <1>3, PlaceholderTyped

LEMMA NothingPart ==
    ASSUME NEW S, NEW s \in Seq(S), NEW i \in Nat, i > Len(s)
    PROVE  SubSeq(s, i, Len(s)) \in Seq(S)
  OBVIOUS

LEMMA SplicedIs ==
    ASSUME NEW s \in Seq(Symbols), NEW d, d.start \in Nat, d.end \in Nat, d.start <= Len(s),
           NEW p \in Seq(Symbols)
    PROVE  Spliced(s, d, p) \in Seq(Symbols) /\ Len(Spliced(s, d, p)) >= d.start
  <1>0. Len(s) \in Nat
    BY SeqFacts
  <1>1. PICK h : h = d.start
    OBVIOUS
  <1>2. PICK e : e = d.end
    OBVIOUS
  <1>3. PICK a : a = SubSeq(s, 1, h)
    OBVIOUS
  <1>4. PICK b : b = SubSeq(s, e + 1, Len(s))
    OBVIOUS
  <1>5. a \in Seq(Symbols) /\ Len(a) = h
    <2> DEFINE x == 1
    <2>1. x \in 1..(Len(s) + 1) /\ h \in (x - 1)..Len(s) /\ h - x + 1 = h
      BY <1>0, <1>1
    <2>2. SubSeq(s, x, h) \in Seq(Symbols) /\ Len(SubSeq(s, x, h)) = h - x + 1
      <3> HIDE DEF x
      <3> QED
        BY <2>1, Part
    <2> QED
      BY <1>3, <2>1, <2>2
  <1>6. b \in Seq(Symbols)
    <2> DEFINE x == e + 1
    <2>1. x \in Nat /\ 1 <= x /\ b = SubSeq(s, x, Len(s))
      BY <1>2, <1>4
    <2> HIDE DEF x
    <2>2. CASE x > Len(s)
      BY <2>1, <2>2, NothingPart
    <2>3. CASE x <= Len(s)
      <3>1. x \in 1..(Len(s) + 1) /\ Len(s) \in (x - 1)..Len(s)
        BY <1>0, <2>1, <2>3
      <3> QED
        BY <2>1, <3>1, Part
    <2> QED
      BY <1>0, <2>1, <2>2, <2>3
  <1>7. PICK q : q = a \o p
    OBVIOUS
  <1>8. Join(Symbols, a, p, q)
    BY <1>5, <1>7, Joined
  <1>9. q \in Seq(Symbols) /\ Len(q) = h + Len(p)
    BY <1>5, <1>8 DEF Join
  <1>10. Join(Symbols, q, b, q \o b)
    BY <1>6, <1>9, Joined
  <1>11. PICK r : r = q \o b
    OBVIOUS
  <1>12. r \in Seq(Symbols) /\ Len(r) = (h + Len(p)) + Len(b)
    BY <1>9, <1>10, <1>11 DEF Join
  <1>13. Len(p) \in Nat /\ Len(b) \in Nat
    BY <1>6, SeqFacts
  <1>14. Spliced(s, d, p) = r
    BY <1>1, <1>2, <1>3, <1>4, <1>7, <1>11 DEF Spliced
  <1>15. Len(r) >= h
    BY <1>1, <1>12, <1>13
  <1> QED
    BY <1>1, <1>12, <1>14, <1>15

\* The texts g[0] to g[N] between the replacements of the N findings of ds.
Splices(m, t, ds, N, order, g) ==
    /\ Sorts(DOMAIN ds, FromTheEnd(ds), N, order)
    /\ g \in [0..N -> Seq(Symbols)]
    /\ g[0] = t
    /\ \A k \in 1..N : g[k] = Spliced(g[k - 1], ds[order[k]], PlaceholderOf(m, ds[order[k]]))

LEMMA ReplaceIs ==
    ASSUME NEW m \in MapperType, NEW t, NEW ds, Within(t, ds), AllNumbered(m, ds),
           NEW N \in Nat, N = Len(ds)
    PROVE  \E order, g : Splices(m, t, ds, N, order, g) /\ Replace(m, t, ds) = g[N]
  <1>2. DOMAIN ds = 1..N
    BY DEF Within, Findings
  <1>3. PICK order : order = Sorted(DOMAIN ds, FromTheEnd(ds))
    OBVIOUS
  <1>4. Findings(ds) /\ IsFiniteSet(DOMAIN ds) /\ Cardinality(DOMAIN ds) = N
    <2>1. Findings(ds)
      BY DEF Within
    <2>2. IsFiniteSet(1..N) /\ Cardinality(1..N) = N
      <3>1. N \in Int /\ 1 \in Int
        OBVIOUS
      <3>2. IsFiniteSet(1..N) /\ Cardinality(1..N) = IF 1 > N THEN 0 ELSE N - 1 + 1
        BY <3>1, FS_Interval
      <3> QED
        BY <3>2
    <2> QED
      BY <1>2, <2>1, <2>2
  <1>5. Sorts(DOMAIN ds, FromTheEnd(ds), N, order)
    BY <1>3, <1>4, FromTheEndOrder, SortedIs
  <1>6. /\ \A k \in 1..N : order[k] \in DOMAIN ds
        /\ \A i, j \in 1..N : i < j => <<order[i], order[j]>> \in FromTheEnd(ds)
    BY <1>5 DEF Sorts
  <1> DEFINE d(k) == ds[order[k]]
             p(k) == PlaceholderOf(m, ds[order[k]])
  <1>7. \A k \in 1..N : /\ d(k).start \in Nat /\ d(k).end \in Nat
                        /\ d(k).start <= Len(t) /\ Len(t) \in Nat
                        /\ p(k) \in Seq(Symbols)
    <2> TAKE k \in 1..N
    <2>1. order[k] \in DOMAIN ds
      BY <1>6
    <2>2. /\ d(k).start \in Nat /\ d(k).end \in Nat
          /\ d(k).start <= d(k).end /\ d(k).end <= Len(t) /\ Len(t) \in Nat
      BY <2>1, WithinIs
    <2>3. p(k) \in Seq(Symbols)
      BY <2>1, PlaceholderOfTyped
    <2> QED
      BY <2>2, <2>3
  <1>8. \A i, j \in 1..N : i < j => d(j).start <= d(i).start
    <2> TAKE i, j \in 1..N
    <2>1. order[i] \in DOMAIN ds /\ order[j] \in DOMAIN ds
      BY <1>6
    <2>2. d(i).start \in Nat /\ d(j).start \in Nat
      BY <1>7
    <2>3. <<order[i], order[j]>> \in FromTheEnd(ds) <=>
              \/ d(i).start > d(j).start
              \/ d(i).start = d(j).start /\ order[i] < order[j]
      BY <1>4, <2>1, FromTheEndIs
    <2> QED
      BY <1>6, <2>2, <2>3
  <1>9. PICK start : start = [k \in 1..N |-> d(k).start]
    OBVIOUS
  <1>10. PICK part : part = [k \in 1..N |-> d(k)]
    OBVIOUS
  <1>11. PICK q : q = [k \in 1..N |-> p(k)]
    OBVIOUS
  <1>12. /\ \A k \in 1..N : /\ part[k] = ds[order[k]] /\ q[k] = PlaceholderOf(m, ds[order[k]])
                            /\ start[k] = part[k].start /\ start[k] \in Nat /\ part[k].end \in Nat
                            /\ start[k] <= Len(t) /\ q[k] \in Seq(Symbols)
         /\ \A i, j \in 1..N : i < j => start[j] <= start[i]
    BY <1>7, <1>8, <1>9, <1>10, <1>11
  <1> HIDE DEF d, p
  <1> DEFINE step == [k \in 1..N |-> [x \in Seq(Symbols) |->
                         IF start[k] <= Len(x) THEN Spliced(x, part[k], q[k]) ELSE <<>>]]
  <1>13. \A k \in 1..N, x \in Seq(Symbols) :
            start[k] <= Len(x) => /\ Spliced(x, part[k], q[k]) \in Seq(Symbols)
                                  /\ Len(Spliced(x, part[k], q[k])) >= start[k]
    BY <1>12, SplicedIs
  <1>14. Steps(N, Seq(Symbols), t, step)
    <2>1. \A k \in 1..N, x \in Seq(Symbols) :
              (IF start[k] <= Len(x) THEN Spliced(x, part[k], q[k]) ELSE <<>>) \in Seq(Symbols)
      BY <1>13
    <2>2. step \in [1..N -> [Seq(Symbols) -> Seq(Symbols)]]
      BY <2>1
    <2>3. t \in Seq(Symbols)
      BY DEF Within
    <2> HIDE DEF step
    <2> QED
      BY <2>2, <2>3 DEF Steps
  <1>15. \A k \in 1..N, x \in Seq(Symbols) :
            step[k][x] = IF start[k] <= Len(x) THEN Spliced(x, part[k], q[k]) ELSE <<>>
    OBVIOUS
  <1> HIDE DEF step
  <1>16. PICK g : Iterates(N, Seq(Symbols), t, step, g)
    BY <1>14, Recursion
  <1>17. /\ g \in [0..N -> Seq(Symbols)] /\ g[0] = t
         /\ \A k \in 1..N : g[k] = step[k][g[k - 1]]
    BY <1>16 DEF Iterates
  <1>18. \A k \in 0..N : g[k] \in Seq(Symbols) /\ Len(g[k]) \in Nat
    <2>1. \A k \in 0..N : g[k] \in Seq(Symbols)
      BY <1>17
    <2> QED
      BY <2>1, SeqFacts
  <1> DEFINE T == {n \in 0..N : \A k \in 1..N : n < k => start[k] <= Len(g[n])}
  <1>19. 0..N \subseteq T
    <2>1. 0 \in T
      BY <1>12, <1>17
    <2>2. ASSUME NEW n \in 1..N, n - 1 \in T PROVE n \in T
      <3>1. start[n] <= Len(g[n - 1]) /\ n - 1 \in 0..N /\ n \in 0..N
        BY <2>2
      <3>2. g[n] = Spliced(g[n - 1], part[n], q[n]) /\ Len(g[n]) >= start[n]
        <4>1. PICK x \in Seq(Symbols) : x = g[n - 1]
          BY <1>18, <3>1
        <4>2. start[n] <= Len(x)
          BY <3>1, <4>1
        <4>3. step[n][x] = Spliced(x, part[n], q[n]) /\ Len(Spliced(x, part[n], q[n])) >= start[n]
          BY <1>13, <1>15, <4>2
        <4> QED
          BY <1>17, <4>1, <4>3
      <3>3. ASSUME NEW k \in 1..N, n < k PROVE start[k] <= Len(g[n])
        <4>1. start[k] <= start[n] /\ start[k] \in Nat /\ start[n] \in Nat /\ Len(g[n]) \in Nat
          BY <1>12, <1>18, <3>1, <3>3
        <4> QED
          BY <3>2, <4>1
      <3> QED
        BY <3>1, <3>3
    <2> HIDE DEF T
    <2> QED
      BY <2>1, <2>2, Induced
  <1>20. \A k \in 1..N : g[k] = Spliced(g[k - 1], part[k], q[k])
    <2> TAKE k \in 1..N
    <2>1. k - 1 \in 0..N /\ k - 1 < k
      OBVIOUS
    <2>2. start[k] <= Len(g[k - 1])
      BY <1>19, <2>1
    <2> QED
      BY <1>15, <1>17, <1>18, <2>1, <2>2
  <1> HIDE DEF T
  <1> DEFINE after == CHOOSE f : f = [k \in 0..N |-> IF k = 0 THEN t
                 ELSE Spliced(f[k - 1], ds[order[k]], PlaceholderOf(m, ds[order[k]]))]
  <1>21. Replace(m, t, ds) = after[N]
    BY <1>3 DEF Replace
  <1>22. \E f : f = [k \in 0..N |-> IF k = 0 THEN t
                 ELSE Spliced(f[k - 1], ds[order[k]], PlaceholderOf(m, ds[order[k]]))]
    <2>1. \A k \in 0..N : k # 0 => k \in 1..N
      OBVIOUS
    <2>2. \A k \in 0..N : g[k] = IF k = 0 THEN t
                 ELSE Spliced(g[k - 1], ds[order[k]], PlaceholderOf(m, ds[order[k]]))
      BY <1>12, <1>17, <1>20, <2>1
    <2>3. g = [k \in 0..N |-> g[k]]
      BY <1>17
    <2>4. g = [k \in 0..N |-> IF k = 0 THEN t
                 ELSE Spliced(g[k - 1], ds[order[k]], PlaceholderOf(m, ds[order[k]]))]
      BY <2>2, <2>3, Zenon
    <2> QED
      BY <2>4
  <1>23. after = [k \in 0..N |-> IF k = 0 THEN t
                 ELSE Spliced(after[k - 1], ds[order[k]], PlaceholderOf(m, ds[order[k]]))]
    BY <1>22, Zenon
  <1> HIDE DEF after
  <1>24. after[0] = t /\ \A k \in 1..N : after[k] = Spliced(after[k - 1], part[k], q[k])
    <2>1. \A k \in 0..N : after[k] = IF k = 0 THEN t
                 ELSE Spliced(after[k - 1], ds[order[k]], PlaceholderOf(m, ds[order[k]]))
      BY <1>23
    <2>2. 0 \in 0..N /\ \A k \in 1..N : k \in 0..N /\ k # 0
      OBVIOUS
    <2> QED
      BY <1>12, <2>1, <2>2
  <1> DEFINE R == {n \in 0..N : after[n] = g[n]}
  <1>25. 0..N \subseteq R
    <2>1. 0 \in R
      BY <1>17, <1>24
    <2>2. ASSUME NEW n \in 1..N, n - 1 \in R PROVE n \in R
      <3>1. after[n] = g[n]
        BY <1>20, <1>24, <2>2
      <3>2. n \in 0..N
        OBVIOUS
      <3> QED
        BY <3>1, <3>2
    <2> HIDE DEF R
    <2> QED
      BY <2>1, <2>2, Induced
  <1>26. after[N] = g[N]
    BY <1>25, Range1
  <1>27. Splices(m, t, ds, N, order, g)
    BY <1>5, <1>12, <1>17, <1>20 DEF Splices
  <1> QED
    BY <1>21, <1>26, <1>27

LEMMA ReplaceTyped ==
    ASSUME NEW m \in MapperType, NEW t, NEW ds, Within(t, ds), AllNumbered(m, ds)
    PROVE  Replace(m, t, ds) \in Seq(Symbols)
  <1>1. PICK N \in Nat : N = Len(ds)
    BY DEF Within, Findings
  <1>2. PICK order, g : Splices(m, t, ds, N, order, g) /\ Replace(m, t, ds) = g[N]
    BY <1>1, ReplaceIs
  <1> QED
    BY <1>2, Range1 DEF Splices

(***************************************************************************)
(* Parts of sequences.                                                     *)
(***************************************************************************)
LEMMA PartIs ==
    ASSUME NEW S, NEW s \in Seq(S), NEW x \in Nat, NEW y \in Nat, x <= y, y <= Len(s)
    PROVE  /\ SubSeq(s, x + 1, y) \in Seq(S) /\ Len(SubSeq(s, x + 1, y)) = y - x
           /\ \A k \in 1..(y - x) : SubSeq(s, x + 1, y)[k] = s[x + k]
  <1>1. Len(s) \in Nat
    BY SeqFacts
  <1>2. x + 1 \in 1..(Len(s) + 1) /\ y \in ((x + 1) - 1)..Len(s)
    BY <1>1
  <1>3. /\ SubSeq(s, x + 1, y) \in Seq(S)
        /\ Len(SubSeq(s, x + 1, y)) = y - (x + 1) + 1
        /\ \A k \in 1..(y - (x + 1) + 1) : SubSeq(s, x + 1, y)[k] = s[k + ((x + 1) - 1)]
    BY <1>2, Part
  <1>4. y - (x + 1) + 1 = y - x /\ \A k \in Int : k + ((x + 1) - 1) = x + k
    OBVIOUS
  <1> QED
    BY <1>3, <1>4

Concat(w, u, v) == w = u \o v

\* The part w of s from a to c is made of the parts u and v, that meet at b.
Middle(S, s, a, b, c, u, v, w) ==
    /\ s \in Seq(S)
    /\ a \in Nat /\ b \in Nat /\ c \in Nat
    /\ a <= b /\ b <= c /\ c <= Len(s)
    /\ u = SubSeq(s, a + 1, b) /\ v = SubSeq(s, b + 1, c) /\ w = SubSeq(s, a + 1, c)

LEMMA MiddleSplit ==
    ASSUME NEW S, NEW s, NEW a, NEW b, NEW c, NEW u, NEW v, NEW w,
           Middle(S, s, a, b, c, u, v, w)
    PROVE  /\ u \in Seq(S) /\ v \in Seq(S) /\ w \in Seq(S)
           /\ Len(u) = b - a /\ Len(v) = c - b
           /\ Concat(w, u, v)
  <1>0. /\ s \in Seq(S) /\ a \in Nat /\ b \in Nat /\ c \in Nat
        /\ a <= b /\ b <= c /\ c <= Len(s)
    BY DEF Middle
  <1>1. \A x, y \in Nat : x <= y /\ y <= Len(s) =>
            /\ SubSeq(s, x + 1, y) \in Seq(S) /\ Len(SubSeq(s, x + 1, y)) = y - x
            /\ \A k \in 1..(y - x) : SubSeq(s, x + 1, y)[k] = s[x + k]
    BY <1>0, PartIs
  <1>2. Len(s) \in Nat
    BY <1>0, SeqFacts
  <1>3. u = SubSeq(s, a + 1, b)
    BY DEF Middle
  <1>4. v = SubSeq(s, b + 1, c)
    BY DEF Middle
  <1>5. w = SubSeq(s, a + 1, c)
    BY DEF Middle
  <1>6. PICK r : r = u \o v
    OBVIOUS
  <1>7. u \in Seq(S) /\ Len(u) = b - a /\ \A k \in 1..(b - a) : u[k] = s[a + k]
    BY <1>0, <1>1, <1>2, <1>3, <1>4, <1>5
  <1>8. v \in Seq(S) /\ Len(v) = c - b /\ \A k \in 1..(c - b) : v[k] = s[b + k]
    BY <1>0, <1>1, <1>2, <1>3, <1>4, <1>5
  <1>9. w \in Seq(S) /\ Len(w) = c - a /\ \A k \in 1..(c - a) : w[k] = s[a + k]
    <2>1. a <= c
      BY <1>0
    <2> QED
      BY <1>0, <1>1, <1>2, <1>5, <2>1
  <1>10. Join(S, u, v, r)
    BY <1>6, <1>7, <1>8, Joined
  <1>11. /\ r \in Seq(S) /\ Len(r) = c - a
         /\ \A k \in 1..(b - a) : r[k] = u[k]
         /\ \A k \in 1..(c - b) : r[(b - a) + k] = v[k]
    BY <1>0, <1>7, <1>8, <1>10 DEF Join
  <1>12. \A k \in 1..(c - a) : r[k] = w[k]
    <2> TAKE k \in 1..(c - a)
    <2>1. CASE k <= b - a
      <3>1. k \in 1..(b - a)
        BY <1>0, <2>1
      <3> QED
        BY <1>7, <1>9, <1>11, <3>1
    <2>2. CASE k > b - a
      <3> DEFINE l == k - (b - a)
      <3>1. l \in 1..(c - b) /\ (b - a) + l = k /\ b + l = a + k
        BY <1>0, <2>2
      <3> HIDE DEF l
      <3> QED
        BY <1>8, <1>9, <1>11, <3>1
    <2> QED
      BY <1>0, <2>1, <2>2
  <1>13. r = w
    BY <1>9, <1>11, <1>12, Extensional
  <1> QED
    BY <1>6, <1>7, <1>8, <1>9, <1>13 DEF Concat

\* What is before and after the place where two sequences meet.
Meet(S, u, v, r, n) == u \in Seq(S) /\ v \in Seq(S) /\ r = u \o v /\ n = Len(u)

Met(u, v, r, n) == SubSeq(r, 1, n) = u /\ SubSeq(r, n + 1, Len(r)) = v

LEMMA CutOff ==
    ASSUME NEW S, NEW u, NEW v, NEW r, NEW n, Meet(S, u, v, r, n)
    PROVE  Met(u, v, r, n)
  <1>0. u \in Seq(S) /\ v \in Seq(S) /\ r = u \o v /\ n = Len(u)
    BY DEF Meet
  <1>1. Len(u) \in Nat /\ Len(v) \in Nat
    BY <1>0, SeqFacts
  <1>2. Join(S, u, v, r)
    BY <1>0, Joined
  <1>3. /\ r \in Seq(S) /\ Len(r) = n + Len(v)
        /\ \A k \in 1..n : r[k] = u[k]
        /\ \A k \in 1..Len(v) : r[n + k] = v[k]
    BY <1>0, <1>2 DEF Join
  <1>4. PICK z \in Nat : z = 0
    OBVIOUS
  <1>5. /\ SubSeq(r, z + 1, n) \in Seq(S) /\ Len(SubSeq(r, z + 1, n)) = n - z
        /\ \A k \in 1..(n - z) : SubSeq(r, z + 1, n)[k] = r[z + k]
    <2>1. z <= n /\ n <= Len(r) /\ n \in Nat
      BY <1>0, <1>1, <1>3, <1>4
    <2> QED
      BY <1>3, <2>1, PartIs
  <1>6. z + 1 = 1 /\ n - z = n /\ \A k \in 1..n : z + k = k
    BY <1>0, <1>1, <1>4
  <1>7. SubSeq(r, 1, n) = u
    <2>1. PICK x : x = SubSeq(r, 1, n)
      OBVIOUS
    <2>2. x \in Seq(S) /\ Len(x) = n /\ \A k \in 1..n : x[k] = u[k]
      BY <1>3, <1>5, <1>6, <2>1
    <2> QED
      BY <1>0, <2>1, <2>2, Extensional
  <1>8. PICK l \in Nat : l = Len(r)
    BY <1>0, <1>1, <1>3
  <1>9. /\ SubSeq(r, n + 1, l) \in Seq(S) /\ Len(SubSeq(r, n + 1, l)) = l - n
        /\ \A k \in 1..(l - n) : SubSeq(r, n + 1, l)[k] = r[n + k]
    <2>1. n <= l /\ l <= Len(r) /\ n \in Nat
      BY <1>0, <1>1, <1>3, <1>8
    <2> QED
      BY <1>3, <2>1, PartIs
  <1>10. SubSeq(r, n + 1, l) = v
    <2>1. PICK x : x = SubSeq(r, n + 1, l)
      OBVIOUS
    <2>2. x \in Seq(S) /\ Len(x) = Len(v) /\ \A k \in 1..Len(v) : x[k] = v[k]
      <3>1. l - n = Len(v)
        BY <1>0, <1>1, <1>3, <1>8
      <3> QED
        BY <1>3, <1>9, <2>1, <3>1
    <2> QED
      BY <1>0, <2>1, <2>2, Extensional
  <1> QED
    BY <1>7, <1>8, <1>10 DEF Met

\* One sequence, and sequences that are all empty, in one.
LEMMA FlattenOne ==
    ASSUME NEW S, NEW F \in Seq(Seq(S)), Len(F) = 1
    PROVE  FlattenSeq(F) = F[1]
  <1>1. PICK N \in Nat : N = 1
    OBVIOUS
  <1>2. Parts(S, N, F)
    BY <1>1, SeqParts
  <1>3. PICK g : Flattens(S, N, F, g)
    BY <1>2, FlattensExists
  <1>4. 1 \in 1..N
    BY <1>1
  <1>5. g[1] = F[1]
    BY <1>3, <1>4, FlattensFirst
  <1>6. FlattenSeq(F) = g[N]
    BY <1>1, <1>3, FlattenIs
  <1> QED
    BY <1>1, <1>5, <1>6

LEMMA FlattenNothing ==
    ASSUME NEW S, NEW F \in Seq(Seq(S)), \A i \in 1..Len(F) : F[i] = <<>>
    PROVE  FlattenSeq(F) = <<>>
  <1>1. PICK N \in Nat : N = Len(F)
    BY SeqFacts
  <1>2. Parts(S, N, F)
    BY <1>1, SeqParts
  <1>3. PICK g : Flattens(S, N, F, g)
    BY <1>2, FlattensExists
  <1> DEFINE T == {n \in 0..N : g[n] = <<>>}
  <1>4. 0 \in T
    BY <1>3 DEF Flattens
  <1>5. ASSUME NEW n \in 1..N, n - 1 \in T PROVE n \in T
    <2>1. g[n] = g[n - 1] \o F[n] /\ F[n] = <<>> /\ g[n - 1] = <<>>
      BY <1>1, <1>3, <1>5 DEF Flattens
    <2>2. <<>> \o <<>> = <<>>
      BY EmptyNeutral
    <2>3. n \in 0..N
      OBVIOUS
    <2> QED
      BY <2>1, <2>2, <2>3
  <1> HIDE DEF T
  <1>6. 0..N \subseteq T
    BY <1>4, <1>5, Induced
  <1>7. g[N] = <<>>
    BY <1>6, Range1 DEF T
  <1> QED
    BY <1>1, <1>3, <1>7, FlattenIs

(***************************************************************************)
(* The text in which the findings are replaced.                            *)
(***************************************************************************)
Apart(ds) == \A k, l \in DOMAIN ds : k # l => ~Overlap(ds[k], ds[l])

Covers(d, i) == d.start < i /\ i <= d.end

\* A text for each finding, to take its place.
Instead(ds, w) == \A k \in DOMAIN ds : w[k] \in Seq(Symbols)

PartAt(t, ds, w, i) ==
    IF Covering(ds, i) = {} THEN <<t[i]>>
    ELSE LET k == CHOOSE k \in Covering(ds, i) : TRUE
         IN  IF i = ds[k].start + 1 THEN w[k] ELSE <<>>

Parted(t, ds, w) == [i \in DOMAIN t |-> PartAt(t, ds, w, i)]

\* What is sent in place of the findings, and what the user is shown.
SentFor(m, ds) == [k \in DOMAIN ds |-> PlaceholderOf(m, ds[k])]

ShownFor(m, ds) == [k \in DOMAIN ds |-> FirstSpelling(m, ds[k])]

LEMMA PartsInPlace ==
    ASSUME NEW t, NEW ds, NEW w
    PROVE  InPlace(t, ds, w) = FlattenSeq(Parted(t, ds, w))
  BY Zenon DEF InPlace, Parted, PartAt

LEMMA SentIs ==
    ASSUME NEW m \in MapperType, NEW t, NEW ds, Within(t, ds), AllNumbered(m, ds),
           NEW w, w = SentFor(m, ds)
    PROVE  Instead(ds, w) /\ \A k \in DOMAIN ds : w[k] = PlaceholderOf(m, ds[k])
  <1>1. \A k \in DOMAIN ds : w[k] = PlaceholderOf(m, ds[k])
    BY Zenon DEF SentFor
  <1>2. \A k \in DOMAIN ds : PlaceholderOf(m, ds[k]) \in Seq(Symbols)
    BY PlaceholderOfTyped
  <1> QED
    BY <1>1, <1>2 DEF Instead

LEMMA ShownIs ==
    ASSUME NEW m \in MapperType, NEW t, NEW ds, Within(t, ds), AllNumbered(m, ds),
           NEW w, w = ShownFor(m, ds)
    PROVE  Instead(ds, w) /\ \A k \in DOMAIN ds : w[k] = FirstSpelling(m, ds[k])
  <1>1. \A k \in DOMAIN ds : w[k] = FirstSpelling(m, ds[k])
    BY Zenon DEF ShownFor
  <1>2. \A k \in DOMAIN ds : FirstSpelling(m, ds[k]) \in Seq(Symbols)
    <2> TAKE k \in DOMAIN ds
    <2>1. PICK n : n = NumberOf(m, ds[k])
      OBVIOUS
    <2> QED
      BY <2>1, NumberIs
  <1> QED
    BY <1>1, <1>2 DEF Instead

LEMMA CoveringIs ==
    ASSUME NEW t, NEW ds, Within(t, ds), NEW i \in Nat
    PROVE  \A k : k \in Covering(ds, i) <=> k \in DOMAIN ds /\ Covers(ds[k], i)
  <1>1. \A k \in DOMAIN ds : i \in (ds[k].start + 1)..ds[k].end <=> Covers(ds[k], i)
    <2> TAKE k \in DOMAIN ds
    <2>1. ds[k].start \in Nat /\ ds[k].end \in Nat
      BY WithinIs
    <2> QED
      BY <2>1 DEF Covers
  <1> QED
    BY <1>1 DEF Covering

LEMMA CoversOne ==
    ASSUME NEW t, NEW ds, Within(t, ds), Apart(ds), NEW i \in Nat,
           NEW k \in DOMAIN ds, NEW l \in DOMAIN ds, Covers(ds[k], i), Covers(ds[l], i)
    PROVE  k = l
  <1>1. /\ ds[k].start \in Nat /\ ds[k].end \in Nat
        /\ ds[l].start \in Nat /\ ds[l].end \in Nat
    BY WithinIs
  <1>2. Overlap(ds[k], ds[l])
    BY <1>1 DEF Overlap, Covers
  <1> QED
    BY <1>2 DEF Apart

LEMMA CoveringOne ==
    ASSUME NEW t, NEW ds, Within(t, ds), Apart(ds), NEW i \in Nat
    PROVE  Cardinality(Covering(ds, i)) <= 1
  <1>1. CASE Covering(ds, i) = {}
    <2>1. Cardinality(Covering(ds, i)) = 0
      BY <1>1, FS_EmptySet
    <2> QED
      BY <2>1
  <1>2. CASE Covering(ds, i) # {}
    <2>1. PICK k : k \in Covering(ds, i)
      BY <1>2
    <2>2. Covering(ds, i) = {k}
      BY <2>1, CoveringIs, CoversOne
    <2>3. Cardinality(Covering(ds, i)) = 1
      BY <2>2, FS_Singleton
    <2> QED
      BY <2>3
  <1> QED
    BY <1>1, <1>2

\* A symbol of the text stays, or is of one finding, of which the first gives
\* way to the text in its place.
LEMMA PartKept ==
    ASSUME NEW t, NEW ds, Within(t, ds), NEW w, NEW i \in Nat, \A k \in DOMAIN ds : ~Covers(ds[k], i)
    PROVE  PartAt(t, ds, w, i) = <<t[i]>>
  <1>1. Covering(ds, i) = {}
    BY CoveringIs
  <1> QED
    BY <1>1 DEF PartAt

LEMMA PartReplaced ==
    ASSUME NEW t, NEW ds, Within(t, ds), Apart(ds), NEW w, NEW i \in Nat,
           NEW k \in DOMAIN ds, Covers(ds[k], i)
    PROVE  PartAt(t, ds, w, i) = IF i = ds[k].start + 1 THEN w[k] ELSE <<>>
  <1>1. k \in Covering(ds, i)
    BY CoveringIs
  <1>2. (CHOOSE l \in Covering(ds, i) : TRUE) \in Covering(ds, i)
    BY <1>1
  <1>3. (CHOOSE l \in Covering(ds, i) : TRUE) = k
    BY <1>2, CoveringIs, CoversOne
  <1> QED
    BY <1>1, <1>3 DEF PartAt

LEMMA PartedTyped ==
    ASSUME NEW t, NEW ds, Within(t, ds), Apart(ds), NEW w, Instead(ds, w),
           NEW part, part = Parted(t, ds, w)
    PROVE  /\ part \in Seq(Seq(Symbols)) /\ Len(part) = Len(t) /\ Len(t) \in Nat
           /\ \A i \in 1..Len(t) : part[i] = PartAt(t, ds, w, i)
  <1>1. PICK N \in Nat : N = Len(t)
    BY SeqFacts DEF Within
  <1>2. t \in Seq(Symbols) /\ DOMAIN t = 1..N /\ \A i \in 1..N : t[i] \in Symbols
    BY <1>1, SeqFacts DEF Within
  <1>3. ASSUME NEW i \in 1..N PROVE PartAt(t, ds, w, i) \in Seq(Symbols)
    <2>0. i \in Nat
      OBVIOUS
    <2>1. CASE \A k \in DOMAIN ds : ~Covers(ds[k], i)
      <3>1. PartAt(t, ds, w, i) = <<t[i]>>
        BY <2>0, <2>1, PartKept
      <3>2. PICK x \in Symbols : x = t[i]
        BY <1>2
      <3>3. <<x>> \in Seq(Symbols)
        OBVIOUS
      <3> QED
        BY <3>1, <3>2, <3>3
    <2>2. CASE \E k \in DOMAIN ds : Covers(ds[k], i)
      <3>1. PICK k \in DOMAIN ds : Covers(ds[k], i)
        BY <2>2
      <3>2. w[k] \in Seq(Symbols)
        BY DEF Instead
      <3>3. <<>> \in Seq(Symbols)
        OBVIOUS
      <3>4. PartAt(t, ds, w, i) = IF i = ds[k].start + 1 THEN w[k]
                                  ELSE <<>>
        BY <2>0, <3>1, PartReplaced
      <3> QED
        BY <3>2, <3>3, <3>4
    <2> QED
      BY <2>1, <2>2
  <1>4. part = [i \in 1..N |-> PartAt(t, ds, w, i)]
    BY <1>2 DEF Parted
  <1>5. part \in Seq(Seq(Symbols)) /\ Len(part) = N
    BY <1>3, <1>4
  <1> QED
    BY <1>1, <1>4, <1>5

LEMMA ResolvedApart ==
    ASSUME NEW f, Findings(f)
    PROVE  Apart(Resolve(f))
  <1>1. PICK S : S = Resolved(f)
    OBVIOUS
  <1>2. S \in SUBSET (DOMAIN f) /\ IsFiniteSet(S) /\ StrictOrder(S, ByPosition(f))
    BY <1>1, LeftIs, FindingsFinite, PositionOrder, SubOrder
  <1>3. PICK N : N = Cardinality(S)
    OBVIOUS
  <1>4. PICK s : s = Sorted(S, ByPosition(f))
    OBVIOUS
  <1>5. N \in Nat
    BY <1>2, <1>3, FS_CardinalityType
  <1>6. /\ s \in [1..N -> S]
        /\ \A i, j \in 1..N : i < j => <<s[i], s[j]>> \in ByPosition(f)
    BY <1>2, <1>3, <1>4, SortedIs DEF Sorts
  <1>7. Resolve(f) = [k \in 1..N |-> f[s[k]]]
    BY <1>1, <1>4, <1>6 DEF Resolve
  <1>8. \A i, j \in S : i # j => ~Overlap(f[i], f[j])
    <2> TAKE i, j \in S
    <2> HAVE i # j
    <2>1. i \in DOMAIN f /\ j \in DOMAIN f
      BY <1>2
    <2>2. <<i, j>> \in PriorityFirst(f) \/ <<j, i>> \in PriorityFirst(f)
      BY <2>1, PriorityOrder DEF StrictOrder
    <2>3. IsKept(f, Left(f), PriorityFirst(f), S)
      BY <1>1, LeftIs
    <2>4. <<i, j>> \in PriorityFirst(f) => ~Overlap(f[i], f[j])
      BY <2>3 DEF IsKept
    <2>5. <<j, i>> \in PriorityFirst(f) => ~Overlap(f[j], f[i])
      BY <2>3 DEF IsKept
    <2>6. Overlap(f[i], f[j]) => Overlap(f[j], f[i])
      <3>1. f[i].start \in Nat /\ f[i].end \in Nat /\ f[j].start \in Nat /\ f[j].end \in Nat
        BY <2>1, FindingIs
      <3> QED
        BY <3>1 DEF Overlap
    <2> QED
      BY <2>2, <2>4, <2>5, <2>6
  <1>9. \A k, l \in 1..N : k # l => s[k] # s[l]
    <2>1. \A k \in 1..N : s[k] \in S
      BY <1>6
    <2>2. \A k, l \in 1..N : k < l => s[k] # s[l]
      BY <1>2, <1>6, <2>1 DEF StrictOrder
    <2>3. \A k, l \in 1..N : k # l => k < l \/ l < k
      OBVIOUS
    <2> QED
      BY <2>2, <2>3
  <1>10. \A k \in 1..N : s[k] \in S
    BY <1>6
  <1>11. DOMAIN Resolve(f) = 1..N /\ \A k \in 1..N : Resolve(f)[k] = f[s[k]]
    BY <1>7
  <1> QED
    BY <1>8, <1>9, <1>10, <1>11 DEF Apart

\* What is covered by no finding stays as it is.
LEMMA GapKept ==
    ASSUME NEW t, NEW ds, Within(t, ds), Apart(ds), NEW w, Instead(ds, w),
           NEW part, part = Parted(t, ds, w), NEW a \in Nat, NEW b \in Nat, a <= b, b <= Len(t),
           \A i \in (a + 1)..b, k \in DOMAIN ds : ~Covers(ds[k], i)
    PROVE  FlattenSeq(SubSeq(part, a + 1, b)) = SubSeq(t, a + 1, b)
  <1>1. /\ part \in Seq(Seq(Symbols)) /\ Len(part) = Len(t) /\ Len(t) \in Nat
        /\ \A i \in 1..Len(t) : part[i] = PartAt(t, ds, w, i)
    BY PartedTyped
  <1>2. PICK T : T = Seq(Symbols)
    OBVIOUS
  <1>3. PICK F : F = SubSeq(part, a + 1, b)
    OBVIOUS
  <1>4. PICK s : s = SubSeq(t, a + 1, b)
    OBVIOUS
  <1>5. PICK n \in Nat : n = b - a
    OBVIOUS
  <1>6. F \in Seq(T) /\ Len(F) = n /\ \A k \in 1..n : F[k] = part[a + k]
    BY <1>1, <1>2, <1>3, <1>5, PartIs
  <1>7. s \in Seq(Symbols) /\ Len(s) = n /\ \A k \in 1..n : s[k] = t[a + k]
    <2>1. t \in Seq(Symbols)
      BY DEF Within
    <2> QED
      BY <1>4, <1>5, <2>1, PartIs
  <1>8. \A k \in 1..n : F[k] = <<s[k]>>
    <2> TAKE k \in 1..n
    <2>1. a + k \in (a + 1)..b /\ a + k \in 1..Len(t) /\ a + k \in Nat
      BY <1>1, <1>5
    <2>2. PICK i \in Nat : i = a + k
      BY <2>1
    <2>3. \A l \in DOMAIN ds : ~Covers(ds[l], i)
      BY <2>1, <2>2
    <2>4. PartAt(t, ds, w, i) = <<t[i]>>
      BY <2>3, PartKept
    <2> QED
      BY <1>1, <1>6, <1>7, <2>1, <2>2, <2>4
  <1>9. FlattenSeq(F) = s
    BY <1>2, <1>6, <1>7, <1>8, FlattenSymbols
  <1> QED
    BY <1>3, <1>4, <1>9

\* What is covered by a finding is the text in its place.
LEMMA FindingReplaced ==
    ASSUME NEW t, NEW ds, Within(t, ds), Apart(ds), NEW w, Instead(ds, w),
           NEW part, part = Parted(t, ds, w), NEW k \in DOMAIN ds, Length(ds[k]) > 0
    PROVE  FlattenSeq(SubSeq(part, ds[k].start + 1, ds[k].end)) = w[k]
  <1>1. /\ part \in Seq(Seq(Symbols)) /\ Len(part) = Len(t) /\ Len(t) \in Nat
        /\ \A i \in 1..Len(t) : part[i] = PartAt(t, ds, w, i)
    BY PartedTyped
  <1>2. PICK a \in Nat : a = ds[k].start
    BY WithinIs
  <1>3. PICK b \in Nat : b = ds[k].end
    BY WithinIs
  <1>4. a + 1 <= b /\ b <= Len(t)
    <2>1. b - a > 0
      BY <1>2, <1>3 DEF Length
    <2>2. b <= Len(t)
      BY <1>3, WithinIs
    <2> QED
      BY <2>1, <2>2
  <1>5. \A i \in (a + 1)..b : part[i] = IF i = a + 1 THEN w[k] ELSE <<>>
    <2> TAKE i \in (a + 1)..b
    <2>1. i \in Nat /\ i \in 1..Len(t) /\ a < i /\ i <= b
      BY <1>1, <1>4
    <2>2. Covers(ds[k], i)
      BY <1>2, <1>3, <2>1 DEF Covers
    <2>3. PartAt(t, ds, w, i) = IF i = ds[k].start + 1 THEN w[k] ELSE <<>>
      BY <2>1, <2>2, PartReplaced
    <2> QED
      BY <1>1, <1>2, <2>1, <2>3
  <1>6. PICK T : T = Seq(Symbols)
    OBVIOUS
  <1>7. PICK p : p = w[k]
    OBVIOUS
  <1>8. p \in T
    BY <1>6, <1>7 DEF Instead
  <1>9. PICK c \in Nat : c = a + 1
    OBVIOUS
  <1>10. PICK F : F = SubSeq(part, a + 1, c)
    OBVIOUS
  <1>11. PICK G : G = SubSeq(part, c + 1, b)
    OBVIOUS
  <1>12. SubSeq(part, a + 1, b) = F \o G
    <2>1. PICK H : H = SubSeq(part, a + 1, b)
      OBVIOUS
    <2>2. Middle(Seq(Symbols), part, a, c, b, F, G, H)
      BY <1>1, <1>4, <1>9, <1>10, <1>11, <2>1 DEF Middle
    <2>3. Concat(H, F, G)
      BY <2>2, MiddleSplit
    <2> QED
      BY <2>1, <2>3 DEF Concat
  <1>13. F \in Seq(T) /\ Len(F) = 1 /\ F[1] = p
    <2>1. a <= c /\ c <= Len(part) /\ c - a = 1
      BY <1>1, <1>4, <1>9
    <2>2. F \in Seq(T) /\ Len(F) = c - a /\ \A i \in 1..(c - a) : F[i] = part[a + i]
      BY <1>1, <1>6, <1>10, <2>1, PartIs
    <2>3. 1 \in 1..(c - a) /\ a + 1 \in (a + 1)..b
      BY <1>4, <2>1
    <2>4. part[a + 1] = p
      BY <1>5, <1>7, <2>3
    <2> QED
      BY <2>1, <2>2, <2>3, <2>4
  <1>14. G \in Seq(T) /\ \A i \in 1..Len(G) : G[i] = <<>>
    <2>1. c <= b /\ b <= Len(part)
      BY <1>1, <1>4, <1>9
    <2>2. G \in Seq(T) /\ Len(G) = b - c /\ \A i \in 1..(b - c) : G[i] = part[c + i]
      BY <1>1, <1>6, <1>11, <2>1, PartIs
    <2>3. \A i \in 1..(b - c) : c + i \in (a + 1)..b /\ c + i # a + 1
      BY <1>9
    <2> QED
      BY <1>5, <2>2, <2>3
  <1>15. FlattenSeq(F) = p /\ FlattenSeq(G) = <<>>
    BY <1>6, <1>13, <1>14, FlattenOne, FlattenNothing
  <1>16. FlattenSeq(F \o G) = FlattenSeq(F) \o FlattenSeq(G)
    BY <1>6, <1>13, <1>14, FlattenConcat
  <1>17. p \o <<>> = p
    BY <1>6, <1>8, EmptyNeutral
  <1> QED
    BY <1>2, <1>3, <1>7, <1>12, <1>15, <1>16, <1>17

\* The sequence x is made of a, b and c, grouped in one way or in the other.
Strung(S, a, b, c, ab, bc, x) ==
    /\ a \in Seq(S) /\ b \in Seq(S) /\ c \in Seq(S)
    /\ Concat(ab, a, b) /\ Concat(bc, b, c) /\ Concat(x, ab, c)

LEMMA Restrung ==
    ASSUME NEW S, NEW a, NEW b, NEW c, NEW ab, NEW bc, NEW x, Strung(S, a, b, c, ab, bc, x)
    PROVE  /\ ab \in Seq(S) /\ bc \in Seq(S) /\ x \in Seq(S)
           /\ Concat(x, a, bc)
  <1>1. /\ a \in Seq(S) /\ b \in Seq(S) /\ c \in Seq(S)
        /\ ab = a \o b /\ bc = b \o c /\ x = ab \o c
    BY DEF Strung, Concat
  <1>2. bc \in Seq(S)
    BY <1>1, Associative
  <1> QED
    BY <1>1, <1>2, Associative DEF Concat

\* A part V in the middle of the text x, which is A, V, G and r, gives way to p.
Inside(S, A, V, G, r, B, C, x, p, y) ==
    /\ A \in Seq(S) /\ V \in Seq(S) /\ G \in Seq(S) /\ r \in Seq(S) /\ p \in Seq(S)
    /\ Concat(B, A, V) /\ Concat(C, B, G) /\ Concat(x, C, r)
    /\ y = SubSeq(x, 1, Len(A)) \o p \o SubSeq(x, Len(B) + 1, Len(x))

LEMMA MiddleReplaced ==
    ASSUME NEW S, NEW A, NEW V, NEW G, NEW r, NEW B, NEW C, NEW x, NEW p, NEW y,
           Inside(S, A, V, G, r, B, C, x, p, y)
    PROVE  y = A \o (p \o (G \o r))
  <1>1. /\ A \in Seq(S) /\ V \in Seq(S) /\ G \in Seq(S) /\ r \in Seq(S) /\ p \in Seq(S)
        /\ Concat(B, A, V) /\ Concat(C, B, G) /\ Concat(x, C, r)
        /\ y = SubSeq(x, 1, Len(A)) \o p \o SubSeq(x, Len(B) + 1, Len(x))
    BY DEF Inside
  <1>2. PICK W : Concat(W, G, r)
    BY DEF Concat
  <1>3. PICK Y : Concat(Y, V, W)
    BY DEF Concat
  <1>4. PICK Z : Concat(Z, A, p)
    BY DEF Concat
  <1>5. PICK R : Concat(R, p, W)
    BY DEF Concat
  <1>6. PICK D : Concat(D, V, G)
    BY DEF Concat
  <1>7. B \in Seq(S)
    <2>1. Strung(S, A, V, G, B, D, C)
      BY <1>1, <1>6 DEF Strung
    <2> QED
      BY <2>1, Restrung
  <1>8. W \in Seq(S) /\ Concat(x, B, W)
    <2>1. Strung(S, B, G, r, C, W, x)
      BY <1>1, <1>2, <1>7 DEF Strung
    <2> QED
      BY <2>1, Restrung
  <1>9. Y \in Seq(S) /\ Concat(x, A, Y)
    <2>1. Strung(S, A, V, W, B, Y, x)
      BY <1>1, <1>3, <1>8 DEF Strung
    <2> QED
      BY <2>1, Restrung
  <1>10. PICK n : n = Len(A)
    OBVIOUS
  <1>11. PICK k : k = Len(B)
    OBVIOUS
  <1>12. Met(B, W, x, k)
    <2>1. Meet(S, B, W, x, k)
      BY <1>7, <1>8, <1>11 DEF Meet, Concat
    <2> QED
      BY <2>1, CutOff
  <1>13. Met(A, Y, x, n)
    <2>1. Meet(S, A, Y, x, n)
      BY <1>1, <1>9, <1>10 DEF Meet, Concat
    <2> QED
      BY <2>1, CutOff
  <1>14. Concat(y, Z, W)
    <2>1. SubSeq(x, 1, n) = A /\ SubSeq(x, k + 1, Len(x)) = W
      BY <1>12, <1>13 DEF Met
    <2>2. y = A \o p \o W
      BY <1>1, <1>10, <1>11, <2>1
    <2> QED
      BY <1>4, <2>2 DEF Concat
  <1>15. Concat(y, A, R)
    <2>1. Strung(S, A, p, W, Z, R, y)
      BY <1>1, <1>4, <1>5, <1>8, <1>14 DEF Strung
    <2> QED
      BY <2>1, Restrung
  <1> QED
    BY <1>2, <1>5, <1>15 DEF Concat

\* The finding d is of the part of t from a to b, and c is beyond it.
Ahead(t, d, a, b, c) ==
    /\ t \in Seq(Symbols)
    /\ a = d.start /\ b = d.end
    /\ a \in Nat /\ b \in Nat /\ c \in Nat
    /\ a <= b /\ b <= c /\ c <= Len(t)

\* A replacement in a text whose beginning, as far as c, is still that of t.
SplicedAhead(t, d, a, b, c, r, p) ==
    Spliced(SubSeq(t, 1, c) \o r, d, p) = SubSeq(t, 1, a) \o (p \o (SubSeq(t, b + 1, c) \o r))

LEMMA SplicedThere ==
    ASSUME NEW t, NEW d, NEW a, NEW b, NEW c, Ahead(t, d, a, b, c),
           NEW r \in Seq(Symbols), NEW p \in Seq(Symbols)
    PROVE  SplicedAhead(t, d, a, b, c, r, p)
  <1>0. /\ t \in Seq(Symbols)
        /\ a \in Nat /\ b \in Nat /\ c \in Nat
        /\ a <= b /\ b <= c /\ c <= Len(t) /\ Len(t) \in Nat
    BY SeqFacts DEF Ahead
  <1>1. PICK z \in Nat : z = 0
    OBVIOUS
  <1>2. z + 1 = 1 /\ a - z = a
    BY <1>0, <1>1
  <1>3. PICK A : A = SubSeq(t, 1, a)
    OBVIOUS
  <1>4. PICK B : B = SubSeq(t, 1, b)
    OBVIOUS
  <1>5. PICK V : V = SubSeq(t, a + 1, b)
    OBVIOUS
  <1>6. PICK G : G = SubSeq(t, b + 1, c)
    OBVIOUS
  <1>7. PICK C : C = SubSeq(t, 1, c)
    OBVIOUS
  <1>8. /\ A \in Seq(Symbols) /\ Len(A) = a /\ V \in Seq(Symbols)
        /\ Concat(B, A, V)
    <2>1. A = SubSeq(t, z + 1, a) /\ B = SubSeq(t, z + 1, b)
      BY <1>2, <1>3, <1>4
    <2>2. z <= a /\ b <= Len(t)
      BY <1>0, <1>1
    <2>3. Middle(Symbols, t, z, a, b, A, V, B)
      BY <1>0, <1>5, <2>1, <2>2 DEF Middle
    <2>4. A \in Seq(Symbols) /\ Len(A) = a - z /\ V \in Seq(Symbols) /\ Concat(B, A, V)
      BY <2>3, MiddleSplit
    <2> QED
      BY <1>2, <2>4
  <1>9. G \in Seq(Symbols) /\ Concat(C, B, G) /\ Len(B) = b
    <2>1. B = SubSeq(t, z + 1, b) /\ C = SubSeq(t, z + 1, c) /\ b - z = b
      BY <1>0, <1>1, <1>2, <1>4, <1>7
    <2>2. z <= b
      BY <1>0, <1>1
    <2>3. Middle(Symbols, t, z, b, c, B, G, C)
      BY <1>0, <1>6, <2>1, <2>2 DEF Middle
    <2>4. Len(B) = b - z /\ G \in Seq(Symbols) /\ Concat(C, B, G)
      BY <2>3, MiddleSplit
    <2> QED
      BY <2>1, <2>4
  <1>10. PICK x : Concat(x, C, r)
    BY DEF Concat
  <1>11. PICK y : y = SubSeq(x, 1, a) \o p \o SubSeq(x, b + 1, Len(x))
    OBVIOUS
  <1>12. y = A \o (p \o (G \o r))
    <2>1. Inside(Symbols, A, V, G, r, B, C, x, p, y)
      BY <1>8, <1>9, <1>10, <1>11 DEF Inside
    <2> QED
      BY <2>1, MiddleReplaced
  <1>13. Spliced(x, d, p) = y
    BY <1>11 DEF Spliced, Ahead
  <1>14. x = SubSeq(t, 1, c) \o r
    BY <1>7, <1>10 DEF Concat
  <1> QED
    BY <1>3, <1>6, <1>12, <1>13, <1>14 DEF SplicedAhead

\* The findings from the last to the first: the k-th is of the part of the text
\* from a[k] to b[k], and what is before c[k] is still to be done after it.
Falling(N, a, b, c) ==
    /\ N \in Nat
    /\ \A k \in 0..N : c[k] \in Nat
    /\ \A k \in 1..N : /\ a[k] \in Nat /\ b[k] \in Nat
                       /\ c[k] = a[k] /\ a[k] < b[k] /\ b[k] <= c[0]
    /\ \A i, j \in 1..N : i < j => b[j] <= a[i]

LEMMA FallingGaps ==
    ASSUME NEW N, NEW a, NEW b, NEW c, Falling(N, a, b, c)
    PROVE  /\ \A k \in 1..N : b[k] <= c[k - 1] /\ c[k - 1] <= c[0]
           /\ \A k, j \in 1..N : \A i \in (b[k] + 1)..c[k - 1] : ~(a[j] < i /\ i <= b[j])
           /\ \A j \in 1..N : \A i \in 1..c[N] : ~(a[j] < i /\ i <= b[j])
           /\ c[N] <= c[0]
  <1>0. N \in Nat
    BY DEF Falling
  <1>1. \A k \in 1..N : /\ a[k] \in Nat /\ b[k] \in Nat
                        /\ c[k] = a[k] /\ a[k] < b[k] /\ b[k] <= c[0]
    BY DEF Falling
  <1>2. \A i, j \in 1..N : i < j => b[j] <= a[i]
    BY DEF Falling
  <1>3. \A k \in 0..N : c[k] \in Nat
    BY DEF Falling
  <1>4. \A i, j \in 1..N : i <= j => a[j] <= a[i]
    <2> TAKE i, j \in 1..N
    <2> HAVE i <= j
    <2>1. CASE i = j
      BY <1>1, <2>1
    <2>2. CASE i < j
      <3>1. b[j] <= a[i] /\ a[j] < b[j] /\ a[j] \in Nat /\ b[j] \in Nat /\ a[i] \in Nat
        BY <1>1, <1>2, <2>2
      <3> QED
        BY <3>1
    <2> QED
      BY <2>1, <2>2
  <1>5. \A k \in 0..N : c[k] <= c[0]
    <2> TAKE k \in 0..N
    <2>1. CASE k = 0
      BY <1>3, <2>1
    <2>2. CASE k # 0
      <3>1. k \in 1..N /\ 0 \in 0..N
        BY <1>0, <2>2
      <3>2. c[k] = a[k] /\ a[k] \in Nat /\ b[k] \in Nat /\ a[k] < b[k] /\ b[k] <= c[0] /\ c[0] \in Nat
        BY <1>1, <1>3, <3>1
      <3> QED
        BY <3>2
    <2> QED
      BY <2>1, <2>2
  <1>6. \A k \in 1..N : b[k] <= c[k - 1] /\ c[k - 1] <= c[0]
    <2> TAKE k \in 1..N
    <2>1. CASE k = 1
      <3>1. k - 1 = 0 /\ 0 \in 0..N
        BY <1>0, <2>1
      <3> QED
        BY <1>1, <1>5, <3>1
    <2>2. CASE k # 1
      <3>1. k - 1 \in 1..N /\ k - 1 < k /\ k - 1 \in 0..N
        BY <1>0, <2>2
      <3>2. b[k] <= a[k - 1] /\ c[k - 1] = a[k - 1]
        BY <1>1, <1>2, <3>1
      <3> QED
        BY <1>5, <3>1, <3>2
    <2> QED
      BY <2>1, <2>2
  <1>7. ASSUME NEW k \in 1..N, NEW j \in 1..N, NEW i \in (b[k] + 1)..c[k - 1], a[j] < i, i <= b[j]
        PROVE  FALSE
    <2>0. a[j] \in Nat /\ b[j] \in Nat /\ b[k] \in Nat /\ a[k] \in Nat /\ c[k - 1] \in Nat /\ i \in Nat
      <3>1. k - 1 \in 0..N
        BY <1>0
      <3> QED
        BY <1>1, <1>3, <3>1
    <2>1. b[k] < i /\ i <= c[k - 1]
      BY <2>0
    <2>2. CASE j = k
      BY <1>7, <2>0, <2>1, <2>2
    <2>3. CASE j < k
      <3>1. k - 1 \in 1..N /\ j <= k - 1
        BY <1>0, <2>3
      <3>2. a[k - 1] <= a[j] /\ c[k - 1] = a[k - 1]
        BY <1>1, <1>4, <3>1
      <3> QED
        BY <1>7, <2>0, <2>1, <3>2
    <2>4. CASE k < j
      <3>1. b[j] <= a[k] /\ a[k] < b[k]
        BY <1>1, <1>2, <2>4
      <3> QED
        BY <1>7, <2>0, <2>1, <3>1
    <2> QED
      BY <1>0, <2>2, <2>3, <2>4
  <1>8. ASSUME NEW j \in 1..N, NEW i \in 1..c[N], a[j] < i, i <= b[j]
        PROVE  FALSE
    <2>1. N \in 1..N /\ j <= N
      BY <1>0
    <2>2. a[N] <= a[j] /\ c[N] = a[N] /\ a[N] \in Nat /\ a[j] \in Nat
      BY <1>1, <1>4, <2>1
    <2> QED
      BY <1>8, <2>2
  <1>9. c[N] <= c[0]
    <2>1. N \in 0..N
      BY <1>0
    <2> QED
      BY <1>5, <2>1
  <1> QED
    BY <1>6, <1>7, <1>8, <1>9

LEMMA FlattenMiddle ==
    ASSUME NEW S, NEW s, NEW a, NEW b, NEW c, NEW u, NEW v, NEW w,
           Middle(Seq(S), s, a, b, c, u, v, w)
    PROVE  /\ Concat(FlattenSeq(w), FlattenSeq(u), FlattenSeq(v))
           /\ FlattenSeq(u) \in Seq(S) /\ FlattenSeq(v) \in Seq(S)
  <1>1. u \in Seq(Seq(S)) /\ v \in Seq(Seq(S)) /\ w = u \o v
    <2>1. PICK T : T = Seq(S)
      OBVIOUS
    <2>2. Middle(T, s, a, b, c, u, v, w)
      BY <2>1
    <2>3. u \in Seq(T) /\ v \in Seq(T) /\ Concat(w, u, v)
      BY <2>2, MiddleSplit
    <2> QED
      BY <2>1, <2>3 DEF Concat
  <1>2. FlattenSeq(u \o v) = FlattenSeq(u) \o FlattenSeq(v)
    BY <1>1, FlattenConcat
  <1>3. FlattenSeq(u) \in Seq(S) /\ FlattenSeq(v) \in Seq(S)
    BY <1>1, FlattenTyped
  <1> QED
    BY <1>1, <1>2, <1>3 DEF Concat

\* In x the findings after c are replaced, the text as far as c is as it was.
Done(t, part, c, x) ==
    x = SubSeq(t, 1, c) \o FlattenSeq(SubSeq(part, c + 1, Len(t)))

\* What is between the k-th finding and c is of no finding.
NextAt(t, ds, k, c) ==
    /\ k \in DOMAIN ds /\ Length(ds[k]) > 0
    /\ c \in Nat /\ ds[k].end <= c /\ c <= Len(t)
    /\ \A i \in (ds[k].end + 1)..c, l \in DOMAIN ds : ~Covers(ds[l], i)

LEMMA OneReplaced ==
    ASSUME NEW m \in MapperType, NEW t, NEW ds, Within(t, ds), Apart(ds), AllNumbered(m, ds),
           NEW w, w = SentFor(m, ds), NEW part, part = Parted(t, ds, w),
           NEW k, NEW c, NextAt(t, ds, k, c),
           NEW x, Done(t, part, c, x)
    PROVE  Done(t, part, ds[k].start, Spliced(x, ds[k], PlaceholderOf(m, ds[k])))
  <1>1. Instead(ds, w) /\ \A l \in DOMAIN ds : w[l] = PlaceholderOf(m, ds[l])
    BY SentIs
  <1>2. PICK n \in Nat : n = Len(t)
    BY SeqFacts DEF Within
  <1>3. part \in Seq(Seq(Symbols)) /\ Len(part) = n /\ t \in Seq(Symbols)
    BY <1>1, <1>2, PartedTyped DEF Within
  <1>4. PICK a \in Nat : a = ds[k].start
    BY WithinIs DEF NextAt
  <1>5. PICK b \in Nat : b = ds[k].end
    BY WithinIs DEF NextAt
  <1>6. k \in DOMAIN ds /\ c \in Nat /\ a <= b /\ b <= c /\ c <= n
    BY <1>2, <1>4, <1>5, WithinIs DEF NextAt
  <1>7. PICK P : P = SubSeq(part, a + 1, b)
    OBVIOUS
  <1>8. PICK G : G = SubSeq(part, b + 1, c)
    OBVIOUS
  <1>9. PICK R : R = SubSeq(part, c + 1, n)
    OBVIOUS
  <1>10. PICK W : W = SubSeq(part, b + 1, n)
    OBVIOUS
  <1>11. PICK Z : Z = SubSeq(part, a + 1, n)
    OBVIOUS
  <1>12. Concat(FlattenSeq(W), FlattenSeq(G), FlattenSeq(R)) /\ FlattenSeq(R) \in Seq(Symbols)
    <2>1. Middle(Seq(Symbols), part, b, c, n, G, R, W)
      BY <1>3, <1>6, <1>8, <1>9, <1>10 DEF Middle
    <2> QED
      BY <2>1, FlattenMiddle
  <1>13. Concat(FlattenSeq(Z), FlattenSeq(P), FlattenSeq(W))
    <2>1. Middle(Seq(Symbols), part, a, b, n, P, W, Z)
      <3>1. b <= n
        BY <1>6
      <3> QED
        BY <1>3, <1>6, <1>7, <1>10, <1>11, <3>1 DEF Middle
    <2> QED
      BY <2>1, FlattenMiddle
  <1>14. PICK p : p = PlaceholderOf(m, ds[k])
    OBVIOUS
  <1>15. p \in Seq(Symbols)
    BY <1>6, <1>14, PlaceholderOfTyped
  <1>16. FlattenSeq(P) = p
    <2>1. Length(ds[k]) > 0
      BY DEF NextAt
    <2>2. FlattenSeq(SubSeq(part, ds[k].start + 1, ds[k].end)) = PlaceholderOf(m, ds[k])
      BY <1>1, <1>6, <2>1, FindingReplaced
    <2> QED
      BY <1>4, <1>5, <1>7, <1>14, <2>2
  <1>17. FlattenSeq(G) = SubSeq(t, b + 1, c)
    <2>1. \A i \in (b + 1)..c, l \in DOMAIN ds : ~Covers(ds[l], i)
      BY <1>5 DEF NextAt
    <2>2. c <= Len(t)
      BY <1>2, <1>6
    <2>3. FlattenSeq(SubSeq(part, b + 1, c)) = SubSeq(t, b + 1, c)
      BY <1>1, <1>6, <2>1, <2>2, GapKept
    <2> QED
      BY <1>8, <2>3
  <1>18. PICK r : r = FlattenSeq(R)
    OBVIOUS
  <1>19. x = SubSeq(t, 1, c) \o r
    BY <1>2, <1>9, <1>18 DEF Done
  <1>20. PICK d : d = ds[k]
    OBVIOUS
  <1>21. Spliced(SubSeq(t, 1, c) \o r, d, p) =
            SubSeq(t, 1, a) \o (p \o (SubSeq(t, b + 1, c) \o r))
    <2>1. Ahead(t, d, a, b, c)
      BY <1>2, <1>3, <1>4, <1>5, <1>6, <1>20 DEF Ahead
    <2>2. r \in Seq(Symbols)
      BY <1>12, <1>18
    <2>3. SplicedAhead(t, d, a, b, c, r, p)
      BY <1>15, <2>1, <2>2, SplicedThere
    <2> QED
      BY <2>3 DEF SplicedAhead
  <1>22. FlattenSeq(Z) = p \o (SubSeq(t, b + 1, c) \o r)
    BY <1>12, <1>13, <1>16, <1>17, <1>18 DEF Concat
  <1>23. Spliced(x, d, p) = SubSeq(t, 1, a) \o FlattenSeq(Z)
    BY <1>19, <1>21, <1>22
  <1> QED
    BY <1>2, <1>4, <1>11, <1>14, <1>20, <1>23 DEF Done

\* The findings in the order in which they are replaced.
InTurn(t, ds, N, order, a, b, c) ==
    /\ a = [k \in 1..N |-> ds[order[k]].start]
    /\ b = [k \in 1..N |-> ds[order[k]].end]
    /\ c = [k \in 0..N |-> IF k = 0 THEN Len(t) ELSE ds[order[k]].start]

LEMMA OrderFalling ==
    ASSUME NEW t, NEW ds, Within(t, ds), Apart(ds), \A k \in DOMAIN ds : Length(ds[k]) > 0,
           NEW N \in Nat, NEW order, Sorts(DOMAIN ds, FromTheEnd(ds), N, order),
           NEW a, NEW b, NEW c, InTurn(t, ds, N, order, a, b, c)
    PROVE  Falling(N, a, b, c)
  <1>1. /\ a = [k \in 1..N |-> ds[order[k]].start]
        /\ b = [k \in 1..N |-> ds[order[k]].end]
        /\ c = [k \in 0..N |-> IF k = 0 THEN Len(t) ELSE ds[order[k]].start]
    BY DEF InTurn
  <1>2. /\ \A k \in 1..N : order[k] \in DOMAIN ds
        /\ \A i, j \in 1..N : i < j => <<order[i], order[j]>> \in FromTheEnd(ds)
    BY DEF Sorts
  <1>3. Len(t) \in Nat
    BY SeqFacts DEF Within
  <1>4. \A k \in 1..N : /\ a[k] \in Nat /\ b[k] \in Nat /\ a[k] < b[k] /\ b[k] <= Len(t)
                        /\ a[k] = ds[order[k]].start /\ b[k] = ds[order[k]].end
    <2> TAKE k \in 1..N
    <2>1. order[k] \in DOMAIN ds
      BY <1>2
    <2>2. PICK l \in DOMAIN ds : l = order[k]
      BY <2>1
    <2>3. ds[l].start \in Nat /\ ds[l].end \in Nat /\ ds[l].end <= Len(t)
      BY WithinIs
    <2>4. Length(ds[l]) > 0
      OBVIOUS
    <2>5. ds[l].start < ds[l].end
      BY <2>3, <2>4 DEF Length
    <2>6. a[k] = ds[l].start /\ b[k] = ds[l].end
      BY <1>1, <2>2
    <2> QED
      BY <2>2, <2>3, <2>5, <2>6
  <1>5. c[0] = Len(t) /\ \A k \in 1..N : c[k] = a[k]
    <2>1. \A k \in 0..N : c[k] = IF k = 0 THEN Len(t) ELSE ds[order[k]].start
      BY <1>1
    <2>2. 0 \in 0..N /\ \A k \in 1..N : k \in 0..N /\ k # 0
      OBVIOUS
    <2> QED
      BY <1>4, <2>1, <2>2
  <1>6. \A k \in 0..N : c[k] \in Nat
    <2> TAKE k \in 0..N
    <2>1. k = 0 \/ k \in 1..N
      OBVIOUS
    <2> QED
      BY <1>3, <1>4, <1>5, <2>1
  <1>7. \A i, j \in 1..N : i < j => b[j] <= a[i]
    <2> TAKE i, j \in 1..N
    <2> HAVE i < j
    <2>1. PICK x \in DOMAIN ds : x = order[i]
      BY <1>2
    <2>2. PICK y \in DOMAIN ds : y = order[j]
      BY <1>2
    <2>3. <<x, y>> \in FromTheEnd(ds)
      BY <1>2, <2>1, <2>2
    <2>4. Findings(ds)
      BY DEF Within
    <2>5. \/ ds[x].start > ds[y].start
          \/ (ds[x].start = ds[y].start /\ x < y)
      BY <2>3, <2>4, FromTheEndIs
    <2>6. x # y
      <3>1. StrictOrder(DOMAIN ds, FromTheEnd(ds))
        BY <2>4, FromTheEndOrder
      <3> QED
        BY <2>3, <3>1 DEF StrictOrder
    <2>7. ~Overlap(ds[x], ds[y])
      BY <2>6 DEF Apart
    <2>8. /\ a[i] = ds[x].start /\ b[i] = ds[x].end /\ a[j] = ds[y].start /\ b[j] = ds[y].end
          /\ a[i] \in Nat /\ b[i] \in Nat /\ a[j] \in Nat /\ b[j] \in Nat
          /\ a[i] < b[i]
      BY <1>4, <2>1, <2>2
    <2>9. a[j] <= a[i]
      BY <2>5, <2>8
    <2>10. ~(a[i] < b[j] /\ b[i] > a[j])
      BY <2>7, <2>8 DEF Overlap
    <2> QED
      BY <2>8, <2>9, <2>10
  <1> QED
    BY <1>4, <1>5, <1>6, <1>7 DEF Falling

\* What is sent is the text with each finding replaced in its place, because the
\* last is replaced first.
LEMMA ReplacedParts ==
    ASSUME NEW m \in MapperType, NEW t, NEW ds, Within(t, ds), Apart(ds), AllNumbered(m, ds),
           NEW w, w = SentFor(m, ds), NEW part, part = Parted(t, ds, w),
           \A k \in DOMAIN ds : Length(ds[k]) > 0
    PROVE  Replace(m, t, ds) = FlattenSeq(part)
  <1>1. Instead(ds, w)
    BY SentIs
  <1>2. PICK N \in Nat : N = Len(ds)
    BY DEF Within, Findings
  <1>3. PICK order, g : Splices(m, t, ds, N, order, g) /\ Replace(m, t, ds) = g[N]
    BY <1>2, ReplaceIs
  <1>4. /\ Sorts(DOMAIN ds, FromTheEnd(ds), N, order)
        /\ g[0] = t
        /\ \A k \in 1..N : g[k] = Spliced(g[k - 1], ds[order[k]],
                                          PlaceholderOf(m, ds[order[k]]))
    BY <1>3 DEF Splices
  <1>5. /\ \A k \in 1..N : order[k] \in DOMAIN ds
        /\ \A l \in DOMAIN ds : \E j \in 1..N : order[j] = l
    BY <1>4 DEF Sorts
  <1>6. PICK a, b, c : InTurn(t, ds, N, order, a, b, c)
    BY DEF InTurn
  <1>7. Falling(N, a, b, c)
    BY <1>4, <1>6, OrderFalling
  <1>8. /\ \A k \in 1..N : b[k] <= c[k - 1] /\ c[k - 1] <= c[0]
        /\ \A k, j \in 1..N : \A i \in (b[k] + 1)..c[k - 1] : ~(a[j] < i /\ i <= b[j])
        /\ \A j \in 1..N : \A i \in 1..c[N] : ~(a[j] < i /\ i <= b[j])
        /\ c[N] <= c[0]
    BY <1>7, FallingGaps
  <1>9. /\ \A k \in 1..N : a[k] = ds[order[k]].start /\ b[k] = ds[order[k]].end
        /\ c[0] = Len(t)
    <2>1. 0 \in 0..N
      OBVIOUS
    <2> QED
      BY <1>6, <2>1 DEF InTurn
  <1>10. \A k \in 0..N : c[k] \in Nat
    BY <1>7 DEF Falling
  <1>11. \A i : (\A j \in 1..N : ~(a[j] < i /\ i <= b[j])) => \A l \in DOMAIN ds : ~Covers(ds[l], i)
    <2> TAKE i
    <2> HAVE \A j \in 1..N : ~(a[j] < i /\ i <= b[j])
    <2> TAKE l \in DOMAIN ds
    <2>1. PICK j \in 1..N : order[j] = l
      BY <1>5
    <2>2. ~(a[j] < i /\ i <= b[j]) /\ a[j] = ds[l].start /\ b[j] = ds[l].end
      BY <1>9, <2>1
    <2> QED
      BY <2>2 DEF Covers
  <1>12. /\ part \in Seq(Seq(Symbols)) /\ Len(part) = Len(t) /\ Len(t) \in Nat
         /\ t \in Seq(Symbols)
    BY <1>1, PartedTyped DEF Within
  <1> DEFINE T == {k \in 0..N : Done(t, part, c[k], g[k])}
  <1>13. 0 \in T
    <2>1. PICK n \in Nat : n = Len(t)
      BY <1>12
    <2>2. SubSeq(part, n + 1, n) = <<>>
      <3>1. Len(SubSeq(part, n + 1, n)) = n - n /\ SubSeq(part, n + 1, n) \in Seq(Seq(Symbols))
        BY <1>12, <2>1, PartIs
      <3>2. n - n = 0
        OBVIOUS
      <3> QED
        BY <3>1, <3>2, NoLength
    <2>3. FlattenSeq(<<>>) = <<>>
      <3>1. PICK e : e = <<>>
        OBVIOUS
      <3>2. e \in Seq(Seq(Symbols)) /\ \A i \in 1..Len(e) : e[i] = <<>>
        BY <3>1
      <3> QED
        BY <3>1, <3>2, FlattenNothing
    <2>4. PICK u : u = SubSeq(t, 1, n)
      OBVIOUS
    <2>5. u = t
      <3>1. PICK z \in Nat : z = 0
        OBVIOUS
      <3>2. z <= n /\ n <= Len(t) /\ z + 1 = 1 /\ n - z = n
        BY <2>1, <3>1
      <3>3. /\ SubSeq(t, z + 1, n) \in Seq(Symbols) /\ Len(SubSeq(t, z + 1, n)) = n - z
            /\ \A k \in 1..(n - z) : SubSeq(t, z + 1, n)[k] = t[z + k]
        BY <1>12, <3>2, PartIs
      <3>4. u \in Seq(Symbols) /\ Len(u) = n /\ \A k \in 1..n : u[k] = t[z + k]
        BY <2>4, <3>2, <3>3
      <3>5. \A k \in 1..n : z + k = k
        BY <3>1
      <3>6. \A k \in 1..n : u[k] = t[k]
        BY <3>4, <3>5
      <3> QED
        BY <1>12, <2>1, <3>4, <3>6, Extensional
    <2>6. u \o <<>> = u
      BY <1>12, <2>5, EmptyNeutral
    <2>7. Done(t, part, n, t)
      BY <2>1, <2>2, <2>3, <2>4, <2>5, <2>6 DEF Done
    <2>8. 0 \in 0..N
      OBVIOUS
    <2> QED
      BY <1>4, <1>9, <2>1, <2>7, <2>8
  <1>14. ASSUME NEW k \in 1..N, k - 1 \in T PROVE k \in T
    <2>1. k - 1 \in 0..N /\ k \in 0..N
      OBVIOUS
    <2>2. Done(t, part, c[k - 1], g[k - 1])
      BY <1>14
    <2>3. PICK l \in DOMAIN ds : l = order[k]
      BY <1>5
    <2>4. NextAt(t, ds, l, c[k - 1])
      <3>1. c[k - 1] \in Nat /\ b[k] <= c[k - 1] /\ c[k - 1] <= Len(t) /\ b[k] = ds[l].end
        BY <1>8, <1>9, <1>10, <2>1, <2>3
      <3>2. \A i \in (b[k] + 1)..c[k - 1] : \A j \in DOMAIN ds : ~Covers(ds[j], i)
        BY <1>8, <1>11
      <3> QED
        BY <3>1, <3>2 DEF NextAt
    <2>5. PICK x : x = g[k - 1]
      OBVIOUS
    <2>6. PICK y : y = c[k - 1]
      OBVIOUS
    <2>7. Done(t, part, ds[l].start, Spliced(x, ds[l], PlaceholderOf(m, ds[l])))
      BY <2>2, <2>4, <2>5, <2>6, OneReplaced
    <2>8. g[k] = Spliced(x, ds[l], PlaceholderOf(m, ds[l])) /\ c[k] = ds[l].start
      <3>1. c[k] = a[k]
        BY <1>7 DEF Falling
      <3> QED
        BY <1>4, <1>9, <2>3, <2>5, <3>1
    <2> QED
      BY <2>1, <2>7, <2>8
  <1> HIDE DEF T
  <1>15. 0..N \subseteq T
    BY <1>13, <1>14, Induced
  <1>16. Done(t, part, c[N], g[N])
    BY <1>15, Range1 DEF T
  <1>17. PICK d \in Nat : d = c[N]
    BY <1>10, Range1
  <1>18. PICK n \in Nat : n = Len(t)
    BY <1>12
  <1>19. PICK z \in Nat : z = 0
    OBVIOUS
  <1>20. d <= n /\ n = Len(part) /\ z <= d /\ z + 1 = 1
    BY <1>8, <1>9, <1>12, <1>17, <1>18, <1>19
  <1>21. FlattenSeq(SubSeq(part, z + 1, d)) = SubSeq(t, z + 1, d)
    <2>1. \A i \in (z + 1)..d, l \in DOMAIN ds : ~Covers(ds[l], i)
      <3>1. \A i \in 1..d : \A l \in DOMAIN ds : ~Covers(ds[l], i)
        BY <1>8, <1>11, <1>17
      <3> QED
        BY <1>20, <3>1
    <2>2. z <= d /\ d <= Len(t)
      BY <1>18, <1>20
    <2> QED
      BY <1>1, <2>1, <2>2, GapKept
  <1>22. PICK U : U = SubSeq(part, z + 1, d)
    OBVIOUS
  <1>23. PICK V : V = SubSeq(part, d + 1, n)
    OBVIOUS
  <1>24. PICK W : W = SubSeq(part, z + 1, n)
    OBVIOUS
  <1>25. Concat(FlattenSeq(W), FlattenSeq(U), FlattenSeq(V))
    <2>1. Middle(Seq(Symbols), part, z, d, n, U, V, W)
      BY <1>12, <1>20, <1>22, <1>23, <1>24 DEF Middle
    <2> QED
      BY <2>1, FlattenMiddle
  <1>26. W = part
    <2>1. W \in Seq(Seq(Symbols)) /\ Len(W) = n - z /\ \A k \in 1..(n - z) : W[k] = part[z + k]
      BY <1>12, <1>19, <1>20, <1>24, PartIs
    <2>2. n - z = n /\ \A k \in 1..n : z + k = k
      BY <1>19
    <2>3. Len(W) = n /\ \A k \in 1..n : W[k] = part[k]
      BY <2>1, <2>2
    <2>4. PICK S : S = Seq(Symbols)
      OBVIOUS
    <2> QED
      BY <1>12, <1>20, <2>1, <2>3, <2>4, Extensional
  <1>27. g[N] = SubSeq(t, 1, d) \o FlattenSeq(V)
    BY <1>16, <1>17, <1>18, <1>23 DEF Done
  <1> QED
    BY <1>3, <1>20, <1>21, <1>22, <1>25, <1>26, <1>27 DEF Concat

(***************************************************************************)
(* What the model repeats is rehydrated to the message.                    *)
(***************************************************************************)
LEMMA PlaceholderParts ==
    ASSUME NEW type \in Types, NEW n \in Nat, NEW u, u = <<type, "_">>, NEW v, v = Numeral(n),
           NEW w, w = Placeholder(type, n)
    PROVE  Meet(Symbols, u, v, w, 2)
  <1>1. type \in Symbols /\ "_" \in Symbols
    <2>1. type \in Names \cup Letters
      BY RedactionAssumption
    <2> QED
      BY <2>1 DEF Symbols, Words
  <1>2. u \in Seq(Symbols) /\ Len(u) = 2
    <2>1. PICK x : x = "_"
      OBVIOUS
    <2>2. x \in Symbols
      BY <1>1, <2>1
    <2>3. <<type, x>> \in Seq(Symbols) /\ Len(<<type, x>>) = 2
      BY <1>1, <2>2, Pair
    <2> QED
      BY <2>1, <2>3
  <1>3. v \in Seq(Symbols)
    BY NumeralTyped
  <1>4. w = u \o v
    BY DEF Placeholder
  <1> QED
    BY <1>2, <1>3, <1>4 DEF Meet

LEMMA PlaceholdersDiffer ==
    ASSUME NEW a \in Types, NEW n \in Nat, NEW b \in Types, NEW o \in Nat,
           Placeholder(a, n) = Placeholder(b, o)
    PROVE  a = b /\ n = o
  <1>1. PICK u : u = <<a, "_">>
    OBVIOUS
  <1>2. PICK v : v = Numeral(n)
    OBVIOUS
  <1>3. PICK x : x = <<b, "_">>
    OBVIOUS
  <1>4. PICK y : y = Numeral(o)
    OBVIOUS
  <1>5. PICK w : w = Placeholder(a, n)
    OBVIOUS
  <1>6. PICK z : z = 2
    OBVIOUS
  <1>7. Meet(Symbols, u, v, w, z) /\ Meet(Symbols, x, y, w, z)
    BY <1>1, <1>2, <1>3, <1>4, <1>5, <1>6, PlaceholderParts
  <1>8. Met(u, v, w, z) /\ Met(x, y, w, z)
    BY <1>7, CutOff
  <1>9. u = x /\ v = y
    BY <1>8 DEF Met
  <1>10. a = b
    <2>1. u[1] = a /\ x[1] = b
      BY <1>1, <1>3
    <2> QED
      BY <1>9, <2>1
  <1>11. n = o
    BY <1>2, <1>4, <1>9, NumeralsDiffer
  <1> QED
    BY <1>10, <1>11

LEMMA OriginalIs ==
    ASSUME NEW m \in MapperType, NEW type \in Types, NEW n \in DOMAIN m[type]
    PROVE  Original(m, Placeholder(type, n)) = m[type][n] /\ n \in Nat
  <1>1. \A a \in Types : \A o \in DOMAIN m[a] : o \in Nat
    <2> TAKE a \in Types
    <2>1. m[a] \in Seq(Seq(Symbols))
      BY DEF MapperType
    <2>2. DOMAIN m[a] = 1..Len(m[a]) /\ Len(m[a]) \in Nat
      BY <2>1, SeqFacts
    <2> QED
      BY <2>2
  <1>2. PICK w : w = Placeholder(type, n)
    OBVIOUS
  <1> DEFINE numbered == UNION {{a} \X (DOMAIN m[a]) : a \in Types}
             owners == {o \in numbered : Placeholder(o[1], o[2]) = w}
  <1>3. <<type, n>> \in owners
    <2>1. <<type, n>> \in {type} \X (DOMAIN m[type])
      OBVIOUS
    <2>2. <<type, n>> \in numbered
      BY <2>1
    <2> QED
      BY <1>2, <2>2
  <1>4. ASSUME NEW o \in owners PROVE o = <<type, n>>
    <2>1. o \in numbered /\ Placeholder(o[1], o[2]) = w
      OBVIOUS
    <2>2. PICK a \in Types : o \in {a} \X (DOMAIN m[a])
      BY <2>1
    <2>3. PICK c \in DOMAIN m[a] : o = <<a, c>>
      BY <2>2
    <2>4. Placeholder(a, c) = Placeholder(type, n)
      BY <1>2, <2>1, <2>3
    <2>5. c \in Nat /\ n \in Nat
      BY <1>1
    <2>6. a = type /\ c = n
      BY <2>4, <2>5, PlaceholdersDiffer
    <2> QED
      BY <2>3, <2>6
  <1>5. owners = {<<type, n>>}
    <2> HIDE DEF owners
    <2> QED
      BY <1>3, <1>4
  <1>6. PICK o \in owners : Original(m, w) = m[o[1]][o[2]]
    <2>1. owners # {}
      BY <1>3
    <2> QED
      BY <2>1, Zenon DEF Original
  <1>7. o = <<type, n>>
    BY <1>4
  <1>8. Original(m, w) = m[type][n]
    BY <1>6, <1>7
  <1> QED
    BY <1>1, <1>2, <1>8

\* An entity's placeholder has one original, the value spelled as at first.
LEMMA OriginalOf ==
    ASSUME NEW m \in MapperType, NEW t, NEW ds, Within(t, ds), AllNumbered(m, ds),
           NEW k \in DOMAIN ds, NEW p, p = PlaceholderOf(m, ds[k])
    PROVE  /\ Original(m, p) = FirstSpelling(m, ds[k])
           /\ \E n \in Nat : p = Placeholder(ds[k].type, n)
  <1>1. PICK type : type = ds[k].type
    OBVIOUS
  <1>2. PICK n : n = NumberOf(m, ds[k])
    OBVIOUS
  <1>3. /\ n \in DOMAIN m[type] /\ n \in Nat
        /\ p = Placeholder(type, n) /\ FirstSpelling(m, ds[k]) = m[type][n]
    BY <1>1, <1>2, NumberIs
  <1>4. type \in Types
    BY <1>1, WithinIs
  <1>5. Original(m, p) = m[type][n]
    BY <1>3, <1>4, OriginalIs
  <1> QED
    BY <1>1, <1>3, <1>5

\* A placeholder that the pattern finds again.
Found(w, type) ==
    /\ w \in Seq(Symbols) /\ Len(w) = 2 + Width
    /\ type \in Names /\ w[1] = type /\ w[2] = "_"
    /\ \A x \in 3..(2 + Width) : w[x] \in Digits

LEMMA PlaceholderFound ==
    ASSUME NEW type \in Types, type \in Names, NEW n \in Nat,
           NEW w, w = Placeholder(type, n), Len(w) = 2 + Width
    PROVE  Found(w, type)
  <1>0. PICK u : u = <<type, "_">>
    OBVIOUS
  <1>1. PICK v : v = Numeral(n)
    OBVIOUS
  <1>2. Meet(Symbols, u, v, w, 2)
    BY <1>0, <1>1, PlaceholderParts
  <1>3. u \in Seq(Symbols) /\ v \in Seq(Symbols) /\ w = u \o v /\ Len(u) = 2
    BY <1>2 DEF Meet
  <1>4. Join(Symbols, u, v, w)
    BY <1>3, Joined
  <1>5. /\ w \in Seq(Symbols) /\ Len(w) = Len(u) + Len(v)
        /\ \A k \in 1..Len(u) : w[k] = u[k]
        /\ \A k \in 1..Len(v) : w[Len(u) + k] = v[k]
    BY <1>4 DEF Join
  <1>6. Len(v) \in Nat /\ Len(v) = Width
    BY <1>3, <1>5, WidthIs, SeqFacts
  <1>7. w[1] = type /\ w[2] = "_"
    <2>1. 1 \in 1..Len(u) /\ 2 \in 1..Len(u)
      BY <1>3
    <2>2. u[1] = type /\ u[2] = "_"
      BY <1>0
    <2> QED
      BY <1>5, <2>1, <2>2
  <1>8. \A x \in 1..Len(v) : v[x] \in Digits
    <2>0. PICK k \in Nat : \E g : Spelled(n, k, g)
      BY NumeralIs
    <2>1. PICK g : /\ Divides(n, k, g)
                   /\ Numeral(n) = [i \in 1..k |-> Digit[g[k - i] % Base]]
      BY <2>0 DEF Spelled
    <2>2. v = [i \in 1..k |-> Digit[g[k - i] % Base]]
      BY <1>1, <2>1
    <2>3. Len(v) = k
      BY <2>2
    <2>4. ASSUME NEW i \in 1..k PROVE Digit[g[k - i] % Base] \in Digits
      <3>1. k - i \in 0..k
        OBVIOUS
      <3>2. g[k - i] \in Nat
        BY <2>1, <3>1 DEF Divides
      <3>3. g[k - i] % Base \in 0..(Base - 1)
        BY <3>2, Divided
      <3> QED
        BY <3>3, RedactionAssumption DEF Digits, Range
    <2> QED
      BY <2>2, <2>3, <2>4
  <1>9. \A x \in 3..(2 + Width) : w[x] \in Digits
    <2> TAKE x \in 3..(2 + Width)
    <2>1. PICK k \in Nat : k = x - 2
      BY WidthIs
    <2>2. k \in 1..Len(v) /\ Len(u) + k = x
      BY <1>3, <1>6, <2>1, WidthIs
    <2>3. w[x] = v[k]
      BY <1>5, <2>2
    <2> QED
      BY <1>8, <2>2, <2>3
  <1> QED
    BY <1>5, <1>7, <1>9 DEF Found

LEMMA FoundWord ==
    ASSUME NEW w, NEW type, Found(w, type), NEW n \in Nat, n = Len(w)
    PROVE  /\ n \in 1..n /\ 1 \in 1..n /\ n > 2
           /\ \A k \in 1..n : w[k] \in Words
           /\ IsWord(w, 1, n) /\ PlaceholderAt(w, 1, n)
           /\ Clean(w, n) /\ WordsWhole(w)
  <1>0. w \in Seq(Symbols) /\ n = 2 + Width /\ Width \in Nat /\ Width >= 2
    BY WidthIs DEF Found
  <1>1. n \in 1..n /\ 1 \in 1..n /\ n > 2
    BY <1>0
  <1>2. /\ type \in Names /\ w[1] = type /\ w[2] = "_"
        /\ \A x \in 3..n : w[x] \in Digits
    BY <1>0 DEF Found
  <1>3. \A k \in 1..n : w[k] \in Words
    <2> TAKE k \in 1..n
    <2>1. k = 1 \/ k = 2 \/ k \in 3..n
      OBVIOUS
    <2> QED
      BY <1>2, <2>1 DEF Words
  <1>4. IsWord(w, 1, n)
    <2>1. WordStarts(w, 1) /\ WordEnds(w, n)
      BY <1>1, <1>3 DEF WordStarts, WordEnds
    <2> QED
      BY <1>1, <1>3, <2>1 DEF IsWord
  <1>5. Form(w, 1, n)
    <2>1. n - Width - 1 = 1 /\ n - Width = 2 /\ n - Width + 1 = 3
      BY <1>0
    <2>2. w[n - Width] = "_" /\ 1 <= n - Width - 1
      <3>1. 1 <= n - Width - 1
        BY <2>1
      <3>2. PICK x : x = n - Width
        OBVIOUS
      <3>3. x = 2
        BY <2>1, <3>2
      <3>4. w[x] = "_"
        BY <1>2, <3>3
      <3> QED
        BY <3>1, <3>2, <3>4
    <2>3. \A x \in (n - Width + 1)..n : w[x] \in Digits
      BY <1>2, <2>1
    <2>4. \A x \in 1..(n - Width - 1) : w[x] \in Names \cup {"_"}
      <3>1. \A x \in 1..(n - Width - 1) : x = 1
        BY <2>1
      <3>2. w[1] \in Names
        BY <1>2
      <3> QED
        BY <3>1, <3>2
    <2> QED
      BY <1>2, <2>2, <2>3, <2>4 DEF Form
  <1>6. PlaceholderAt(w, 1, n)
    <2>1. 1 \in 1..Len(w) /\ n \in 1..Len(w)
      BY <1>1
    <2> QED
      BY <1>0, <1>4, <1>5, <2>1, AtForm
  <1>7. Clean(w, n)
    <2> SUFFICES ASSUME NEW i \in 1..n, WordStarts(w, i), Partial(w, i, n)
                 PROVE  FALSE
      BY DEF Clean
    <2>1. i = 1
      <3>1. i # 1 => i - 1 \in 1..n
        OBVIOUS
      <3> QED
        BY <1>3, <3>1 DEF WordStarts
    <2>2. PICK k \in 1..n : PartialTo(w, 1, n, k)
      BY <2>1 DEF Partial
    <2>3. \A x \in 3..n : w[x] # "_" /\ w[x] \notin Names
      BY <1>2, DigitsApart
    <2>4. CASE n = k
      <3>1. n \in 3..n /\ n \in 1..k
        BY <1>1, <2>4
      <3> QED
        BY <2>2, <2>3, <3>1 DEF PartialTo
    <2>5. CASE n # k
      <3>1. n \in (k + 1)..(k + Width) /\ w[k + 1] = "_"
        BY <2>2, <2>5 DEF PartialTo
      <3>2. k + 1 \in 3..n
        <4>1. k \in Int /\ n \in Int /\ k + 1 \in Int /\ k + Width \in Int
          BY <1>0
        <4>2. k + 1 <= n /\ n <= k + Width
          BY <3>1, <4>1, InRange
        <4> QED
          BY <1>0, <4>1, <4>2
      <3> QED
        BY <2>3, <3>1, <3>2
    <2> QED
      BY <2>4, <2>5
  <1>8. WordsWhole(w)
    <2> SUFFICES ASSUME NEW i \in DOMAIN w, NEW j \in DOMAIN w
                 PROVE  \E h \in 1..i, k \in j..Len(w) : PlaceholderAt(w, h, k)
      BY DEF WordsWhole
    <2>1. DOMAIN w = 1..n
      BY <1>0, SeqFacts
    <2>2. 1 \in 1..i /\ n \in j..Len(w)
      BY <2>1
    <2> QED
      BY <1>6, <2>2
  <1> QED
    BY <1>1, <1>3, <1>4, <1>6, <1>7, <1>8

\* From its first symbol to its last, w is a placeholder.
Only(w) == w \in Seq(Symbols) /\ PlaceholderAt(w, 1, Len(w))

\* It is rehydrated to its original.
LEMMA PlaceholderRehydrated ==
    ASSUME NEW m \in MapperType, NEW w, Only(w)
    PROVE  Rehydrate(m, w) = Original(m, w)
  <1>0. w \in Seq(Symbols)
    BY DEF Only
  <1>1. PICK n \in Nat : n = Len(w)
    BY <1>0, SeqFacts
  <1>2. /\ n \in 1..n /\ 1 \in 1..n
        /\ \A k \in 1..n : w[k] \in Words
        /\ IsWord(w, 1, n) /\ PlaceholderAt(w, 1, n)
    <2>1. IsWord(w, 1, n) /\ PlaceholderAt(w, 1, n)
      BY <1>1 DEF Only, PlaceholderAt
    <2>2. 1 <= n /\ \A k \in 1..n : w[k] \in Words
      BY <2>1 DEF IsWord
    <2> QED
      BY <2>1, <2>2
  <1>3. PICK F : F = [i \in DOMAIN w |-> RehydratedAt(m, w, i)]
    OBVIOUS
  <1>4. PICK T : T = Seq(Shown)
    OBVIOUS
  <1>5. w \in Seq(Shown)
    BY <1>0, SymbolsShown
  <1>6. /\ F \in Seq(T) /\ Len(F) = n
        /\ \A i \in 1..n : F[i] = RehydratedAt(m, w, i)
        /\ Rehydrate(m, w) = FlattenSeq(F)
    BY <1>1, <1>3, <1>4, <1>5, RehydrateParts
  <1>7. F[1] = Original(m, w)
    <2>1. PICK x : x = 1
      OBVIOUS
    <2>2. x \in 1..Len(w) /\ n \in x..Len(w) /\ PlaceholderAt(w, x, n)
      BY <1>1, <1>2, <2>1
    <2>3. RehydratedAt(m, w, x) = Original(m, SubSeq(w, x, n))
      BY <1>5, <2>2, AtPlaceholder
    <2>4. SubSeq(w, 1, n) = w
      BY <1>0, <1>1
    <2> QED
      BY <1>2, <1>6, <2>1, <2>3, <2>4
  <1>8. \A i \in 2..n : F[i] = <<>>
    <2> TAKE i \in 2..n
    <2>1. i \in 1..Len(w) /\ i - 1 \in 1..n /\ 1 \in 1..i /\ n \in i..Len(w) /\ i # 1
      BY <1>1
    <2>2. ~Begins(w, i)
      BY <1>2, <2>1 DEF Begins, PlaceholderAt, IsWord, WordStarts
    <2>3. ~Plain(w, i)
      BY <1>2, <2>1 DEF Plain
    <2>4. RehydratedAt(m, w, i) = IF Plain(w, i) THEN <<w[i]>> ELSE <<>>
      BY <1>5, <2>1, <2>2, NotBeginning
    <2> QED
      BY <1>6, <2>1, <2>3, <2>4
  <1>9. PICK a \in Nat : a = 0
    OBVIOUS
  <1>10. PICK b \in Nat : b = 1
    OBVIOUS
  <1>11. PICK u : u = SubSeq(F, a + 1, b)
    OBVIOUS
  <1>12. PICK v : v = SubSeq(F, b + 1, n)
    OBVIOUS
  <1>13. PICK z : z = SubSeq(F, a + 1, n)
    OBVIOUS
  <1>14. Middle(T, F, a, b, n, u, v, z)
    <2>1. a <= b /\ b <= n /\ n <= Len(F)
      BY <1>2, <1>6, <1>9, <1>10
    <2> QED
      BY <1>6, <1>11, <1>12, <1>13, <2>1 DEF Middle
  <1>15. Concat(FlattenSeq(z), FlattenSeq(u), FlattenSeq(v))
    BY <1>4, <1>14, FlattenMiddle
  <1>16. /\ u \in Seq(T) /\ v \in Seq(T) /\ z \in Seq(T)
         /\ Len(u) = b - a /\ Len(v) = n - b
    BY <1>14, MiddleSplit
  <1>17. b - a = 1 /\ a + 1 = 1 /\ b + 1 = 2 /\ n - a = n
    BY <1>9, <1>10
  <1>18. FlattenSeq(u) = Original(m, w)
    <2>1. a <= b /\ b <= Len(F) /\ 1 \in 1..(b - a)
      BY <1>2, <1>6, <1>9, <1>10
    <2>2. \A k \in 1..(b - a) : SubSeq(F, a + 1, b)[k] = F[a + k]
      BY <1>6, <2>1, PartIs
    <2>3. u[1] = F[1]
      BY <1>11, <1>17, <2>1, <2>2
    <2>4. Len(u) = 1
      BY <1>16, <1>17
    <2>5. FlattenSeq(u) = u[1]
      BY <1>4, <1>16, <2>4, FlattenOne
    <2> QED
      BY <1>7, <2>3, <2>5
  <1>19. FlattenSeq(v) = <<>>
    <2>1. b <= n /\ n <= Len(F)
      BY <1>2, <1>6, <1>10
    <2>2. \A k \in 1..(n - b) : SubSeq(F, b + 1, n)[k] = F[b + k]
      BY <1>6, <2>1, PartIs
    <2>3. \A k \in 1..(n - b) : b + k \in 2..n
      BY <1>10
    <2>4. \A k \in 1..Len(v) : v[k] = <<>>
      BY <1>8, <1>12, <1>16, <2>2, <2>3
    <2> QED
      BY <1>4, <1>16, <2>4, FlattenNothing
  <1>20. z = F
    <2>1. a <= n /\ n <= Len(F)
      BY <1>2, <1>6, <1>9
    <2>2. Len(SubSeq(F, a + 1, n)) = n - a /\ \A k \in 1..(n - a) : SubSeq(F, a + 1, n)[k] = F[a + k]
      BY <1>6, <2>1, PartIs
    <2>3. \A k \in 1..n : a + k = k
      BY <1>9
    <2>4. Len(z) = n /\ \A k \in 1..n : z[k] = F[k]
      BY <1>13, <1>17, <2>2, <2>3
    <2> QED
      BY <1>6, <1>16, <2>4, Extensional
  <1>21. Original(m, w) \o <<>> = Original(m, w)
    BY OriginalTyped, EmptyNeutral
  <1> QED
    BY <1>6, <1>15, <1>18, <1>19, <1>20, <1>21 DEF Concat

LEMMA FoundRehydrated ==
    ASSUME NEW m \in MapperType, NEW w, NEW type, Found(w, type)
    PROVE  Rehydrate(m, w) = Original(m, w)
  <1>1. w \in Seq(Symbols)
    BY DEF Found
  <1>2. PICK n \in Nat : n = Len(w)
    BY <1>1, SeqFacts
  <1>3. Only(w)
    BY <1>1, <1>2, FoundWord DEF Only
  <1> QED
    BY <1>3, PlaceholderRehydrated

\* No placeholder is in s.
Formless(s) == \A i, j \in DOMAIN s : ~PlaceholderAt(s, i, j)

LEMMA FormlessIs ==
    ASSUME NEW S, NEW s \in Seq(S)
    PROVE  Formless(s) <=> \A i \in 1..Len(s) : \A j \in i..Len(s) : ~PlaceholderAt(s, i, j)
  <1>1. DOMAIN s = 1..Len(s) /\ Len(s) \in Nat
    BY SeqFacts
  <1>2. \A i \in 1..Len(s) : i..Len(s) \subseteq 1..Len(s)
    BY <1>1
  <1>3. ASSUME NEW i \in 1..Len(s), NEW j \in 1..Len(s), PlaceholderAt(s, i, j)
        PROVE  j \in i..Len(s)
    <2>1. i <= j
      BY <1>3 DEF PlaceholderAt, IsWord
    <2> QED
      BY <1>1, <2>1
  <1> QED
    BY <1>1, <1>2, <1>3 DEF Formless

LEMMA FormlessRehydrated ==
    ASSUME NEW m \in MapperType, NEW s \in Seq(Symbols), Formless(s)
    PROVE  Rehydrate(m, s) = s
  <1>2. \A i \in 1..Len(s) : \A j \in i..Len(s) : ~PlaceholderAt(s, i, j)
    BY FormlessIs
  <1>3. PICK N \in Nat : N = Len(s)
    BY SeqFacts
  <1>4. s \in Seq(Shown)
    BY SymbolsShown
  <1>5. PICK F : F = [i \in DOMAIN s |-> RehydratedAt(m, s, i)]
    OBVIOUS
  <1>6. /\ Len(F) = N
        /\ \A i \in 1..N : F[i] = RehydratedAt(m, s, i)
        /\ Rehydrate(m, s) = FlattenSeq(F)
    BY <1>3, <1>4, <1>5, RehydrateParts
  <1>7. \A i \in 1..N : F[i] = <<s[i]>>
    <2> TAKE i \in 1..N
    <2>1. ~Begins(s, i)
      BY <1>2, <1>3 DEF Begins
    <2>2. Plain(s, i)
      <3> SUFFICES ASSUME NEW h \in 1..i, NEW j \in i..Len(s) PROVE ~PlaceholderAt(s, h, j)
        BY DEF Plain
      <3>1. h \in 1..Len(s) /\ j \in h..Len(s)
        BY <1>3
      <3> QED
        BY <1>2, <3>1
    <2>3. RehydratedAt(m, s, i) = IF Plain(s, i) THEN <<s[i]>> ELSE <<>>
      BY <1>3, <2>1, NotBeginning
    <2> QED
      BY <1>6, <2>2, <2>3
  <1>8. F \in Seq(Seq(Symbols))
    <2>1. F = [i \in 1..N |-> <<s[i]>>]
      <3>1. DOMAIN s = 1..N
        BY <1>3, SeqFacts
      <3> QED
        BY <1>5, <1>7, <3>1
    <2>2. \A i \in 1..N : <<s[i]>> \in Seq(Symbols)
      BY <1>3, SeqFacts
    <2> QED
      BY <2>1, <2>2
  <1>9. FlattenSeq(F) = s
    BY <1>3, <1>6, <1>7, <1>8, FlattenSymbols
  <1> QED
    BY <1>6, <1>9

\* Nothing in s has the form of a placeholder.
NoForm(s) == \A i, j \in DOMAIN s : i <= j => ~IsPlaceholder(SubSeq(s, i, j))

LEMMA NoFormIs ==
    ASSUME NEW s \in Seq(Symbols)
    PROVE  NoForm(s) <=> \A i \in 1..Len(s) : \A j \in i..Len(s) : ~Form(s, i, j)
  <1>1. DOMAIN s = 1..Len(s) /\ Len(s) \in Nat
    BY SeqFacts
  <1>2. \A i \in 1..Len(s) : \A j \in i..Len(s) : IsPlaceholder(SubSeq(s, i, j)) <=> Form(s, i, j)
    BY PlaceholderIn
  <1>3. NoForm(s) <=> \A i, j \in 1..Len(s) : i <= j => ~IsPlaceholder(SubSeq(s, i, j))
    BY <1>1 DEF NoForm
  <1>4. ASSUME NoForm(s), NEW i \in 1..Len(s), NEW j \in i..Len(s) PROVE ~Form(s, i, j)
    <2>1. j \in 1..Len(s) /\ i <= j
      BY <1>1
    <2> QED
      BY <1>2, <1>3, <1>4, <2>1
  <1>5. ASSUME \A i \in 1..Len(s) : \A j \in i..Len(s) : ~Form(s, i, j),
               NEW i \in 1..Len(s), NEW j \in 1..Len(s), i <= j
        PROVE  ~IsPlaceholder(SubSeq(s, i, j))
    <2>1. j \in i..Len(s)
      BY <1>1, <1>5
    <2> QED
      BY <1>2, <1>5, <2>1
  <1> QED
    BY <1>3, <1>4, <1>5

LEMMA PartNoForm ==
    ASSUME NEW s \in Seq(Symbols), NoForm(s), NEW a \in Nat, NEW b \in Nat, a <= b, b <= Len(s),
           NEW u, u = SubSeq(s, a + 1, b)
    PROVE  u \in Seq(Symbols) /\ NoForm(u)
  <1>1. Len(s) \in Nat
    BY SeqFacts
  <1>2. u \in Seq(Symbols) /\ Len(u) = b - a /\ \A k \in 1..(b - a) : u[k] = s[a + k]
    BY PartIs
  <1>3. ASSUME NEW i \in 1..Len(u), NEW j \in i..Len(u), Form(u, i, j) PROVE FALSE
    <2>1. /\ i \in Int /\ j \in Int /\ a \in Int
          /\ i + a \in 1..Len(s) /\ j + a \in (i + a)..Len(s)
      BY <1>1, <1>2
    <2>2. Shifted(u, s, a, i, j)
      <3>1. \A x \in i..j : x \in 1..(b - a) /\ x + a = a + x
        BY <1>2
      <3> QED
        BY <1>2, <3>1 DEF Shifted
    <2>3. Form(s, i + a, j + a)
      BY <1>3, <2>1, <2>2, FormShifted
    <2>4. \A x \in 1..Len(s) : \A y \in x..Len(s) : ~Form(s, x, y)
      BY NoFormIs
    <2> QED
      BY <2>1, <2>3, <2>4
  <1> QED
    BY <1>2, <1>3, NoFormIs

LEMMA NoFormRehydrated ==
    ASSUME NEW m \in MapperType, NEW s \in Seq(Symbols), NoForm(s)
    PROVE  WordsWhole(s) /\ Rehydrate(m, s) = s
  <1>1. WordsWhole(s)
    BY DEF NoForm, WordsWhole
  <1>2. \A i \in 1..Len(s) : \A j \in i..Len(s) : ~PlaceholderAt(s, i, j)
    <2>1. \A i \in 1..Len(s) : \A j \in i..Len(s) : ~Form(s, i, j)
      BY NoFormIs
    <2> QED
      BY <2>1, AtForm
  <1>3. Formless(s)
    BY <1>2, FormlessIs
  <1> QED
    BY <1>1, <1>3, FormlessRehydrated

\* Two parts of a text that share no word and are rehydrated one by one.
Seam(u, v, w) ==
    /\ u \in Seq(Symbols) /\ v \in Seq(Symbols) /\ Concat(w, u, v)
    /\ WordsWhole(u) /\ WordsWhole(v)
    /\ \/ u = <<>> \/ v = <<>>
       \/ u[Len(u)] \notin Words
       \/ Clean(u, Len(u)) /\ v[1] \notin Words

\* The word at n ends there.
Broken(s, n) == s[n] \notin Words \/ s[n + 1] \notin Words

LEMMA BrokenWhole ==
    ASSUME NEW S, NEW s, NEW n, NEW a, NEW b, Cut(S, s, n, a, b), Broken(s, n),
           n > 0, n < Len(s), WordsWhole(a), WordsWhole(b)
    PROVE  WordsWhole(s)
  <1>1. /\ n \in Nat /\ Len(s) \in Nat /\ Len(b) \in Nat /\ Len(s) = n + Len(b) /\ Len(a) = n
        /\ s \in Seq(S) /\ a \in Seq(S) /\ b \in Seq(S) /\ n \in 0..Len(s)
        /\ DOMAIN s = 1..Len(s)
    BY CutTypes
  <1>2. SUFFICES ASSUME NEW i \in 1..Len(s), NEW j \in 1..Len(s), i <= j,
                        IsPlaceholder(SubSeq(s, i, j))
                 PROVE  \E h \in 1..i, k \in j..Len(s) : PlaceholderAt(s, h, k)
    BY <1>1 DEF WordsWhole
  <1>3. j \in i..Len(s) /\ i \in Int /\ j \in Int
    BY <1>1, <1>2
  <1>4. Form(s, i, j)
    BY <1>1, <1>2, <1>3, PlaceholderIn
  <1>5. \A x \in i..j : s[x] \in Words
    <2> TAKE x \in i..j
    <2>1. Width \in Nat
      BY WidthIs
    <2>2. \/ x \in i..(j - Width - 1)
          \/ x = j - Width
          \/ x \in (j - Width + 1)..j
      BY <2>1
    <2>3. \/ s[x] \in Names \cup {"_"}
          \/ s[x] = "_"
          \/ s[x] \in Digits
      BY <1>4, <2>2 DEF Form
    <2> QED
      BY <2>3 DEF Words
  <1>6. j <= n \/ i > n
    <2>1. i <= n /\ n < j => n \in i..j /\ n + 1 \in i..j
      BY <1>1
    <2> QED
      BY <1>1, <1>5, <2>1 DEF Broken
  <1>7. CASE j <= n
    <2>1. i \in 1..n /\ j \in i..n /\ j \in 1..n /\ i \in 1..Len(a) /\ j \in i..Len(a)
      BY <1>1, <1>2, <1>7
    <2>2. Form(a, i, j)
      BY <1>4, <2>1, CutForms
    <2>3. PICK h \in 1..i, k \in j..Len(a) : PlaceholderAt(a, h, k)
      BY <1>1, <2>1, <2>2, Whole
    <2>4. h \in 1..n /\ k \in h..n /\ k \in 1..n /\ h \in 1..Len(a) /\ k \in h..Len(a)
      BY <1>1, <2>1
    <2>5. IsWord(a, h, k) /\ Form(a, h, k)
      BY <1>1, <2>3, <2>4, AtForm
    <2>6. Form(s, h, k)
      BY <2>4, <2>5, CutForms
    <2>7. IsWord(s, h, k)
      <3>1. /\ k # n /\ IsWord(a, h, k) => IsWord(s, h, k)
            /\ IsWord(a, h, k) => \A x \in h..k : s[x] \in Words
            /\ IsWord(a, h, k) => WordStarts(s, h)
        BY <2>4, LeftWords
      <3>2. CASE k = n
        <4>1. k \in h..k /\ h <= k
          BY <2>4
        <4>2. s[n] \in Words
          BY <2>5, <3>1, <3>2, <4>1
        <4>3. WordEnds(s, k)
          BY <3>2, <4>2 DEF Broken, WordEnds
        <4> QED
          BY <2>5, <3>1, <4>1, <4>3 DEF IsWord
      <3> QED
        BY <2>5, <3>1, <3>2
    <2>8. h \in 1..Len(s) /\ k \in h..Len(s) /\ k \in j..Len(s)
      BY <1>1, <2>1, <2>4
    <2>9. PlaceholderAt(s, h, k)
      BY <1>1, <2>6, <2>7, <2>8, AtForm
    <2> QED
      BY <2>8, <2>9
  <1>8. CASE i > n
    <2>1. PICK x \in Int : x = i - n
      BY <1>1
    <2>2. PICK y \in Int : y = j - n
      BY <1>1
    <2>3. /\ x \in 1..Len(b) /\ y \in x..Len(b) /\ y \in 1..Len(b)
          /\ x + n = i /\ y + n = j
      BY <1>1, <1>2, <1>8, <2>1, <2>2
    <2>4. Form(b, x, y)
      BY <1>4, <2>3, CutForms
    <2>5. PICK h \in 1..x, k \in y..Len(b) : PlaceholderAt(b, h, k)
      BY <1>1, <2>3, <2>4, Whole
    <2>6. h \in 1..Len(b) /\ k \in h..Len(b) /\ k \in 1..Len(b)
      BY <1>1, <2>3
    <2>7. IsWord(b, h, k) /\ Form(b, h, k)
      BY <1>1, <2>5, <2>6, AtForm
    <2>8. Form(s, h + n, k + n)
      BY <2>6, <2>7, CutForms
    <2>9. IsWord(s, h + n, k + n)
      <3>1. /\ h = 1 \/ s[(h + n) - 1] \notin Words
            /\ WordEnds(s, k + n)
            /\ s[h + n] \in Words
            /\ \A z \in (h + n)..(k + n) : s[z] \in Words
        BY <2>6, <2>7, RightWords
      <3>2. h = 1 => (h + n) - 1 = n /\ h + n = n + 1
        BY <1>1
      <3>3. s[(h + n) - 1] \notin Words
        BY <3>1, <3>2 DEF Broken
      <3>4. h + n <= k + n
        BY <1>1, <2>6
      <3> QED
        BY <3>1, <3>3, <3>4 DEF IsWord, WordStarts
    <2>10. h + n \in 1..i /\ k + n \in j..Len(s) /\ h + n \in 1..Len(s) /\ k + n \in (h + n)..Len(s)
      BY <1>1, <2>3, <2>6
    <2>11. PlaceholderAt(s, h + n, k + n)
      BY <1>1, <2>8, <2>9, <2>10, AtForm
    <2> QED
      BY <2>10, <2>11
  <1> QED
    BY <1>6, <1>7, <1>8

LEMMA SeamRehydrated ==
    ASSUME NEW m \in MapperType, NEW u, NEW v, NEW w, Seam(u, v, w)
    PROVE  /\ WordsWhole(w)
           /\ Concat(Rehydrate(m, w), Rehydrate(m, u), Rehydrate(m, v))
  <1>1. /\ u \in Seq(Symbols) /\ v \in Seq(Symbols) /\ w = u \o v
        /\ WordsWhole(u) /\ WordsWhole(v)
    BY DEF Seam, Concat
  <1>2. u \in Seq(Shown) /\ v \in Seq(Shown)
    BY <1>1, SymbolsShown
  <1>3. Rehydrate(m, u) \in Seq(Symbols) /\ Rehydrate(m, v) \in Seq(Symbols)
    BY <1>1, RehydrateTyped
  <1>4. CASE u = <<>>
    <2>1. w = v
      BY <1>1, <1>4, EmptyNeutral
    <2>2. Rehydrate(m, u) = <<>>
      BY <1>4, RehydrateNothing
    <2>3. <<>> \o Rehydrate(m, v) = Rehydrate(m, v)
      BY <1>3, EmptyNeutral
    <2> QED
      BY <1>1, <2>1, <2>2, <2>3 DEF Concat
  <1>5. CASE v = <<>>
    <2>1. w = u
      BY <1>1, <1>5, EmptyNeutral
    <2>2. Rehydrate(m, v) = <<>>
      BY <1>5, RehydrateNothing
    <2>3. Rehydrate(m, u) \o <<>> = Rehydrate(m, u)
      BY <1>3, EmptyNeutral
    <2> QED
      BY <1>1, <2>1, <2>2, <2>3 DEF Concat
  <1>6. CASE u # <<>> /\ v # <<>>
    <2>1. PICK n : n = Len(u)
      OBVIOUS
    <2>2. Join(Shown, u, v, w)
      BY <1>1, <1>2, Joined
    <2>3. /\ w \in Seq(Shown) /\ Len(w) = n + Len(v)
          /\ \A k \in 1..n : w[k] = u[k]
          /\ \A k \in 1..Len(v) : w[n + k] = v[k]
      BY <2>1, <2>2 DEF Join
    <2>4. n \in Nat /\ Len(v) \in Nat /\ n > 0 /\ Len(v) > 0
      <3>1. n \in Nat /\ Len(v) \in Nat
        BY <1>1, <2>1, SeqFacts
      <3>2. n # 0 /\ Len(v) # 0
        BY <1>1, <1>6, <2>1, NoLength
      <3> QED
        BY <3>1, <3>2
    <2>5. Cut(Shown, w, n, u, v)
      <3>1. n \in 0..Len(w) /\ Len(u) = n /\ Len(v) = Len(w) - n /\ \A k \in 1..Len(v) : n + k = k + n
        BY <2>1, <2>3, <2>4
      <3> QED
        BY <1>2, <2>3, <3>1 DEF Cut
    <2>6. w[n] = u[n] /\ w[n + 1] = v[1]
      <3>1. n \in 1..n /\ 1 \in 1..Len(v)
        BY <2>4
      <3> QED
        BY <2>3, <3>1
    <2>7. u[n] \notin Words \/ (Clean(u, n) /\ v[1] \notin Words)
      BY <1>6, <2>1 DEF Seam
    <2>8. Clean(w, n)
      <3>1. CASE u[n] \notin Words
        <4>1. \A i \in 1..n : n \in i..n
          BY <2>4
        <4> QED
          BY <2>6, <3>1, <4>1 DEF Clean
      <3>2. CASE Clean(u, n)
        BY <2>3, <2>4, <3>2, CleanSame
      <3> QED
        BY <2>7, <3>1, <3>2
    <2>9. WordsWhole(w)
      <3>1. Broken(w, n)
        BY <2>6, <2>7 DEF Broken
      <3>2. n < Len(w)
        BY <2>3, <2>4
      <3> QED
        BY <1>1, <2>4, <2>5, <3>1, <3>2, BrokenWhole
    <2>10. CleanCut(Shown, w, n, u, v)
      BY <2>5, <2>8, <2>9 DEF CleanCut
    <2>11. Rehydrate(m, w) = Rehydrate(m, u) \o Rehydrate(m, v)
      BY <2>10, RehydrateSplit
    <2> QED
      BY <2>9, <2>11 DEF Concat
  <1> QED
    BY <1>4, <1>5, <1>6

\* What is sent as x is rehydrated to y.
Restores(m, x, y) == x \in Seq(Symbols) /\ WordsWhole(x) /\ Rehydrate(m, x) = y

LEMMA SeamRestores ==
    ASSUME NEW m \in MapperType, NEW u, NEW v, NEW w, Seam(u, v, w), NEW y, NEW z, NEW s,
           Concat(s, y, z), Restores(m, u, y), Restores(m, v, z)
    PROVE  Restores(m, w, s)
  <1>1. /\ u \in Seq(Symbols) /\ v \in Seq(Symbols)
        /\ Rehydrate(m, u) = y /\ Rehydrate(m, v) = z
    BY DEF Restores
  <1>2. WordsWhole(w) /\ Concat(Rehydrate(m, w), Rehydrate(m, u), Rehydrate(m, v))
    BY SeamRehydrated
  <1>3. w \in Seq(Symbols)
    <2>1. w = u \o v
      BY DEF Seam, Concat
    <2>2. Join(Symbols, u, v, w)
      BY <1>1, <2>1, Joined
    <2> QED
      BY <2>2 DEF Join
  <1>4. Rehydrate(m, w) = s
    BY <1>1, <1>2 DEF Concat
  <1> QED
    BY <1>2, <1>3, <1>4 DEF Restores

\* The parts of what is sent, and of what is to be shown.
Repeated(m, t, ds, part, back) ==
    part = Parted(t, ds, SentFor(m, ds)) /\ back = Parted(t, ds, ShownFor(m, ds))

LEMMA RepeatedParts ==
    ASSUME NEW m \in MapperType, NEW t, NEW ds, Within(t, ds), Apart(ds), AllNumbered(m, ds),
           NEW part, NEW back, Repeated(m, t, ds, part, back), NEW n, n = Len(t)
    PROVE  /\ part \in Seq(Seq(Symbols)) /\ Len(part) = n
           /\ back \in Seq(Seq(Symbols)) /\ Len(back) = n
           /\ t \in Seq(Symbols) /\ n \in Nat
  <1>1. PICK w : w = SentFor(m, ds)
    OBVIOUS
  <1>2. PICK x : x = ShownFor(m, ds)
    OBVIOUS
  <1>3. part = Parted(t, ds, w) /\ back = Parted(t, ds, x)
    BY <1>1, <1>2 DEF Repeated
  <1>4. Instead(ds, w) /\ Instead(ds, x)
    BY <1>1, <1>2, SentIs, ShownIs
  <1>5. part \in Seq(Seq(Symbols)) /\ Len(part) = Len(t) /\ Len(t) \in Nat
    BY <1>3, <1>4, PartedTyped
  <1>6. back \in Seq(Seq(Symbols)) /\ Len(back) = Len(t)
    BY <1>3, <1>4, PartedTyped
  <1>7. t \in Seq(Symbols)
    BY DEF Within
  <1> QED
    BY <1>5, <1>6, <1>7

LEMMA RepeatedGap ==
    ASSUME NEW m \in MapperType, NEW t, NEW ds, Within(t, ds), Apart(ds), AllNumbered(m, ds),
           NEW part, NEW back, Repeated(m, t, ds, part, back),
           NEW a \in Nat, NEW b \in Nat, a <= b, b <= Len(t),
           \A i \in (a + 1)..b, k \in DOMAIN ds : ~Covers(ds[k], i)
    PROVE  /\ FlattenSeq(SubSeq(part, a + 1, b)) = SubSeq(t, a + 1, b)
           /\ FlattenSeq(SubSeq(back, a + 1, b)) = SubSeq(t, a + 1, b)
  <1>1. PICK w : w = SentFor(m, ds)
    OBVIOUS
  <1>2. PICK x : x = ShownFor(m, ds)
    OBVIOUS
  <1>3. part = Parted(t, ds, w) /\ back = Parted(t, ds, x)
    BY <1>1, <1>2 DEF Repeated
  <1>4. Instead(ds, w) /\ Instead(ds, x)
    BY <1>1, <1>2, SentIs, ShownIs
  <1>5. FlattenSeq(SubSeq(part, a + 1, b)) = SubSeq(t, a + 1, b)
    BY <1>3, <1>4, GapKept
  <1>6. FlattenSeq(SubSeq(back, a + 1, b)) = SubSeq(t, a + 1, b)
    BY <1>3, <1>4, GapKept
  <1> QED
    BY <1>5, <1>6

LEMMA RepeatedFinding ==
    ASSUME NEW m \in MapperType, NEW t, NEW ds, Within(t, ds), Apart(ds), AllNumbered(m, ds),
           NEW part, NEW back, Repeated(m, t, ds, part, back),
           NEW k \in DOMAIN ds, Length(ds[k]) > 0
    PROVE  /\ FlattenSeq(SubSeq(part, ds[k].start + 1, ds[k].end)) = PlaceholderOf(m, ds[k])
           /\ FlattenSeq(SubSeq(back, ds[k].start + 1, ds[k].end)) = FirstSpelling(m, ds[k])
  <1>1. PICK w : w = SentFor(m, ds)
    OBVIOUS
  <1>2. PICK x : x = ShownFor(m, ds)
    OBVIOUS
  <1>3. part = Parted(t, ds, w) /\ back = Parted(t, ds, x)
    BY <1>1, <1>2 DEF Repeated
  <1>4. /\ Instead(ds, w) /\ Instead(ds, x)
        /\ w[k] = PlaceholderOf(m, ds[k]) /\ x[k] = FirstSpelling(m, ds[k])
    BY <1>1, <1>2, SentIs, ShownIs
  <1>5. FlattenSeq(SubSeq(part, ds[k].start + 1, ds[k].end)) = w[k]
    BY <1>3, <1>4, FindingReplaced
  <1>6. FlattenSeq(SubSeq(back, ds[k].start + 1, ds[k].end)) = x[k]
    BY <1>3, <1>4, FindingReplaced
  <1> QED
    BY <1>4, <1>5, <1>6

\* From c on, the text is restored.
RestoredFrom(m, t, part, back, c) ==
    Restores(m, FlattenSeq(SubSeq(part, c + 1, Len(t))), FlattenSeq(SubSeq(back, c + 1, Len(t))))

LEMMA TailNothing ==
    ASSUME NEW S, NEW s \in Seq(S), NEW n \in Nat, n = Len(s)
    PROVE  SubSeq(s, n + 1, n) = <<>>
  <1>1. Len(SubSeq(s, n + 1, n)) = n - n /\ SubSeq(s, n + 1, n) \in Seq(S)
    BY PartIs
  <1>2. n - n = 0
    OBVIOUS
  <1> QED
    BY <1>1, <1>2, NoLength

LEMMA FlattenEmpty == FlattenSeq(<<>>) = <<>>
  <1>1. PICK e : e = <<>>
    OBVIOUS
  <1>2. e \in Seq(Seq(Symbols)) /\ \A i \in 1..Len(e) : e[i] = <<>>
    BY <1>1
  <1> QED
    BY <1>1, <1>2, FlattenNothing

LEMMA NothingRestored ==
    ASSUME NEW m \in MapperType, NEW t, NEW ds, Within(t, ds), Apart(ds), AllNumbered(m, ds),
           NEW part, NEW back, Repeated(m, t, ds, part, back), NEW n, n = Len(t)
    PROVE  RestoredFrom(m, t, part, back, n)
  <1>1. /\ part \in Seq(Seq(Symbols)) /\ Len(part) = n /\ n \in Nat
        /\ back \in Seq(Seq(Symbols)) /\ Len(back) = n
    BY RepeatedParts
  <1>2. SubSeq(part, n + 1, n) = <<>> /\ SubSeq(back, n + 1, n) = <<>>
    BY <1>1, TailNothing
  <1>3. FlattenSeq(SubSeq(part, n + 1, n)) = <<>> /\ FlattenSeq(SubSeq(back, n + 1, n)) = <<>>
    BY <1>2, FlattenEmpty
  <1>4. Restores(m, <<>>, <<>>)
    <2>1. WordsWhole(<<>>)
      BY DEF WordsWhole
    <2>2. <<>> \in Seq(Symbols)
      OBVIOUS
    <2> QED
      BY <2>1, <2>2, RehydrateNothing DEF Restores
  <1> QED
    BY <1>3, <1>4 DEF RestoredFrom

\* No finding covers what is between a and b, and none follows it directly.
GapAt(t, ds, a, b) ==
    /\ a \in Nat /\ b \in Nat /\ a <= b /\ b <= Len(t)
    /\ \A i \in (a + 1)..b, k \in DOMAIN ds : ~Covers(ds[k], i)
    /\ a < b /\ b < Len(t) => t[b] \in Gaps

LEMMA GapRestored ==
    ASSUME NEW m \in MapperType, NEW t, NEW ds, Within(t, ds), Apart(ds), AllNumbered(m, ds),
           NEW part, NEW back, Repeated(m, t, ds, part, back), NoForm(t),
           NEW a, NEW b, GapAt(t, ds, a, b), RestoredFrom(m, t, part, back, b)
    PROVE  RestoredFrom(m, t, part, back, a)
  <1>1. PICK n \in Nat : n = Len(t)
    BY SeqFacts DEF Within
  <1>2. /\ part \in Seq(Seq(Symbols)) /\ Len(part) = n /\ t \in Seq(Symbols)
        /\ back \in Seq(Seq(Symbols)) /\ Len(back) = n
    BY <1>1, RepeatedParts
  <1>3. PICK y : y = SubSeq(t, a + 1, b)
    OBVIOUS
  <1>4. PICK z : z = FlattenSeq(SubSeq(back, b + 1, n))
    OBVIOUS
  <1>5. PICK s : s = FlattenSeq(SubSeq(back, a + 1, n))
    OBVIOUS
  <1>6. PICK U : U = SubSeq(part, a + 1, b)
    OBVIOUS
  <1>7. PICK V : V = SubSeq(part, b + 1, n)
    OBVIOUS
  <1>8. PICK W : W = SubSeq(part, a + 1, n)
    OBVIOUS
  <1>9. a \in Nat /\ b \in Nat /\ a <= b /\ b <= n /\ n <= n
    BY <1>1 DEF GapAt
  <1>10. y \in Seq(Symbols) /\ Len(y) = b - a
    BY <1>1, <1>2, <1>3, <1>9, PartIs
  <1>11. Concat(FlattenSeq(W), FlattenSeq(U), FlattenSeq(V))
    <2>1. Middle(Seq(Symbols), part, a, b, n, U, V, W)
      BY <1>2, <1>6, <1>7, <1>8, <1>9 DEF Middle
    <2> QED
      BY <2>1, FlattenMiddle
  <1>12. FlattenSeq(U) = y /\ FlattenSeq(SubSeq(back, a + 1, b)) = y
    <2>1. /\ FlattenSeq(SubSeq(part, a + 1, b)) = SubSeq(t, a + 1, b)
          /\ FlattenSeq(SubSeq(back, a + 1, b)) = SubSeq(t, a + 1, b)
      <3>1. \A i \in (a + 1)..b, k \in DOMAIN ds : ~Covers(ds[k], i)
        BY DEF GapAt
      <3>2. b <= Len(t)
        BY <1>1, <1>9
      <3> QED
        BY <1>9, <3>1, <3>2, RepeatedGap
    <2> QED
      BY <1>3, <1>6, <2>1
  <1>13. Concat(s, y, z)
    <2>1. PICK A : A = SubSeq(back, a + 1, b)
      OBVIOUS
    <2>2. PICK B : B = SubSeq(back, b + 1, n)
      OBVIOUS
    <2>3. PICK C : C = SubSeq(back, a + 1, n)
      OBVIOUS
    <2>4. Middle(Seq(Symbols), back, a, b, n, A, B, C)
      BY <1>2, <1>9, <2>1, <2>2, <2>3 DEF Middle
    <2>5. Concat(FlattenSeq(C), FlattenSeq(A), FlattenSeq(B))
      BY <2>4, FlattenMiddle
    <2> QED
      BY <1>4, <1>5, <1>12, <2>1, <2>2, <2>3, <2>5
  <1>14. Restores(m, y, y)
    <2>1. NoForm(y)
      BY <1>1, <1>2, <1>3, <1>9, PartNoForm
    <2>2. WordsWhole(y) /\ Rehydrate(m, y) = y
      BY <1>10, <2>1, NoFormRehydrated
    <2> QED
      BY <1>10, <2>2 DEF Restores
  <1>15. PICK v : v = FlattenSeq(V)
    OBVIOUS
  <1>16. Restores(m, v, z)
    BY <1>1, <1>4, <1>7, <1>15 DEF RestoredFrom
  <1>17. PICK w : w = FlattenSeq(W)
    OBVIOUS
  <1>18. y = <<>> \/ v = <<>> \/ y[Len(y)] \notin Words
    <2>1. CASE a = b
      <3>1. Len(y) = 0
        BY <1>9, <1>10, <2>1
      <3> QED
        BY <1>10, <3>1, NoLength
    <2>2. CASE b = n
      <3>1. SubSeq(part, n + 1, n) = <<>>
        BY <1>2, TailNothing
      <3>2. V = <<>>
        BY <1>7, <2>2, <3>1
      <3> QED
        BY <1>15, <3>2, FlattenEmpty
    <2>3. CASE a # b /\ b # n
      <3>1. a < b /\ b < Len(t)
        BY <1>1, <1>9, <2>3
      <3>2. t[b] \in Gaps
        BY <3>1 DEF GapAt
      <3>3. PICK k \in Nat : k = b - a
        BY <1>9, <3>1
      <3>4. k \in 1..(b - a) /\ a + k = b
        BY <1>9, <3>1, <3>3
      <3>5. \A i \in 1..(b - a) : SubSeq(t, a + 1, b)[i] = t[a + i]
        BY <1>1, <1>2, <1>9, PartIs
      <3>6. y[k] = t[b]
        BY <1>3, <3>4, <3>5
      <3>7. t[b] \notin Words
        BY <3>2, RedactionAssumption
      <3> QED
        BY <1>10, <3>3, <3>6, <3>7
    <2> QED
      BY <2>1, <2>2, <2>3
  <1>19. Seam(y, v, w)
    <2>1. WordsWhole(y) /\ WordsWhole(v) /\ v \in Seq(Symbols)
      BY <1>14, <1>16 DEF Restores
    <2>2. Concat(w, y, v)
      BY <1>11, <1>12, <1>15, <1>17
    <2> QED
      BY <1>10, <1>18, <2>1, <2>2 DEF Seam
  <1>20. Restores(m, w, s)
    BY <1>13, <1>14, <1>16, <1>19, SeamRestores
  <1> QED
    BY <1>1, <1>5, <1>8, <1>17, <1>20 DEF RestoredFrom

\* What follows a finding begins with the symbol that follows it in the text.
LEMMA FirstKept ==
    ASSUME NEW m \in MapperType, NEW t, NEW ds, Within(t, ds), Apart(ds), AllNumbered(m, ds),
           NEW part, NEW back, Repeated(m, t, ds, part, back), NEW b \in Nat, b < Len(t),
           \A k \in DOMAIN ds : ~Covers(ds[k], b + 1),
           NEW x, x = FlattenSeq(SubSeq(part, b + 1, Len(t)))
    PROVE  x[1] = t[b + 1]
  <1>1. PICK n \in Nat : n = Len(t)
    BY SeqFacts DEF Within
  <1>2. /\ part \in Seq(Seq(Symbols)) /\ Len(part) = n /\ t \in Seq(Symbols)
        /\ back \in Seq(Seq(Symbols)) /\ Len(back) = n
    BY <1>1, RepeatedParts
  <1>3. PICK c \in Nat : c = b + 1
    OBVIOUS
  <1>4. b <= c /\ c <= n /\ n <= n /\ c <= Len(t)
    BY <1>1, <1>3
  <1>5. PICK U : U = SubSeq(part, b + 1, c)
    OBVIOUS
  <1>6. PICK V : V = SubSeq(part, c + 1, n)
    OBVIOUS
  <1>7. PICK W : W = SubSeq(part, b + 1, n)
    OBVIOUS
  <1>8. /\ Concat(FlattenSeq(W), FlattenSeq(U), FlattenSeq(V))
        /\ FlattenSeq(U) \in Seq(Symbols) /\ FlattenSeq(V) \in Seq(Symbols)
    <2>1. Middle(Seq(Symbols), part, b, c, n, U, V, W)
      BY <1>2, <1>4, <1>5, <1>6, <1>7 DEF Middle
    <2> QED
      BY <2>1, FlattenMiddle
  <1>9. PICK u : u = FlattenSeq(U)
    OBVIOUS
  <1>10. PICK v : v = FlattenSeq(V)
    OBVIOUS
  <1>11. u = SubSeq(t, b + 1, c)
    <2>1. \A i \in (b + 1)..c, k \in DOMAIN ds : ~Covers(ds[k], i)
      <3>1. \A i \in (b + 1)..c : i = b + 1
        BY <1>3
      <3> QED
        BY <3>1
    <2>2. FlattenSeq(SubSeq(part, b + 1, c)) = SubSeq(t, b + 1, c)
      BY <1>4, <2>1, RepeatedGap
    <2> QED
      BY <1>5, <1>9, <2>2
  <1>12. Len(u) = 1 /\ u[1] = t[b + 1]
    <2>1. /\ Len(SubSeq(t, b + 1, c)) = c - b
          /\ \A k \in 1..(c - b) : SubSeq(t, b + 1, c)[k] = t[b + k]
      BY <1>2, <1>4, PartIs
    <2>2. c - b = 1 /\ 1 \in 1..(c - b)
      BY <1>3
    <2> QED
      BY <1>11, <2>1, <2>2
  <1>13. x = u \o v
    BY <1>1, <1>7, <1>8, <1>9, <1>10 DEF Concat
  <1>14. Join(Symbols, u, v, x)
    BY <1>8, <1>9, <1>10, <1>13, Joined
  <1>15. x[1] = u[1]
    <2>1. 1 \in 1..Len(u)
      BY <1>12
    <2> QED
      BY <1>14, <2>1 DEF Join
  <1> QED
    BY <1>12, <1>15

\* The placeholder of the k-th finding is one that the pattern finds again, and
\* is followed by a gap.
Returns(m, t, ds, k) ==
    /\ k \in DOMAIN ds /\ Length(ds[k]) > 0
    /\ ds[k].type \in Names
    /\ Len(PlaceholderOf(m, ds[k])) = 2 + Width
    /\ ds[k].end < Len(t) =>
          t[ds[k].end + 1] \in Gaps /\ \A l \in DOMAIN ds : ~Covers(ds[l], ds[k].end + 1)

LEMMA FindingRestored ==
    ASSUME NEW m \in MapperType, NEW t, NEW ds, Within(t, ds), Apart(ds), AllNumbered(m, ds),
           NEW part, NEW back, Repeated(m, t, ds, part, back), NEW k, Returns(m, t, ds, k),
           RestoredFrom(m, t, part, back, ds[k].end)
    PROVE  RestoredFrom(m, t, part, back, ds[k].start)
  <1>1. PICK n \in Nat : n = Len(t)
    BY SeqFacts DEF Within
  <1>2. /\ part \in Seq(Seq(Symbols)) /\ Len(part) = n /\ t \in Seq(Symbols)
        /\ back \in Seq(Seq(Symbols)) /\ Len(back) = n
    BY <1>1, RepeatedParts
  <1>3. PICK a \in Nat : a = ds[k].start
    BY WithinIs DEF Returns
  <1>4. PICK b \in Nat : b = ds[k].end
    BY WithinIs DEF Returns
  <1>5. k \in DOMAIN ds /\ a <= b /\ b <= n /\ n <= n /\ ds[k].type \in Types
    BY <1>1, <1>3, <1>4, WithinIs DEF Returns
  <1>6. PICK y : y = FlattenSeq(SubSeq(back, a + 1, b))
    OBVIOUS
  <1>7. PICK z : z = FlattenSeq(SubSeq(back, b + 1, n))
    OBVIOUS
  <1>8. PICK s : s = FlattenSeq(SubSeq(back, a + 1, n))
    OBVIOUS
  <1>9. PICK U : U = SubSeq(part, a + 1, b)
    OBVIOUS
  <1>10. PICK V : V = SubSeq(part, b + 1, n)
    OBVIOUS
  <1>11. PICK W : W = SubSeq(part, a + 1, n)
    OBVIOUS
  <1>12. Concat(s, y, z)
    <2>1. PICK A : A = SubSeq(back, a + 1, b)
      OBVIOUS
    <2>2. PICK B : B = SubSeq(back, b + 1, n)
      OBVIOUS
    <2>3. PICK C : C = SubSeq(back, a + 1, n)
      OBVIOUS
    <2>4. Middle(Seq(Symbols), back, a, b, n, A, B, C)
      BY <1>2, <1>5, <2>1, <2>2, <2>3 DEF Middle
    <2>5. Concat(FlattenSeq(C), FlattenSeq(A), FlattenSeq(B))
      BY <2>4, FlattenMiddle
    <2> QED
      BY <1>6, <1>7, <1>8, <2>1, <2>2, <2>3, <2>5
  <1>13. Concat(FlattenSeq(W), FlattenSeq(U), FlattenSeq(V))
    <2>1. Middle(Seq(Symbols), part, a, b, n, U, V, W)
      BY <1>2, <1>5, <1>9, <1>10, <1>11 DEF Middle
    <2> QED
      BY <2>1, FlattenMiddle
  <1>14. PICK p : p = PlaceholderOf(m, ds[k])
    OBVIOUS
  <1>15. FlattenSeq(U) = p /\ y = FirstSpelling(m, ds[k])
    <2>1. Length(ds[k]) > 0
      BY DEF Returns
    <2>2. /\ FlattenSeq(SubSeq(part, ds[k].start + 1, ds[k].end)) = PlaceholderOf(m, ds[k])
          /\ FlattenSeq(SubSeq(back, ds[k].start + 1, ds[k].end)) = FirstSpelling(m, ds[k])
      BY <1>5, <2>1, RepeatedFinding
    <2> QED
      BY <1>3, <1>4, <1>6, <1>9, <1>14, <2>2
  <1>16. Original(m, p) = y /\ \E c \in Nat : p = Placeholder(ds[k].type, c)
    BY <1>5, <1>14, <1>15, OriginalOf
  <1>17. Found(p, ds[k].type)
    <2>1. PICK c \in Nat : p = Placeholder(ds[k].type, c)
      BY <1>16
    <2>2. Len(p) = 2 + Width /\ ds[k].type \in Names
      BY <1>14 DEF Returns
    <2> QED
      BY <1>5, <2>1, <2>2, PlaceholderFound
  <1>18. p \in Seq(Symbols) /\ WordsWhole(p) /\ Clean(p, Len(p))
    <2>1. p \in Seq(Symbols)
      BY <1>17 DEF Found
    <2>2. PICK j \in Nat : j = Len(p)
      BY <2>1, SeqFacts
    <2> QED
      BY <1>17, <2>1, <2>2, FoundWord
  <1>19. Restores(m, p, y)
    <2>1. Rehydrate(m, p) = Original(m, p)
      BY <1>17, FoundRehydrated
    <2> QED
      BY <1>16, <1>18, <2>1 DEF Restores
  <1>20. PICK v : v = FlattenSeq(V)
    OBVIOUS
  <1>21. Restores(m, v, z)
    BY <1>1, <1>4, <1>7, <1>10, <1>20 DEF RestoredFrom
  <1>22. PICK w : w = FlattenSeq(W)
    OBVIOUS
  <1>23. v = <<>> \/ v[1] \notin Words
    <2>1. CASE b = n
      <3>1. SubSeq(part, n + 1, n) = <<>>
        BY <1>2, TailNothing
      <3>2. V = <<>>
        BY <1>10, <2>1, <3>1
      <3> QED
        BY <1>20, <3>2, FlattenEmpty
    <2>2. CASE b # n
      <3>1. b < Len(t)
        BY <1>1, <1>5, <2>2
      <3>2. t[b + 1] \in Gaps /\ \A l \in DOMAIN ds : ~Covers(ds[l], b + 1)
        BY <1>4, <3>1 DEF Returns
      <3>3. v = FlattenSeq(SubSeq(part, b + 1, Len(t)))
        BY <1>1, <1>10, <1>20
      <3>4. v[1] = t[b + 1]
        BY <3>1, <3>2, <3>3, FirstKept
      <3>5. t[b + 1] \notin Words
        BY <3>2, RedactionAssumption
      <3> QED
        BY <3>4, <3>5
    <2> QED
      BY <2>1, <2>2
  <1>24. Seam(p, v, w)
    <2>1. WordsWhole(v) /\ v \in Seq(Symbols)
      BY <1>21 DEF Restores
    <2>2. Concat(w, p, v)
      BY <1>13, <1>15, <1>20, <1>22
    <2> QED
      BY <1>18, <1>23, <2>1, <2>2 DEF Seam
  <1>25. Restores(m, w, s)
    BY <1>12, <1>19, <1>21, <1>24, SeamRestores
  <1> QED
    BY <1>1, <1>3, <1>8, <1>11, <1>22, <1>25 DEF RestoredFrom

\* What RoundTrip asks of the k-th finding.
Fits(m, t, ds, k) ==
    /\ Length(ds[k]) > 0
    /\ ds[k].type \in Names
    /\ Len(PlaceholderOf(m, ds[k])) = 2 + Width
    /\ ds[k].start = 0 \/ t[ds[k].start] \in Gaps
    /\ ds[k].end = Len(t) \/ t[ds[k].end + 1] \in Gaps
    /\ \A l \in DOMAIN ds : ds[l].start # ds[k].end

LEMMA AllRestored ==
    ASSUME NEW m \in MapperType, NEW t, NEW ds, Within(t, ds), Apart(ds), AllNumbered(m, ds),
           NEW part, NEW back, Repeated(m, t, ds, part, back), NoForm(t),
           \A k \in DOMAIN ds : Fits(m, t, ds, k)
    PROVE  RestoredFrom(m, t, part, back, 0)
  <1>1. PICK N \in Nat : N = Len(ds)
    BY DEF Within, Findings
  <1>2. \A k \in DOMAIN ds : Length(ds[k]) > 0
    BY DEF Fits
  <1>3. PICK order, g : Splices(m, t, ds, N, order, g)
    BY <1>1, ReplaceIs
  <1>4. Sorts(DOMAIN ds, FromTheEnd(ds), N, order)
    BY <1>3 DEF Splices
  <1>5. /\ \A k \in 1..N : order[k] \in DOMAIN ds
        /\ \A l \in DOMAIN ds : \E j \in 1..N : order[j] = l
    BY <1>4 DEF Sorts
  <1>6. PICK a, b, c : InTurn(t, ds, N, order, a, b, c)
    BY DEF InTurn
  <1>7. Falling(N, a, b, c)
    BY <1>2, <1>4, <1>6, OrderFalling
  <1>8. /\ \A k \in 1..N : b[k] <= c[k - 1] /\ c[k - 1] <= c[0]
        /\ \A k, j \in 1..N : \A i \in (b[k] + 1)..c[k - 1] : ~(a[j] < i /\ i <= b[j])
        /\ \A j \in 1..N : \A i \in 1..c[N] : ~(a[j] < i /\ i <= b[j])
        /\ c[N] <= c[0]
    BY <1>7, FallingGaps
  <1>9. /\ \A k \in 1..N : a[k] = ds[order[k]].start /\ b[k] = ds[order[k]].end
        /\ c[0] = Len(t)
    <2>1. 0 \in 0..N
      OBVIOUS
    <2> QED
      BY <1>6, <2>1 DEF InTurn
  <1>10. /\ \A k \in 0..N : c[k] \in Nat
         /\ \A k \in 1..N : c[k] = a[k] /\ b[k] \in Nat
    BY <1>7 DEF Falling
  <1>11. \A i : (\A j \in 1..N : ~(a[j] < i /\ i <= b[j])) => \A l \in DOMAIN ds : ~Covers(ds[l], i)
    <2> TAKE i
    <2> HAVE \A j \in 1..N : ~(a[j] < i /\ i <= b[j])
    <2> TAKE l \in DOMAIN ds
    <2>1. PICK j \in 1..N : order[j] = l
      BY <1>5
    <2>2. ~(a[j] < i /\ i <= b[j]) /\ a[j] = ds[l].start /\ b[j] = ds[l].end
      BY <1>9, <2>1
    <2> QED
      BY <2>2 DEF Covers
  <1>12. \A k \in 0..N : 0 < c[k] /\ c[k] < Len(t) => t[c[k]] \in Gaps
    <2> TAKE k \in 0..N
    <2> HAVE 0 < c[k] /\ c[k] < Len(t)
    <2>1. k # 0
      BY <1>9, <1>10
    <2>2. k \in 1..N
      BY <2>1
    <2>3. PICK l \in DOMAIN ds : l = order[k]
      BY <1>5, <2>2
    <2>4. c[k] = ds[l].start
      BY <1>9, <1>10, <2>2, <2>3
    <2>5. Fits(m, t, ds, l)
      BY <2>3
    <2>6. ds[l].start = 0 \/ t[ds[l].start] \in Gaps
      BY <2>5 DEF Fits
    <2>7. c[k] # 0
      BY <1>10
    <2> QED
      BY <2>4, <2>6, <2>7
  <1> DEFINE T == {k \in 0..N : RestoredFrom(m, t, part, back, c[k])}
  <1>13. 0 \in T
    <2>1. PICK n : n = Len(t)
      OBVIOUS
    <2>2. RestoredFrom(m, t, part, back, n)
      BY <2>1, NothingRestored
    <2>3. 0 \in 0..N
      OBVIOUS
    <2> QED
      BY <1>9, <2>1, <2>2, <2>3
  <1>14. ASSUME NEW k \in 1..N, k - 1 \in T PROVE k \in T
    <2>1. k - 1 \in 0..N /\ k \in 0..N
      OBVIOUS
    <2>2. PICK x \in Nat : x = b[k]
      BY <1>10
    <2>3. PICK y \in Nat : y = c[k - 1]
      BY <1>10, <2>1
    <2>4. RestoredFrom(m, t, part, back, y)
      BY <1>14, <2>3
    <2>5. x <= y /\ y <= Len(t)
      BY <1>8, <1>9, <2>2, <2>3
    <2>6. \A i \in (x + 1)..y : \A l \in DOMAIN ds : ~Covers(ds[l], i)
      <3>1. \A j \in 1..N : \A i \in (x + 1)..y : ~(a[j] < i /\ i <= b[j])
        BY <1>8, <2>2, <2>3
      <3> QED
        BY <1>11, <3>1
    <2>7. GapAt(t, ds, x, y)
      <3>1. x < y /\ y < Len(t) => t[y] \in Gaps
        BY <1>12, <2>1, <2>3
      <3> QED
        BY <2>5, <2>6, <3>1 DEF GapAt
    <2>8. RestoredFrom(m, t, part, back, x)
      BY <2>4, <2>7, GapRestored
    <2>9. PICK l \in DOMAIN ds : l = order[k]
      BY <1>5
    <2>10. x = ds[l].end /\ c[k] = ds[l].start
      BY <1>9, <1>10, <2>2, <2>9
    <2>11. Fits(m, t, ds, l)
      BY <2>9
    <2>12. ASSUME x < Len(t)
           PROVE  t[x + 1] \in Gaps /\ \A j \in DOMAIN ds : ~Covers(ds[j], x + 1)
      <3>1. Len(t) \in Nat
        BY SeqFacts DEF Within
      <3>2. t[x + 1] \in Gaps
        <4>1. ds[l].end = Len(t) \/ t[ds[l].end + 1] \in Gaps
          BY <2>11 DEF Fits
        <4>2. x # Len(t)
          BY <2>12, <3>1
        <4> QED
          BY <2>10, <4>1, <4>2
      <3>3. x # y
        <4>1. CASE k = 1
          <5>1. k - 1 = 0
            BY <4>1
          <5>2. y = Len(t)
            BY <1>9, <2>3, <5>1
          <5> QED
            BY <2>12, <3>1, <5>2
        <4>2. CASE k # 1
          <5>1. k - 1 \in 1..N
            BY <4>2
          <5>2. PICK j \in DOMAIN ds : j = order[k - 1]
            BY <1>5, <5>1
          <5>3. y = ds[j].start
            BY <1>9, <1>10, <2>3, <5>1, <5>2
          <5> QED
            BY <2>10, <2>11, <5>3 DEF Fits
        <4> QED
          BY <4>1, <4>2
      <3>4. x + 1 \in (x + 1)..y
        BY <2>5, <3>3
      <3> QED
        BY <2>6, <3>2, <3>4
    <2>13. Returns(m, t, ds, l)
      BY <2>10, <2>11, <2>12 DEF Fits, Returns
    <2>14. RestoredFrom(m, t, part, back, ds[l].start)
      <3>1. RestoredFrom(m, t, part, back, ds[l].end)
        BY <2>8, <2>10
      <3> QED
        BY <2>13, <3>1, FindingRestored
    <2> QED
      BY <2>1, <2>10, <2>14
  <1> HIDE DEF T
  <1>15. 0..N \subseteq T
    BY <1>13, <1>14, Induced
  <1>16. RestoredFrom(m, t, part, back, c[N])
    BY <1>15, Range1 DEF T
  <1>17. PICK y \in Nat : y = c[N]
    BY <1>10, Range1
  <1>18. PICK z \in Nat : z = 0
    OBVIOUS
  <1>19. GapAt(t, ds, z, y)
    <2>1. y <= Len(t) /\ z <= y
      BY <1>8, <1>9, <1>17, <1>18
    <2>2. \A i \in (z + 1)..y, l \in DOMAIN ds : ~Covers(ds[l], i)
      <3>1. \A i \in 1..y : \A l \in DOMAIN ds : ~Covers(ds[l], i)
        BY <1>8, <1>11, <1>17
      <3>2. z + 1 = 1
        BY <1>18
      <3> QED
        BY <3>1, <3>2
    <2>3. z < y /\ y < Len(t) => t[y] \in Gaps
      BY <1>12, <1>17, <1>18, Range1
    <2> QED
      BY <2>1, <2>2, <2>3 DEF GapAt
  <1>20. RestoredFrom(m, t, part, back, y)
    BY <1>16, <1>17
  <1> QED
    BY <1>18, <1>19, <1>20, GapRestored

LEMMA PartWhole ==
    ASSUME NEW S, NEW s \in Seq(S), NEW n, n = Len(s), NEW z \in Nat, z = 0
    PROVE  SubSeq(s, z + 1, n) = s
  <1>1. n \in Nat
    BY SeqFacts
  <1>2. PICK u : u = SubSeq(s, z + 1, n)
    OBVIOUS
  <1>3. z <= n /\ n <= Len(s)
    BY <1>1
  <1>4. u \in Seq(S) /\ Len(u) = n - z /\ \A k \in 1..(n - z) : u[k] = s[z + k]
    BY <1>1, <1>2, <1>3, PartIs
  <1>5. n - z = n /\ \A k \in 1..n : z + k = k
    BY <1>1
  <1>6. Len(u) = n /\ \A k \in 1..n : u[k] = s[k]
    BY <1>4, <1>5
  <1>7. u = s
    BY <1>4, <1>6, Extensional
  <1> QED
    BY <1>2, <1>7

(***************************************************************************)
(* What is shown has no placeholder.                                       *)
(***************************************************************************)
\* No placeholder is in s, and what follows s completes none.
Sealed(s) == Formless(s) /\ Clean(s, Len(s))

LEMMA JoinCuts ==
    ASSUME NEW S, NEW u \in Seq(S), NEW v \in Seq(S), NEW w, w = u \o v, NEW n, n = Len(u)
    PROVE  Cut(S, w, n, u, v)
  <1>1. /\ w \in Seq(S) /\ Len(w) = Len(u) + Len(v)
        /\ \A i \in 1..Len(u) : w[i] = u[i]
        /\ \A i \in 1..Len(v) : w[Len(u) + i] = v[i]
    BY Concatenated
  <1>2. Len(u) \in Nat /\ Len(v) \in Nat
    BY SeqFacts
  <1>3. n \in 0..Len(w) /\ Len(v) = Len(w) - n
    BY <1>1, <1>2
  <1>4. \A k \in 1..Len(v) : v[k] = w[k + n]
    <2>1. \A k \in 1..Len(v) : k + n = Len(u) + k
      BY <1>2
    <2> QED
      BY <1>1, <2>1
  <1> QED
    BY <1>1, <1>3, <1>4 DEF Cut

\* A placeholder in the whole that is in the first part.
LEMMA FormlessLeft ==
    ASSUME NEW S, NEW w, NEW n, NEW u, NEW v, Cut(S, w, n, u, v), Formless(u),
           NEW i \in 1..n, NEW j \in i..n
    PROVE  ~PlaceholderAt(w, i, j)
  <1>1. /\ n \in Nat /\ Len(w) \in Nat /\ Len(v) \in Nat /\ Len(w) = n + Len(v) /\ Len(u) = n
        /\ w \in Seq(S) /\ u \in Seq(S)
    BY CutTypes
  <1>2. /\ i \in 1..Len(u) /\ j \in i..Len(u) /\ i \in 1..Len(w) /\ j \in i..Len(w) /\ j \in 1..n
    BY <1>1
  <1>3. ~PlaceholderAt(u, i, j)
    BY <1>1, <1>2, FormlessIs
  <1>4. Form(u, i, j) <=> Form(w, i, j)
    BY <1>2, CutForms
  <1>5. IsWord(w, i, j) => IsWord(u, i, j)
    BY LeftWords
  <1> QED
    BY <1>1, <1>2, <1>3, <1>4, <1>5, AtForm

LEMMA FormlessRight ==
    ASSUME NEW S, NEW w, NEW n, NEW u, NEW v, Cut(S, w, n, u, v), Formless(v),
           NEW i \in 1..Len(v), NEW j \in i..Len(v)
    PROVE  ~PlaceholderAt(w, i + n, j + n)
  <1>1. /\ n \in Nat /\ Len(w) \in Nat /\ Len(v) \in Nat /\ Len(w) = n + Len(v)
        /\ w \in Seq(S) /\ v \in Seq(S)
    BY CutTypes
  <1>2. i + n \in 1..Len(w) /\ j + n \in (i + n)..Len(w) /\ j \in 1..Len(v)
    BY <1>1
  <1>3. ~PlaceholderAt(v, i, j)
    BY <1>1, FormlessIs
  <1>4. Form(v, i, j) <=> Form(w, i + n, j + n)
    BY <1>2, CutForms
  <1>5. IsWord(w, i + n, j + n) => IsWord(v, i, j)
    BY RightWords
  <1> QED
    BY <1>1, <1>2, <1>3, <1>4, <1>5, AtForm

\* If none is across the cut either.
LEMMA FormlessCut ==
    ASSUME NEW S, NEW w, NEW n, NEW u, NEW v, Cut(S, w, n, u, v), Formless(u), Formless(v),
           \A i \in 1..n, j \in (n + 1)..Len(w) : ~PlaceholderAt(w, i, j)
    PROVE  Formless(w)
  <1>1. /\ n \in Nat /\ Len(w) \in Nat /\ Len(v) \in Nat /\ Len(w) = n + Len(v) /\ w \in Seq(S)
    BY CutTypes
  <1>2. ASSUME NEW i \in 1..Len(w), NEW j \in i..Len(w) PROVE ~PlaceholderAt(w, i, j)
    <2>1. CASE j <= n
      <3>1. i \in 1..n /\ j \in i..n
        BY <1>1, <2>1
      <3> QED
        BY <3>1, FormlessLeft
    <2>2. CASE i <= n /\ j > n
      <3>1. i \in 1..n /\ j \in (n + 1)..Len(w)
        BY <1>1, <2>2
      <3> QED
        BY <3>1
    <2>3. CASE i > n
      <3>1. PICK h : h = i - n
        OBVIOUS
      <3>2. PICK k : k = j - n
        OBVIOUS
      <3>3. h \in 1..Len(v) /\ k \in h..Len(v) /\ h + n = i /\ k + n = j
        BY <1>1, <2>3, <3>1, <3>2
      <3>4. ~PlaceholderAt(w, h + n, k + n)
        BY <3>3, FormlessRight
      <3> QED
        BY <3>3, <3>4
    <2> QED
      BY <1>1, <2>1, <2>2, <2>3
  <1> QED
    BY <1>1, <1>2, FormlessIs

LEMMA SealedAhead ==
    ASSUME NEW S, NEW u \in Seq(S), NEW v \in Seq(S), Sealed(u), Formless(v),
           NEW w, Concat(w, u, v)
    PROVE  Formless(w) /\ (Clean(v, Len(v)) => Sealed(w))
  <1>1. PICK n : n = Len(u)
    OBVIOUS
  <1>2. Cut(S, w, n, u, v)
    BY <1>1, JoinCuts DEF Concat
  <1>3. /\ n \in Nat /\ Len(w) \in Nat /\ Len(v) \in Nat /\ Len(w) = n + Len(v)
        /\ w \in Seq(S) /\ n \in 0..Len(w)
    BY <1>2, CutTypes
  <1>4. /\ \A k \in 1..n : u[k] = w[k]
        /\ \A k \in 1..Len(v) : v[k] = w[k + n]
    BY <1>2 DEF Cut
  <1>5. Clean(w, n)
    <2>1. Clean(u, n)
      BY <1>1 DEF Sealed
    <2> QED
      BY <1>3, <1>4, <2>1, CleanSame
  <1>6. Formless(w)
    <2>1. \A i \in 1..n, j \in (n + 1)..Len(w) : ~PlaceholderAt(w, i, j)
      BY <1>3, <1>5, NoStraddle
    <2>2. Formless(u)
      BY DEF Sealed
    <2> QED
      BY <1>2, <2>1, <2>2, FormlessCut
  <1>7. ASSUME Clean(v, Len(v)) PROVE Clean(w, Len(w))
    <2> SUFFICES ASSUME NEW i \in 1..Len(w), WordStarts(w, i),
                        \A k \in i..Len(w) : w[k] \in Words, Partial(w, i, Len(w))
                 PROVE  FALSE
      BY DEF Clean
    <2>1. CASE i <= n
      <3>1. i \in Int /\ Len(w) \in Int /\ n \in i..Len(w) /\ i \in 1..n
            /\ \A k \in i..n : k \in i..Len(w)
        BY <1>3, <2>1
      <3>2. Partial(w, i, n)
        BY <3>1, PartialBegins
      <3> QED
        BY <1>5, <3>1, <3>2 DEF Clean
    <2>2. CASE i > n
      <3>1. PICK h : h = i - n
        OBVIOUS
      <3>2. /\ h \in 1..Len(v) /\ h + n = i /\ Len(v) + n = Len(w)
            /\ h \in Int /\ n \in Int /\ Len(v) \in Int
            /\ Len(v) \in h..Len(v) /\ i <= Len(w) /\ Len(w) \in i..Len(w)
            /\ \A k \in h..Len(v) : k \in 1..Len(v)
        BY <1>3, <2>2, <3>1
      <3>3. IsWord(w, i, Len(w))
        BY <3>2 DEF IsWord, WordEnds
      <3>4. IsWord(v, h, Len(v))
        <4>1. IsWord(w, h + n, Len(v) + n)
          BY <3>2, <3>3
        <4> QED
          BY <1>2, <3>2, <4>1, RightWords
      <3>5. Shifted(v, w, n, h, Len(v))
        BY <1>4, <3>2 DEF Shifted
      <3>6. Partial(w, h + n, Len(v) + n)
        BY <3>2
      <3>7. Partial(v, h, Len(v))
        BY <3>2, <3>5, <3>6, PartialShifted
      <3>8. WordStarts(v, h) /\ \A k \in h..Len(v) : v[k] \in Words
        BY <3>4 DEF IsWord
      <3> QED
        BY <1>7, <3>2, <3>7, <3>8 DEF Clean
    <2> QED
      BY <1>3, <2>1, <2>2
  <1> QED
    BY <1>6, <1>7 DEF Sealed

\* A symbol between words seals what is before it.
LEMMA SymbolSeals ==
    ASSUME NEW S, NEW u \in Seq(S), Formless(u), NEW c \in S, c \notin Words, NEW w, w = u \o <<c>>
    PROVE  Sealed(w)
  <1>1. PICK n : n = Len(u)
    OBVIOUS
  <1>2. PICK v : v = <<c>>
    OBVIOUS
  <1>3. v \in Seq(S) /\ Len(v) = 1 /\ v[1] = c
    BY <1>2
  <1>4. Cut(S, w, n, u, v)
    BY <1>1, <1>2, <1>3, JoinCuts
  <1>5. /\ n \in Nat /\ Len(w) = n + 1 /\ w \in Seq(S)
    BY <1>3, <1>4, CutTypes
  <1>6. w[n + 1] = c
    <2>1. 1 \in 1..Len(v) /\ 1 + n = n + 1
      BY <1>3, <1>5
    <2>2. v[1] = w[1 + n]
      BY <1>4, <2>1 DEF Cut
    <2> QED
      BY <1>3, <2>1, <2>2
  <1>7. Formless(v)
    <2>1. \A i \in 1..Len(v) : i = 1
      BY <1>3
    <2>2. \A i \in 1..Len(v) : \A j \in i..Len(v) : ~PlaceholderAt(v, i, j)
      BY <1>3, <2>1 DEF PlaceholderAt, IsWord, WordStarts
    <2> QED
      BY <1>3, <2>2, FormlessIs
  <1>8. \A i \in 1..n, j \in (n + 1)..Len(w) : ~PlaceholderAt(w, i, j)
    <2>1. \A i \in 1..n, j \in (n + 1)..Len(w) : j = n + 1 /\ j \in i..j
      BY <1>5
    <2> QED
      BY <1>6, <2>1 DEF PlaceholderAt, IsWord
  <1>9. Formless(w)
    BY <1>4, <1>7, <1>8, FormlessCut
  <1>10. Clean(w, Len(w))
    <2>1. \A i \in 1..Len(w) : n + 1 \in i..Len(w)
      BY <1>5
    <2> QED
      BY <1>6, <2>1 DEF Clean
  <1> QED
    BY <1>9, <1>10 DEF Sealed

\* No original of m looks like a placeholder, nor its end like the beginning of one.
AllInert(m) == \A type \in Types : \A n \in DOMAIN m[type] : Inert(m[type][n])

LEMMA NothingSealed == Sealed(<<>>)
  BY DEF Sealed, Formless, Clean

LEMMA InertSealed ==
    ASSUME NEW o \in Seq(Symbols), Inert(o)
    PROVE  Sealed(o)
  <1>1. Formless(o) /\ Unfinished(o, Len(o)) = {}
    BY DEF Inert, Formless
  <1>2. PICK u : u = <<>>
    OBVIOUS
  <1>3. u \in Seq(Symbols) /\ Len(u) = 0 /\ o = u \o o
    BY <1>2
  <1>4. PICK n : n = 0
    OBVIOUS
  <1>5. Cut(Symbols, o, n, u, o)
    BY <1>3, <1>4, JoinCuts
  <1>6. Clean(o, n)
    BY <1>4 DEF Clean
  <1>7. EndsWhole(o)
    <2>1. PICK e : e = Len(o)
      OBVIOUS
    <2>2. e \in 0..Len(o)
      BY <2>1, SeqFacts
    <2>3. \A i : i \in Unfinished(o, e) <=> i \in 1..e /\ IsWord(o, i, e) /\ Partial(o, i, e)
      BY <2>2, UnfinishedIs
    <2> QED
      BY <1>1, <2>1, <2>3 DEF EndsWhole
  <1>8. Clean(o, Len(o))
    BY <1>5, <1>6, <1>7, EndClean
  <1> QED
    BY <1>1, <1>8 DEF Sealed

LEMMA UnknownSealed == Sealed(<<Unknown>>)
  <1>1. Unknown \in Symbols /\ Unknown \notin Words
    BY RedactionAssumption DEF Symbols
  <1>2. PICK c \in Symbols : c = Unknown
    BY <1>1
  <1>3. PICK u : u = <<>>
    OBVIOUS
  <1>4. u \in Seq(Symbols) /\ <<c>> = u \o <<c>>
    BY <1>3
  <1>5. Formless(u)
    BY <1>3 DEF Formless
  <1>6. Sealed(<<c>>)
    BY <1>1, <1>2, <1>4, <1>5, SymbolSeals
  <1> QED
    BY <1>2, <1>6

LEMMA OriginalSealed ==
    ASSUME NEW m \in MapperType, AllInert(m), NEW w
    PROVE  Sealed(Original(m, w))
  <1> DEFINE numbered == UNION {{type} \X (DOMAIN m[type]) : type \in Types}
             owners == {o \in numbered : Placeholder(o[1], o[2]) = w}
  <1>1. CASE owners = {}
    <2>1. Original(m, w) = <<Unknown>>
      BY <1>1 DEF Original
    <2> QED
      BY <2>1, UnknownSealed
  <1>2. CASE owners # {}
    <2>1. PICK o \in owners : Original(m, w) = m[o[1]][o[2]]
      BY <1>2, Zenon DEF Original
    <2>2. PICK type \in Types : o \in {type} \X (DOMAIN m[type])
      BY <2>1
    <2>3. o[1] = type /\ o[2] \in DOMAIN m[type]
      BY <2>2
    <2>4. m[type] \in Seq(Seq(Symbols))
      BY DEF MapperType
    <2>5. m[type][o[2]] \in Seq(Symbols)
      BY <2>3, <2>4
    <2>6. Inert(m[type][o[2]])
      BY <2>3 DEF AllInert
    <2> QED
      BY <2>1, <2>3, <2>5, <2>6, InertSealed
  <1> QED
    BY <1>1, <1>2

\* The word at the end of s.
LEMMA LastWord ==
    ASSUME NEW s, NEW n \in Nat, n = Len(s), n # 0, s[n] \in Words
    PROVE  \E p \in 1..n : IsWord(s, p, n)
  <1> DEFINE T == {x \in Nat : x \in 1..n /\ \A k \in x..n : s[k] \in Words}
  <1>1. n \in T
    OBVIOUS
  <1>2. PICK x \in T : \A y \in T : ~(<<y, x>> \in OpToRel(<, Nat))
    <2>1. T \subseteq Nat /\ T # {} /\ IsWellFoundedOn(OpToRel(<, Nat), Nat)
      BY <1>1, NatLessThanWellFounded
    <2> HIDE DEF T
    <2> QED
      BY <2>1, WFMin
  <1>3. \A y \in T : ~(y < x)
    BY <1>2 DEF OpToRel
  <1>4. x \in 1..n /\ x <= n /\ n \in x..n /\ x \in x..n /\ \A k \in x..n : s[k] \in Words
    <2>1. x \in 1..n /\ \A k \in x..n : s[k] \in Words
      OBVIOUS
    <2> QED
      BY <2>1
  <1>5. x = 1 \/ s[x - 1] \notin Words
    <2> SUFFICES ASSUME x # 1, s[x - 1] \in Words PROVE FALSE
      OBVIOUS
    <2>1. x - 1 \in 1..n /\ x - 1 < x /\ \A k \in (x - 1)..n : k = x - 1 \/ k \in x..n
      BY <1>4
    <2>2. x - 1 \in T
      BY <1>4, <2>1
    <2> QED
      BY <1>3, <2>1, <2>2
  <1>6. WordStarts(s, x) /\ WordEnds(s, n)
    BY <1>4, <1>5 DEF WordStarts, WordEnds
  <1> QED
    BY <1>4, <1>6 DEF IsWord

\* What s is rehydrated to has no placeholder, and is sealed where s does not end
\* with the beginning of one.
Seals(m, s) ==
    Formless(Rehydrate(m, s)) /\ (Clean(s, Len(s)) => Sealed(Rehydrate(m, s)))

\* u is the first n symbols of s, v the others, and no word is cut.
Separated(s, n, u, v) ==
    /\ s \in Seq(Symbols) /\ n \in 0..Len(s) /\ Edge(s, n)
    /\ u = SubSeq(s, 1, n) /\ v = SubSeq(s, n + 1, Len(s))

Sides(s, n, u, v) ==
    /\ Splits(Shown, s, n, u, v) /\ u \in Seq(Symbols) /\ v \in Seq(Symbols)
    /\ Len(u) = n /\ Len(v) = Len(s) - n
    /\ \A k \in 1..n : u[k] = s[k]
    /\ \A k \in 1..Len(v) : v[k] = s[k + n]

LEMMA NoWordCut ==
    ASSUME NEW s, NEW n, NEW u, NEW v, Separated(s, n, u, v)
    PROVE  Sides(s, n, u, v)
  <1>0. /\ s \in Seq(Symbols) /\ n \in 0..Len(s) /\ Edge(s, n)
        /\ u = SubSeq(s, 1, n) /\ v = SubSeq(s, n + 1, Len(s))
    BY DEF Separated
  <1>1. Len(s) \in Nat
    BY <1>0, SeqFacts
  <1>2. u \in Seq(Symbols) /\ Len(u) = n /\ \A k \in 1..n : u[k] = s[k]
    <2>1. PICK x \in Nat : x = 0
      OBVIOUS
    <2>2. x <= n /\ n <= Len(s) /\ n \in Nat /\ u = SubSeq(s, x + 1, n)
      BY <1>0, <1>1, <2>1
    <2>3. u \in Seq(Symbols) /\ Len(u) = n - x /\ \A k \in 1..(n - x) : u[k] = s[x + k]
      BY <1>0, <2>2, PartIs
    <2>4. n - x = n /\ \A k \in 1..n : x + k = k
      BY <1>0, <1>1, <2>1
    <2> QED
      BY <2>3, <2>4
  <1>3. v \in Seq(Symbols) /\ Len(v) = Len(s) - n /\ \A k \in 1..(Len(s) - n) : v[k] = s[n + k]
    <2>1. PICK y \in Nat : y = Len(s)
      BY <1>1
    <2>2. n \in Nat /\ n <= y /\ y <= Len(s)
      BY <1>0, <2>1
    <2> QED
      BY <1>0, <2>1, <2>2, PartIs
  <1>4. \A k \in 1..Len(v) : v[k] = s[k + n]
    <2>1. \A k \in 1..Len(v) : k + n = n + k
      BY <1>0, <1>1, <1>3
    <2> QED
      BY <1>3, <2>1
  <1>5. s \in Seq(Shown) /\ u \in Seq(Shown) /\ v \in Seq(Shown)
    BY <1>0, <1>2, <1>3, SymbolsShown
  <1>6. Cut(Shown, s, n, u, v)
    BY <1>0, <1>2, <1>3, <1>4, <1>5 DEF Cut
  <1>7. Splits(Shown, s, n, u, v)
    BY <1>0, <1>6, EdgeDivides
  <1> QED
    BY <1>2, <1>3, <1>4, <1>7 DEF Sides

\* A last symbol that is part of no word.
LEMMA SymbolLast ==
    ASSUME NEW m \in MapperType, NEW s \in Seq(Symbols), NEW n \in Nat, Len(s) = n + 1,
           s[n + 1] \notin Words, NEW u, NEW v, Separated(s, n, u, v), Seals(m, u)
    PROVE  Seals(m, s)
  <1>3. /\ Splits(Shown, s, n, u, v) /\ u \in Seq(Symbols) /\ v \in Seq(Symbols)
        /\ Len(v) = Len(s) - n
        /\ \A k \in 1..Len(v) : v[k] = s[k + n]
    <2>1. Sides(s, n, u, v)
      BY NoWordCut
    <2> QED
      BY <2>1 DEF Sides
  <1>4. PICK c \in Symbols : c = s[n + 1]
    BY SeqFacts
  <1>5. Len(v) = 1 /\ v[1] = c
    <2>1. Len(s) - n = 1 /\ 1 + n = n + 1
      OBVIOUS
    <2>2. Len(v) = 1 /\ 1 \in 1..Len(v)
      BY <1>3, <2>1
    <2> QED
      BY <1>3, <1>4, <2>1, <2>2
  <1>6. v = <<c>>
    <2>1. PICK w : w = <<c>>
      OBVIOUS
    <2>2. w \in Seq(Symbols) /\ Len(w) = 1 /\ w[1] = c
      BY <2>1
    <2>3. \A k \in 1..Len(v) : v[k] = w[k]
      BY <1>5, <2>2
    <2>4. v = w
      BY <1>3, <1>5, <2>2, <2>3, Extensional
    <2> QED
      BY <2>1, <2>4
  <1>7. Formless(v)
    <2>1. \A i \in 1..Len(v) : i = 1
      BY <1>5
    <2>2. \A i \in 1..Len(v) : \A j \in i..Len(v) : ~PlaceholderAt(v, i, j)
      BY <1>4, <1>5, <2>1 DEF PlaceholderAt, IsWord, WordStarts
    <2> QED
      BY <1>3, <2>2, FormlessIs
  <1>8. Rehydrate(m, v) = v
    BY <1>3, <1>7, FormlessRehydrated
  <1>9. PICK r : r = Rehydrate(m, s)
    OBVIOUS
  <1>10. PICK x : x = Rehydrate(m, u)
    OBVIOUS
  <1>11. r = x \o <<c>>
    <2>1. Rehydrate(m, s) = Rehydrate(m, u) \o Rehydrate(m, v)
      BY <1>3, RehydrateDivided
    <2> QED
      BY <1>6, <1>8, <1>9, <1>10, <2>1
  <1>12. x \in Seq(Symbols) /\ Formless(x)
    BY <1>3, <1>10, RehydrateTyped DEF Seals
  <1>13. Sealed(r)
    BY <1>4, <1>11, <1>12, SymbolSeals
  <1> QED
    BY <1>9, <1>13 DEF Seals, Sealed

\* A text that is one word.
LEMMA WordSeals ==
    ASSUME NEW m \in MapperType, AllInert(m), NEW v \in Seq(Symbols),
           NEW n \in Nat, n = Len(v), n # 0, \A k \in 1..n : v[k] \in Words
    PROVE  Formless(Rehydrate(m, v)) /\ (~Partial(v, 1, n) => Sealed(Rehydrate(m, v)))
  <1>1. 1 \in 1..n /\ n \in 1..n
    OBVIOUS
  <1>2. ASSUME NEW i \in 1..n, NEW j \in i..n, IsWord(v, i, j) PROVE i = 1 /\ j = n
    <2>1. j \in 1..n /\ i # 1 => i - 1 \in 1..n
      OBVIOUS
    <2>2. j # n => j + 1 \in 1..n
      OBVIOUS
    <2> QED
      BY <1>2, <2>1, <2>2 DEF IsWord, WordStarts, WordEnds
  <1>3. CASE PlaceholderAt(v, 1, n)
    <2>1. Only(v)
      BY <1>3 DEF Only
    <2>2. Rehydrate(m, v) = Original(m, v)
      BY <2>1, PlaceholderRehydrated
    <2> QED
      BY <2>2, OriginalSealed DEF Sealed
  <1>4. CASE ~PlaceholderAt(v, 1, n)
    <2>1. Formless(v)
      <3>1. \A i \in 1..n : \A j \in i..n : ~PlaceholderAt(v, i, j)
        BY <1>2, <1>4 DEF PlaceholderAt
      <3> QED
        BY <3>1, FormlessIs
    <2>2. Rehydrate(m, v) = v
      BY <2>1, FormlessRehydrated
    <2>3. ASSUME ~Partial(v, 1, n) PROVE Clean(v, n)
      <3> SUFFICES ASSUME NEW i \in 1..n, WordStarts(v, i), Partial(v, i, n)
                   PROVE  FALSE
        BY DEF Clean
      <3>1. i # 1 => i - 1 \in 1..n
        OBVIOUS
      <3> QED
        BY <2>3, <3>1 DEF WordStarts
    <2> QED
      BY <2>1, <2>2, <2>3 DEF Sealed
  <1> QED
    BY <1>3, <1>4

\* A last word, which starts after position n.
LEMMA WordLast ==
    ASSUME NEW m \in MapperType, AllInert(m), NEW s \in Seq(Symbols), NEW n \in Nat,
           NEW l \in Nat, l = Len(s), IsWord(s, n + 1, l), n < l,
           NEW u, NEW v, Separated(s, n, u, v), Seals(m, u)
    PROVE  Seals(m, s)
  <1>1. n + 1 \in 1..l /\ n + 1 \in Int /\ (n + 1) - 1 = n /\ (n # 0 => n + 1 # 1)
    OBVIOUS
  <1>2. n = 0 \/ s[n] \notin Words
    BY <1>1 DEF IsWord, WordStarts
  <1>5. /\ Splits(Shown, s, n, u, v) /\ u \in Seq(Symbols) /\ v \in Seq(Symbols)
        /\ Len(u) = n /\ Len(v) = Len(s) - n
        /\ \A k \in 1..n : u[k] = s[k]
        /\ \A k \in 1..Len(v) : v[k] = s[k + n]
    <2>1. Sides(s, n, u, v)
      BY NoWordCut
    <2> QED
      BY <2>1 DEF Sides
  <1>6. PICK d \in Nat : d = l - n
    <2>1. l - n \in Nat
      OBVIOUS
    <2> QED
      BY <2>1
  <1>7. d = Len(v) /\ d # 0 /\ d + n = l
    BY <1>5, <1>6
  <1>8. \A k \in 1..d : v[k] \in Words
    <2> TAKE k \in 1..d
    <2>1. k + n \in (n + 1)..l
      BY <1>7
    <2>2. s[k + n] \in Words
      BY <2>1 DEF IsWord
    <2> QED
      BY <1>5, <1>7, <2>2
  <1>9. Clean(s, l) => ~Partial(v, 1, d)
    <2>1. Shifted(v, s, n, 1, d)
      BY <1>5, <1>7 DEF Shifted
    <2>2. 1 \in Int /\ n \in Int /\ d \in Int /\ 1 + n = n + 1 /\ d + n = l
      BY <1>7
    <2>3. Partial(v, 1, d) <=> Partial(s, 1 + n, d + n)
      BY <2>1, <2>2, PartialShifted
    <2>4. WordStarts(s, n + 1) /\ \A k \in (n + 1)..l : s[k] \in Words
      BY DEF IsWord
    <2>5. Clean(s, l) => ~Partial(s, n + 1, l)
      BY <1>1, <2>4 DEF Clean
    <2> QED
      BY <2>2, <2>3, <2>5
  <1>10. PICK y : y = Rehydrate(m, v)
    OBVIOUS
  <1>11. Formless(y) /\ (~Partial(v, 1, d) => Sealed(y))
    BY <1>5, <1>7, <1>8, <1>10, WordSeals
  <1>12. Clean(u, Len(u))
    <2>1. CASE n = 0
      BY <1>5, <2>1 DEF Clean
    <2>2. CASE n # 0
      <3>1. n \in 1..n /\ \A i \in 1..n : n \in i..n
        BY <2>2
      <3>2. u[n] \notin Words
        BY <1>2, <1>5, <2>2, <3>1
      <3> QED
        BY <1>5, <3>1, <3>2 DEF Clean
    <2> QED
      BY <2>1, <2>2
  <1>13. PICK x : x = Rehydrate(m, u)
    OBVIOUS
  <1>14. Sealed(x) /\ x \in Seq(Symbols) /\ y \in Seq(Symbols)
    BY <1>5, <1>10, <1>12, <1>13, RehydrateTyped DEF Seals
  <1>15. PICK r : r = Rehydrate(m, s)
    OBVIOUS
  <1>16. Concat(r, x, y)
    <2>1. Rehydrate(m, s) = Rehydrate(m, u) \o Rehydrate(m, v)
      BY <1>5, RehydrateDivided
    <2> QED
      BY <1>10, <1>13, <1>15, <2>1 DEF Concat
  <1>17. Formless(r) /\ (Clean(y, Len(y)) => Sealed(r))
    BY <1>11, <1>14, <1>16, SealedAhead
  <1>18. Clean(s, l) => Sealed(r)
    BY <1>9, <1>11, <1>17 DEF Sealed
  <1> QED
    BY <1>15, <1>17, <1>18 DEF Seals

LEMMA RehydratedSeals ==
    ASSUME NEW m \in MapperType, AllInert(m), NEW s \in Seq(Symbols)
    PROVE  Seals(m, s)
  <1> DEFINE S == {n \in Nat : \A t \in Seq(Symbols) : Len(t) <= n => Seals(m, t)}
  <1>1. 0 \in S
    <2> SUFFICES ASSUME NEW t \in Seq(Symbols), Len(t) <= 0 PROVE Seals(m, t)
      OBVIOUS
    <2>1. Len(t) = 0
      OBVIOUS
    <2>2. t = <<>>
      BY <2>1, NoLength
    <2> QED
      BY <2>2, RehydrateNothing, NothingSealed DEF Seals, Sealed
  <1>2. ASSUME NEW n \in Nat, n \in S PROVE n + 1 \in S
    <2> SUFFICES ASSUME NEW t \in Seq(Symbols), Len(t) <= n + 1 PROVE Seals(m, t)
      OBVIOUS
    <2>1. \A u \in Seq(Symbols) : Len(u) <= n => Seals(m, u)
      BY <1>2
    <2> HIDE DEF S
    <2>2. PICK l \in Nat : l = Len(t)
      BY SeqFacts
    <2>3. l <= n + 1
      BY <2>2
    <2>4. CASE l <= n
      BY <2>1, <2>2, <2>4
    <2>5. CASE l = n + 1 /\ t[l] \notin Words
      <3>1. PICK u : u = SubSeq(t, 1, n)
        OBVIOUS
      <3>2. n \in 0..Len(t) /\ Edge(t, n)
        BY <2>2, <2>5 DEF Edge
      <3>3. PICK v : v = SubSeq(t, n + 1, Len(t))
        OBVIOUS
      <3>4. Separated(t, n, u, v)
        BY <3>1, <3>2, <3>3 DEF Separated
      <3>5. u \in Seq(Symbols) /\ Len(u) = n
        BY <3>4, NoWordCut DEF Sides
      <3>6. Seals(m, u)
        BY <2>1, <3>5
      <3>7. Len(t) = n + 1 /\ t[n + 1] \notin Words
        BY <2>2, <2>5
      <3> QED
        BY <3>4, <3>6, <3>7, SymbolLast
    <2>6. CASE l = n + 1 /\ t[l] \in Words
      <3>1. PICK p \in 1..l : IsWord(t, p, l)
        <4>1. l # 0 /\ t[l] \in Words
          BY <2>6
        <4> QED
          BY ONLY <2>2, <4>1, LastWord
      <3>2. PICK k \in Nat : k = p - 1
        OBVIOUS
      <3>3. k + 1 = p /\ k < l /\ k <= n /\ k \in 0..Len(t) /\ (k # 0 => p # 1) /\ p - 1 = k
        BY <2>2, <2>6, <3>2
      <3>4. PICK u : u = SubSeq(t, 1, k)
        OBVIOUS
      <3>5. PICK v : v = SubSeq(t, k + 1, Len(t))
        OBVIOUS
      <3>6. Edge(t, k)
        BY <3>1, <3>3 DEF Edge, IsWord, WordStarts
      <3>7. Separated(t, k, u, v)
        BY <3>3, <3>4, <3>5, <3>6 DEF Separated
      <3>8. u \in Seq(Symbols) /\ Len(u) = k
        BY <3>7, NoWordCut DEF Sides
      <3>9. Seals(m, u)
        BY <2>1, <3>3, <3>8
      <3>10. IsWord(t, k + 1, l)
        BY <3>1, <3>3
      <3> QED
        BY <2>2, <3>3, <3>7, <3>9, <3>10, WordLast
    <2>7. l <= n \/ l = n + 1
      BY <2>3
    <2> QED
      BY <2>4, <2>5, <2>6, <2>7
  <1>3. Nat \subseteq S
    <2> HIDE DEF S
    <2> QED
      BY <1>1, <1>2, NatInduced
  <1>4. PICK n \in Nat : n = Len(s)
    BY SeqFacts
  <1> QED
    BY <1>3, <1>4

\* What the end of a text that Held keeps back leaves of it is sealed.
LEMMA SafeSeals ==
    ASSUME NEW m \in MapperType, AllInert(m), NEW b \in Seq(Symbols), NEW safe,
           safe = SubSeq(b, 1, Len(b) - Held(b))
    PROVE  Sealed(Rehydrate(m, safe))
  <1>1. PICK h : h = Len(b) - Held(b)
    OBVIOUS
  <1>2. PICK l \in Nat : l = Len(b)
    BY SeqFacts
  <1>3. h \in 0..l /\ h \in Nat
    <2>1. Held(b) \in 0..l
      BY <1>2, HeldIs
    <2> QED
      BY <1>1, <1>2, <2>1
  <1>4. PICK u : u = <<>>
    OBVIOUS
  <1>5. u \in Seq(Symbols) /\ Len(u) = 0 /\ b = u \o b
    BY <1>4
  <1>6. PICK n : n = 0
    OBVIOUS
  <1>7. Cut(Symbols, b, n, u, b)
    BY <1>5, <1>6, JoinCuts
  <1>8. Clean(b, n)
    BY <1>6 DEF Clean
  <1>9. Clean(b, n + h)
    BY <1>1, <1>7, <1>8, HeldClean
  <1>10. n + h = h
    BY <1>3, <1>6
  <1>11. safe \in Seq(Symbols) /\ Len(safe) = h /\ \A k \in 1..h : b[k] = safe[k]
    <2>1. n \in Nat /\ n <= h /\ h <= Len(b) /\ safe = SubSeq(b, n + 1, h)
      BY <1>1, <1>2, <1>3, <1>6
    <2>2. safe \in Seq(Symbols) /\ Len(safe) = h - n /\ \A k \in 1..(h - n) : safe[k] = b[n + k]
      <3>1. /\ SubSeq(b, n + 1, h) \in Seq(Symbols) /\ Len(SubSeq(b, n + 1, h)) = h - n
            /\ \A k \in 1..(h - n) : SubSeq(b, n + 1, h)[k] = b[n + k]
        BY <1>3, <2>1, PartIs
      <3> QED
        BY <2>1, <3>1
    <2>3. h - n = h /\ \A k \in 1..h : n + k = k
      BY <1>3, <1>6
    <2> QED
      BY <2>2, <2>3
  <1>12. Clean(safe, h)
    <2>1. Clean(b, h)
      BY <1>9, <1>10
    <2> QED
      BY <1>3, <1>11, <2>1, CleanSame
  <1>13. Seals(m, safe)
    BY <1>11, RehydratedSeals
  <1> QED
    BY <1>11, <1>12, <1>13 DEF Seals

\* While chunks may come, what is shown is sealed.
SealedInv == AllInert(mapper) => IF pc = "finished" THEN Formless(shown) ELSE Sealed(shown)

LEMMA ReceiveSeals ==
    ASSUME SealedInv, StreamTypes, pc = "streaming",
           NEW c \in Seq(Symbols), NEW last \in BOOLEAN, Receive(c, last), mapper' = mapper,
           pc' = IF last THEN "finished" ELSE "streaming"
    PROVE  SealedInv'
  <1> SUFFICES ASSUME AllInert(mapper)
               PROVE  IF last THEN Formless(shown') ELSE Sealed(shown')
    BY DEF SealedInv
  <1>1. PICK b : b = buffer \o c
    OBVIOUS
  <1>2. PICK safe : safe = SubSeq(b, 1, Len(b) - Held(b))
    OBVIOUS
  <1>3. PICK rest : rest = SubSeq(b, Len(b) - Held(b) + 1, Len(b))
    OBVIOUS
  <1>4. mapper \in MapperType /\ shown \in Seq(Shown) /\ buffer \in Seq(Symbols)
    BY DEF StreamTypes
  <1>5. b \in Seq(Symbols) /\ safe \in Seq(Symbols) /\ rest \in Seq(Symbols)
    <2>1. Join(Symbols, buffer, c, b)
      BY <1>1, <1>4, Joined
    <2>2. b \in Seq(Symbols)
      BY <2>1 DEF Join
    <2> QED
      BY <1>2, <1>3, <2>2, HeldParts
  <1>6. PICK x : x = Rehydrate(mapper, safe)
    OBVIOUS
  <1>7. PICK y : y = Rehydrate(mapper, rest)
    OBVIOUS
  <1>8. x \in Seq(Shown) /\ y \in Seq(Shown)
    BY <1>4, <1>5, <1>6, <1>7, RehydrateTyped, SymbolsShown
  <1>9. Sealed(x)
    BY <1>2, <1>4, <1>5, <1>6, SafeSeals
  <1>10. Formless(y)
    <2>1. Seals(mapper, rest)
      BY <1>4, <1>5, RehydratedSeals
    <2> QED
      BY <1>7, <2>1 DEF Seals
  <1>11. PICK p : p = shown \o x
    OBVIOUS
  <1>12. p \in Seq(Shown)
    <2>1. Join(Shown, shown, x, p)
      BY <1>4, <1>8, <1>11, Joined
    <2> QED
      BY <2>1 DEF Join
  <1>13. Sealed(p)
    <2>1. Concat(p, shown, x)
      BY <1>11 DEF Concat
    <2>2. Sealed(shown)
      BY DEF SealedInv
    <2>3. Formless(x) /\ Clean(x, Len(x))
      BY <1>9 DEF Sealed
    <2> QED
      BY <1>4, <1>8, <2>1, <2>2, <2>3, SealedAhead
  <1>14. CASE last
    <2>1. shown' = p \o y
      BY <1>1, <1>2, <1>3, <1>6, <1>7, <1>11, <1>14 DEF Receive
    <2>2. PICK q : q = p \o y
      OBVIOUS
    <2>3. Concat(q, p, y)
      BY <2>2 DEF Concat
    <2>4. Formless(q)
      BY <1>8, <1>10, <1>12, <1>13, <2>3, SealedAhead
    <2> QED
      BY <1>14, <2>1, <2>2, <2>4
  <1>15. CASE ~last
    <2>1. shown' = p
      BY <1>1, <1>2, <1>3, <1>6, <1>11, <1>15 DEF Receive
    <2> QED
      BY <1>13, <1>15, <2>1
  <1> QED
    BY <1>14, <1>15

LEMMA ImageSeals ==
    ASSUME SealedInv, StreamTypes, pc = "streaming", ImageChunk
    PROVE  SealedInv'
  <1>1. mapper' = mapper /\ pc' = pc /\ shown' = Append(shown, Image)
    BY DEF ImageChunk, request
  <1>2. SUFFICES ASSUME AllInert(mapper) PROVE Sealed(shown')
    BY <1>1 DEF SealedInv
  <1>3. Formless(shown) /\ shown \in Seq(Shown)
    BY <1>2 DEF SealedInv, Sealed, StreamTypes
  <1>4. shown' = shown \o <<Image>>
    BY <1>1, <1>3, AppendIs, ImageSymbol
  <1> QED
    BY <1>3, <1>4, ImageSymbol, SymbolSeals

(***************************************************************************)
(* The specification.                                                      *)
(***************************************************************************)
\* The entities are parts of the message, none overlaps another, and each has a
\* number.
Sent == Within(text, entities) /\ Apart(entities) /\ AllNumbered(mapper, entities)

\* A model that repeats the message repeats all of it.
Echoed == pc = "finished" /\ echo => Said = sanitized

Inv ==
    /\ TypeOK /\ PriorityRespected /\ Sent /\ ReplacedInPlace
    /\ StreamInv /\ Echoed /\ SealedInv

LEMMA TypeOKIs ==
    TypeOK <=> /\ pc \in {"ready", "streaming", "finished", "ended", "failed"}
               /\ text \in Seq(Symbols) /\ sanitized \in Seq(Symbols)
               /\ Findings(found) /\ Findings(entities)
               /\ StreamTypes
               /\ echo \in BOOLEAN /\ overtaken \in BOOLEAN
               /\ KeptBack(buffer) /\ provider \in Providers
               /\ images \in 0..MaxImages
  BY Zenon DEF TypeOK, Findings, StreamTypes, MapperType, KeptBack

LEMMA NothingReplaced ==
    ASSUME text = <<>>, sanitized = <<>>
    PROVE  ReplacedInPlace
  <1>1. PICK w : w = SentFor(mapper, entities)
    OBVIOUS
  <1>2. PICK F : F = Parted(text, entities, w)
    OBVIOUS
  <1>3. DOMAIN text = {}
    OBVIOUS
  <1>4. F = <<>>
    BY <1>2, <1>3 DEF Parted
  <1>5. FlattenSeq(F) = <<>>
    BY <1>4, FlattenEmpty
  <1>6. sanitized = InPlace(text, entities, w)
    BY <1>2, <1>5, PartsInPlace
  <1> QED
    BY <1>1, <1>3, <1>6, Zenon DEF ReplacedInPlace, SentFor

LEMMA Started ==
    ASSUME Init
    PROVE  Inv
  <1>1. /\ pc = "ready" /\ text = <<>> /\ found = <<>> /\ entities = <<>> /\ sanitized = <<>>
        /\ mapper = Earlier /\ provider \in Providers /\ echo = FALSE
        /\ full = <<>> /\ buffer = <<>> /\ shown = <<>> /\ overtaken = FALSE /\ images = 0
    BY DEF Init
  <1>2. StreamTypes
    <2>1. mapper \in MapperType
      BY <1>1, RedactionAssumption DEF MapperType
    <2> QED
      BY <1>1, <2>1 DEF StreamTypes
  <1>3. Findings(found) /\ Findings(entities)
    BY <1>1 DEF Findings
  <1>4. images \in 0..MaxImages
    <2>1. MaxImages \in Nat
      BY RedactionAssumption
    <2> QED
      BY <1>1, <2>1
  <1>5. text \in Seq(Symbols) /\ sanitized \in Seq(Symbols)
    BY <1>1
  <1>6. TypeOK
    BY <1>1, <1>2, <1>3, <1>4, <1>5, TypeOKIs DEF KeptBack
  <1>7. PriorityRespected
    BY <1>1 DEF PriorityRespected
  <1>8. StreamInv
    BY <1>1, NothingCarried, TextNothing DEF StreamInv, Said
  <1>9. Sent /\ Echoed
    BY <1>1, <1>3, <1>5 DEF Sent, Within, Apart, AllNumbered, Echoed
  <1>10. SealedInv
    BY <1>1, NothingSealed DEF SealedInv
  <1> QED
    BY <1>1, <1>6, <1>7, <1>8, <1>9, <1>10, NothingReplaced DEF Inv

LEMMA AskKeeps ==
    ASSUME Inv, Ask
    PROVE  Inv'
  <1>1. /\ pc \in {"ready", "streaming", "finished", "ended", "failed"}
        /\ StreamTypes /\ echo \in BOOLEAN /\ overtaken \in BOOLEAN
        /\ KeptBack(buffer) /\ provider \in Providers
        /\ images \in 0..MaxImages
    BY TypeOKIs DEF Inv
  <1>2. /\ pc = "ready" /\ pc' = "streaming"
        /\ UNCHANGED <<provider, full, buffer, shown, overtaken, images>>
    BY DEF Ask, stream
  <1>3. PICK ask \in Asks :
            /\ text' = ask.text
            /\ found' = ask.found
            /\ entities' = Resolve(ask.found)
            /\ mapper' = Assign(mapper, entities')
            /\ sanitized' = Replace(mapper', ask.text, entities')
            /\ echo' = (ask.text # <<>>)
    BY Zenon DEF Ask
  <1>4. /\ ask.text \in Seq(Symbols)
        /\ Findings(ask.found)
        /\ \A i \in DOMAIN ask.found :
              ask.found[i].start <= ask.found[i].end /\ ask.found[i].end <= Len(ask.text)
    BY RedactionAssumption DEF Findings
  <1>5. Within(ask.text, entities')
    <2>1. Findings(entities')
      BY <1>3, <1>4, ResolveIs
    <2>2. ASSUME NEW k \in DOMAIN entities'
          PROVE  entities'[k].start <= entities'[k].end /\ entities'[k].end <= Len(ask.text)
      <3>1. PICK i \in Resolved(ask.found) : entities'[k] = ask.found[i]
        BY <1>3, <1>4, ResolveIs
      <3>2. i \in DOMAIN ask.found
        BY <1>4, LeftIs
      <3> QED
        BY <1>4, <3>1, <3>2
    <2> QED
      BY <1>4, <2>1, <2>2 DEF Within
  <1>6. mapper' \in MapperType /\ AllNumbered(mapper', entities')
    BY <1>1, <1>3, <1>5, AssignIs DEF StreamTypes
  <1>7. sanitized' \in Seq(Symbols)
    BY <1>3, <1>5, <1>6, ReplaceTyped
  <1>8. StreamTypes'
    BY <1>1, <1>2, <1>6 DEF StreamTypes
  <1>9. TypeOK'
    <2>1. /\ pc' \in {"ready", "streaming", "finished", "ended", "failed"}
          /\ echo' \in BOOLEAN /\ overtaken' \in BOOLEAN
          /\ KeptBack(buffer') /\ provider' \in Providers
          /\ images' \in 0..MaxImages
      BY <1>1, <1>2, <1>3
    <2>2. text' \in Seq(Symbols) /\ Findings(found') /\ Findings(entities')
      BY <1>3, <1>4, <1>5 DEF Within
    <2> QED
      BY <1>7, <1>8, <2>1, <2>2, Zenon DEF TypeOK, Findings, StreamTypes, MapperType, KeptBack
  <1>10. PriorityRespected'
    BY <1>3, <1>4, PriorityKept DEF PriorityRespected
  <1>11. StreamInv'
    <2>1. full = <<>> /\ shown = <<>> /\ buffer = <<>>
      BY <1>2 DEF Inv, StreamInv
    <2>2. full' = <<>> /\ shown' = <<>> /\ buffer' = <<>> /\ pc' = "streaming"
      BY <1>2, <2>1
    <2> QED
      BY <2>2, NothingCarried, TextNothing DEF StreamInv, Said
  <1>12. Apart(entities')
    BY <1>3, <1>4, ResolvedApart
  <1>13. Sent'
    BY <1>3, <1>5, <1>6, <1>12 DEF Sent
  <1>14. Echoed'
    BY <1>2 DEF Echoed
  <1>15. ReplacedInPlace'
    <2>1. \A i \in DOMAIN text' : Cardinality(Covering(entities', i)) <= 1
      <3> TAKE i \in DOMAIN text'
      <3>1. i \in Nat
        BY <1>3, <1>4
      <3> QED
        BY <1>5, <1>12, <3>1, CoveringOne
    <2>2. ASSUME NoneEmpty'
          PROVE  sanitized' = InPlace(text', entities', SentFor(mapper', entities'))
      <3>1. \A k \in DOMAIN entities' : Length(entities'[k]) > 0
        BY <2>2 DEF NoneEmpty
      <3>2. PICK t : t = ask.text
        OBVIOUS
      <3>3. PICK w : w = SentFor(mapper', entities')
        OBVIOUS
      <3>4. PICK part : part = Parted(t, entities', w)
        OBVIOUS
      <3>5. Replace(mapper', t, entities') = FlattenSeq(part)
        BY <1>5, <1>6, <1>12, <3>1, <3>2, <3>3, <3>4, ReplacedParts
      <3> QED
        BY <1>3, <3>2, <3>3, <3>4, <3>5, PartsInPlace
    <2> QED
      BY <2>1, <2>2, Zenon DEF ReplacedInPlace, SentFor
  <1>16. SealedInv'
    <2>1. shown' = <<>> /\ pc' # "finished"
      BY <1>2 DEF Inv, StreamInv
    <2> QED
      BY <2>1, NothingSealed DEF SealedInv
  <1> QED
    BY <1>9, <1>10, <1>11, <1>13, <1>14, <1>15, <1>16 DEF Inv

LEMMA ChunkTyped ==
    ASSUME TypeOK, NEW c \in Chunks
    PROVE  c \in Seq(Symbols)
  <1>1. sanitized \in Seq(Symbols) /\ full \in Seq(Shown)
    BY TypeOKIs DEF StreamTypes
  <1>2. CASE echo
    <2>1. PICK n : n = Len(Said)
      OBVIOUS
    <2>2. n \in Nat
      BY <1>1, <2>1, TextParts, SeqFacts DEF Said
    <2>3. PICK j \in n..Len(sanitized) : c = SubSeq(sanitized, n + 1, j)
      BY <1>2, <2>1 DEF Chunks
    <2> DEFINE x == n + 1
    <2>4. x \in 1..(Len(sanitized) + 1) /\ j \in (x - 1)..Len(sanitized)
      BY <1>1, <2>2
    <2>5. SubSeq(sanitized, x, j) \in Seq(Symbols)
      <3> HIDE DEF x
      <3> QED
        BY <1>1, <2>4, Part
    <2> QED
      BY <2>3, <2>5
  <1>3. CASE ~echo
    <2>1. c \in SeqOf(ReplySymbols, MaxChunk)
      BY <1>3 DEF Chunks
    <2>2. PICK n \in 0..MaxChunk : c \in [1..n -> ReplySymbols]
      BY <2>1 DEF SeqOf
    <2>3. ReplySymbols \subseteq Symbols /\ MaxChunk \in Nat
      BY RedactionAssumption
    <2>4. n \in Nat /\ c \in [1..n -> Symbols]
      BY <2>2, <2>3
    <2> QED
      BY <2>4
  <1> QED
    BY <1>2, <1>3

LEMMA RequestKept ==
    ASSUME Inv, UNCHANGED request
    PROVE  PriorityRespected' /\ Sent' /\ ReplacedInPlace'
  <1>1. UNCHANGED <<text, found, entities, mapper, sanitized>>
    BY DEF request
  <1>2. PriorityRespected'
    BY <1>1 DEF Inv, PriorityRespected
  <1>3. ReplacedInPlace'
    BY <1>1 DEF Inv, ReplacedInPlace, NoneEmpty
  <1>4. Sent'
    BY <1>1 DEF Inv, Sent
  <1> QED
    BY <1>2, <1>3, <1>4

\* With the last chunk or without.
LEMMA ChunkKeeps ==
    ASSUME Inv, pc = "streaming", NEW c \in Chunks, NEW last \in BOOLEAN,
           Receive(c, last), full' = full \o c, UNCHANGED <<request, overtaken, images>>,
           pc' = IF last THEN "finished" ELSE "streaming",
           last /\ echo => Said \o c = sanitized
    PROVE  Inv'
  <1>1. /\ StreamTypes /\ echo \in BOOLEAN /\ overtaken \in BOOLEAN
        /\ text \in Seq(Symbols) /\ sanitized \in Seq(Symbols)
        /\ Findings(found) /\ Findings(entities)
        /\ images \in 0..MaxImages /\ provider \in Providers
    BY TypeOKIs DEF Inv
  <1>2. c \in Seq(Symbols)
    BY ChunkTyped DEF Inv
  <1>3. UNCHANGED <<text, found, entities, mapper, sanitized, provider, echo, overtaken, images>>
    BY DEF request
  <1>4. StreamInv' /\ StreamTypes'
    BY <1>1, <1>2, <1>3, ReceiveKeeps DEF Inv
  <1>5. KeptBack(buffer')
    <2>1. PICK b : b = buffer \o c
      OBVIOUS
    <2>2. b \in Seq(Symbols)
      <3>1. Join(Symbols, buffer, c, b)
        BY <1>1, <1>2, <2>1, Joined DEF StreamTypes
      <3> QED
        BY <3>1 DEF Join
    <2>3. buffer' = <<>> \/ buffer' = SubSeq(b, Len(b) - Held(b) + 1, Len(b))
      BY <2>1 DEF Receive
    <2> QED
      BY <2>2, <2>3, RestKept DEF KeptBack
  <1>6. TypeOK'
    <2>1. /\ pc' \in {"ready", "streaming", "finished", "ended", "failed"}
          /\ echo' \in BOOLEAN /\ overtaken' \in BOOLEAN
          /\ images' \in 0..MaxImages
          /\ text' \in Seq(Symbols) /\ sanitized' \in Seq(Symbols)
          /\ Findings(found') /\ Findings(entities') /\ provider' \in Providers
      BY <1>1, <1>3
    <2> QED
      BY <1>4, <1>5, <2>1, Zenon DEF TypeOK, Findings, StreamTypes, MapperType, KeptBack
  <1>7. Echoed'
    <2>1. Said' = Said \o c
      <3>1. full \in Seq(Shown) /\ c \in Seq(Shown)
        BY <1>1, <1>2, SymbolsShown DEF StreamTypes
      <3>2. TextOf(c) = c
        BY <1>2, TextPlain
      <3> QED
        BY <3>1, <3>2, TextConcat DEF Said
    <2>2. pc' = "finished" => last
      OBVIOUS
    <2> QED
      BY <1>3, <2>1, <2>2 DEF Echoed
  <1>8. SealedInv'
    BY <1>1, <1>2, <1>3, ReceiveSeals DEF Inv
  <1> QED
    BY <1>4, <1>6, <1>7, <1>8, RequestKept DEF Inv

LEMMA ImageInv ==
    ASSUME Inv, ImageChunk
    PROVE  Inv'
  <1>1. /\ StreamTypes /\ echo \in BOOLEAN /\ overtaken \in BOOLEAN
        /\ text \in Seq(Symbols) /\ sanitized \in Seq(Symbols)
        /\ Findings(found) /\ Findings(entities)
        /\ images \in 0..MaxImages
        /\ KeptBack(buffer) /\ provider \in Providers
    BY TypeOKIs DEF Inv
  <1>2. /\ UNCHANGED <<pc, text, found, entities, mapper, sanitized, provider, echo, buffer>>
        /\ pc = "streaming" /\ images < MaxImages /\ images' = images + 1
        /\ overtaken' = (overtaken \/ buffer # <<>>)
        /\ UNCHANGED request
    BY DEF ImageChunk, request
  <1>3. StreamInv' /\ StreamTypes'
    BY <1>1, <1>2, ImageKeeps DEF Inv
  <1>4. images' \in 0..MaxImages
    <2>1. MaxImages \in Nat
      BY RedactionAssumption
    <2>2. images \in 0..MaxImages /\ images < MaxImages /\ images' = images + 1
      BY <1>1, <1>2
    <2> QED
      BY <2>1, <2>2
  <1>5. TypeOK'
    <2>1. /\ pc' \in {"ready", "streaming", "finished", "ended", "failed"}
          /\ echo' \in BOOLEAN /\ overtaken' \in BOOLEAN
          /\ text' \in Seq(Symbols) /\ sanitized' \in Seq(Symbols)
          /\ Findings(found') /\ Findings(entities')
          /\ KeptBack(buffer') /\ provider' \in Providers
      BY <1>1, <1>2
    <2> QED
      BY <1>3, <1>4, <2>1, Zenon DEF TypeOK, Findings, StreamTypes, MapperType, KeptBack
  <1>6. Echoed'
    BY <1>2 DEF Echoed
  <1>7. SealedInv'
    BY <1>1, <1>2, ImageSeals DEF Inv
  <1> QED
    BY <1>2, <1>3, <1>5, <1>6, <1>7, RequestKept DEF Inv

LEMMA StreamKept ==
    ASSUME Inv, UNCHANGED <<request, stream>>,
           (pc' \in {"ended", "failed"} /\ pc = "streaming") \/ pc' = pc
    PROVE  Inv'
  <1>1. UNCHANGED <<text, found, entities, mapper, sanitized, provider, echo,
                    full, buffer, shown, overtaken, images>>
    BY DEF request, stream
  <1>2. TypeOK'
    BY <1>1 DEF Inv, TypeOK
  <1>3. StreamInv'
    BY <1>1 DEF Inv, StreamInv, Said
  <1>4. Echoed'
    BY <1>1 DEF Inv, Echoed, Said
  <1>5. SealedInv'
    <2>1. SealedInv /\ mapper' = mapper /\ shown' = shown
      BY <1>1 DEF Inv
    <2>2. pc' = pc \/ (pc # "finished" /\ pc' # "finished")
      OBVIOUS
    <2> QED
      BY <2>1, <2>2 DEF SealedInv
  <1> QED
    BY <1>2, <1>3, <1>4, <1>5, RequestKept DEF Inv

LEMMA StepKeeps ==
    ASSUME Inv, [Next]_vars
    PROVE  Inv'
  <1>1. CASE Ask
    BY <1>1, AskKeeps
  <1>2. ASSUME NEW c \in Chunks, Chunk(c) PROVE Inv'
    <2>1. /\ pc = "streaming" /\ pc' = "streaming" /\ Receive(c, FALSE) /\ full' = full \o c
          /\ UNCHANGED <<request, overtaken, images>>
      BY <1>2 DEF Chunk
    <2>2. PICK last \in BOOLEAN : last = FALSE
      OBVIOUS
    <2>3. Receive(c, last) /\ pc' = IF last THEN "finished" ELSE "streaming"
      BY <2>1, <2>2
    <2>4. last /\ echo => Said \o c = sanitized
      BY <2>2
    <2> QED
      BY <2>1, <2>3, <2>4, ChunkKeeps
  <1>3. ASSUME NEW c \in Chunks, FinishChunk(c) PROVE Inv'
    <2>1. /\ pc = "streaming" /\ pc' = "finished" /\ Receive(c, TRUE) /\ full' = full \o c
          /\ echo => Said \o c = sanitized
          /\ UNCHANGED <<request, overtaken, images>>
      BY <1>3 DEF FinishChunk
    <2>2. PICK last \in BOOLEAN : last = TRUE
      OBVIOUS
    <2>3. Receive(c, last) /\ pc' = IF last THEN "finished" ELSE "streaming"
      BY <2>1, <2>2
    <2>4. last /\ echo => Said \o c = sanitized
      BY <2>1
    <2> QED
      BY <2>1, <2>3, <2>4, ChunkKeeps
  <1>4. CASE ImageChunk
    BY <1>4, ImageInv
  <1>5. CASE CloseEarly
    BY <1>5, StreamKept DEF CloseEarly
  <1>6. CASE Fail
    BY <1>6, StreamKept DEF Fail
  <1>7. CASE UNCHANGED vars
    BY <1>7, StreamKept DEF vars
  <1> QED
    BY <1>1, <1>2, <1>3, <1>4, <1>5, <1>6, <1>7 DEF Next

LEMMA Invariant == Spec => []Inv
  <1>1. Init => Inv
    BY Started
  <1>2. Inv /\ [Next]_vars => Inv'
    BY StepKeeps
  <1> QED
    BY <1>1, <1>2, PTL DEF Spec

\* TypeOK holds whatever the message, what the detectors find in it, the answer
\* and its chunks: what is kept back is nothing or the beginning of a placeholder,
\* perhaps with a newline.
THEOREM TypeCorrect == Spec => []TypeOK
  <1>1. Inv => TypeOK
    BY DEF Inv
  <1> QED
    BY <1>1, Invariant, PTL

\* Whatever the detectors find, the registry drops a finding only for one of as
\* high a priority that it keeps, or a pattern's for another pattern's.
THEOREM EntitiesByPriority == Spec => []PriorityRespected
  <1>1. Inv => PriorityRespected
    BY DEF Inv
  <1> QED
    BY <1>1, Invariant, PTL

\* The text sent is the message with a placeholder in the place of each entity and
\* every other symbol as it was, however many entities there are, wherever they
\* are and whatever the lengths of placeholders and originals.
THEOREM FindingsReplacedInPlace == Spec => []ReplacedInPlace
  <1>1. Inv => ReplacedInPlace
    BY DEF Inv
  <1> QED
    BY <1>1, Invariant, PTL

\* An answer of any length, cut into chunks anywhere, is shown as it is rehydrated
\* in one piece.
THEOREM AnswersStreamedAsWhole == Spec => []StreamedAsWhole
  <1>1. ASSUME Inv PROVE StreamedAsWhole
    <2>1. mapper \in MapperType /\ full \in Seq(Shown) /\ shown \in Seq(Shown)
      BY <1>1, TypeOKIs DEF Inv, StreamTypes
    <2>2. StreamInv
      BY <1>1 DEF Inv
    <2>3. Complete(mapper, Said, TextOf(shown) \o Rehydrate(mapper, buffer))
      <3>1. CASE pc # "finished"
        BY <2>1, <2>2, <3>1, CarriedComplete DEF StreamInv
      <3>2. CASE pc = "finished"
        <4>1. buffer = <<>> /\ Complete(mapper, Said, TextOf(shown))
          BY <2>2, <3>2 DEF StreamInv
        <4>2. Rehydrate(mapper, buffer) = <<>>
          BY <4>1, RehydrateNothing
        <4>3. TextOf(shown) \in Seq(Symbols)
          BY <2>1, TextParts
        <4>4. TextOf(shown) \o <<>> = TextOf(shown)
          BY <4>3, EmptyNeutral
        <4> QED
          BY <4>1, <4>2, <4>4
      <3> QED
        BY <3>1, <3>2
    <2>4. pc = "finished" /\ ~overtaken => Complete(mapper, full, shown)
      BY <2>2 DEF StreamInv
    <2> QED
      BY <2>3, <2>4 DEF Complete, StreamedAsWhole
  <1> QED
    BY <1>1, Invariant, PTL

\* A model that repeats the message repeats it to the user with each entity's value
\* in place of what the entity covers, spelled as at first, and every other symbol as
\* it was, however many entities there are, wherever they are, whatever was numbered
\* before and wherever the chunks are cut.
THEOREM OriginalsReturned == Spec => []RoundTrip
  <1>1. ASSUME Inv PROVE RoundTrip
    <2>1. SUFFICES ASSUME pc = "finished", echo, NoneEmpty, NoForm(text),
                          \A k \in DOMAIN entities : Restorable(entities[k])
                   PROVE  TextOf(shown) = InPlace(text, entities, ShownFor(mapper, entities))
      BY Zenon DEF RoundTrip, NoForm, ShownFor
    <2>2. mapper \in MapperType
      BY <1>1, TypeOKIs DEF Inv, StreamTypes
    <2>3. /\ Within(text, entities) /\ Apart(entities) /\ AllNumbered(mapper, entities)
          /\ Said = sanitized
          /\ Complete(mapper, Said, TextOf(shown))
      BY <1>1, <2>1 DEF Inv, Sent, Echoed, StreamInv
    <2>4. PICK part : part = Parted(text, entities, SentFor(mapper, entities))
      OBVIOUS
    <2>5. PICK back : back = Parted(text, entities, ShownFor(mapper, entities))
      OBVIOUS
    <2>6. Repeated(mapper, text, entities, part, back)
      BY <2>4, <2>5 DEF Repeated
    <2>7. sanitized = FlattenSeq(part)
      <3>1. sanitized = InPlace(text, entities, SentFor(mapper, entities))
        BY <1>1, <2>1, Zenon DEF Inv, ReplacedInPlace, SentFor
      <3> QED
        BY <2>4, <3>1, PartsInPlace
    <2>8. \A k \in DOMAIN entities : Fits(mapper, text, entities, k)
      BY <2>1 DEF NoneEmpty, Restorable, Fits
    <2>9. PICK z \in Nat : z = 0
      OBVIOUS
    <2>10. RestoredFrom(mapper, text, part, back, z)
      BY <2>1, <2>2, <2>3, <2>6, <2>8, <2>9, AllRestored
    <2>11. PICK n : n = Len(text)
      OBVIOUS
    <2>12. /\ part \in Seq(Seq(Symbols)) /\ n = Len(part)
           /\ back \in Seq(Seq(Symbols)) /\ n = Len(back)
      BY <2>2, <2>3, <2>6, <2>11, RepeatedParts
    <2>13. SubSeq(part, z + 1, n) = part /\ SubSeq(back, z + 1, n) = back
      BY <2>9, <2>12, PartWhole
    <2>14. Restores(mapper, sanitized, FlattenSeq(back))
      BY <2>7, <2>10, <2>11, <2>13 DEF RestoredFrom
    <2>15. TextOf(shown) = FlattenSeq(back)
      BY <2>3, <2>14 DEF Complete, Restores
    <2> QED
      BY <2>5, <2>15, PartsInPlace
  <1> QED
    BY <1>1, Invariant, PTL

\* However the answer is cut and whatever it says, no placeholder is shown, not even
\* one made of the end of an original and the symbols after it, as long as no
\* original of the conversation looks like a placeholder or ends as one begins.
THEOREM PlaceholdersReplaced == Spec => []NoPlaceholderShown
  <1>1. ASSUME Inv PROVE NoPlaceholderShown
    <2>1. SealedInv
      BY <1>1 DEF Inv
    <2>2. AllInert(mapper) => Formless(shown)
      BY <2>1 DEF SealedInv, Sealed
    <2> QED
      BY <2>2 DEF AllInert, Formless, NoPlaceholderShown
  <1> QED
    BY <1>1, Invariant, PTL
=============================================================================
