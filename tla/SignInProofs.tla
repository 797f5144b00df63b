----------------------------- MODULE SignInProofs -----------------------------
(***************************************************************************)
(* Tokens are taken once and failures are bounded, for any number of       *)
(* workers and requests, whatever restarts, expires or arrives again.      *)
(***************************************************************************)
EXTENDS SignIn, FiniteSetTheorems, TLAPS

(***************************************************************************)
(* Type correctness.                                                       *)
(***************************************************************************)

LEMMA Numbers ==
    /\ Life \in Nat \ {0} /\ Lockout \in Nat \ {0} /\ MaxFailed \in Nat \ {0}
    /\ Expired \in 0 .. Absent /\ Absent \in 0 .. Absent /\ 0 \in 0 .. Absent
    /\ Expired # Absent /\ Absent \in Nat
    /\ 0 \in 0 .. Lockout - 1 /\ 0 \in 0 .. Lockout + 1
  BY SignInAssumption DEF Expired, Absent

Ages == [Tokens -> 0 .. Absent]

Entry == [count : Nat, age : 0 .. Lockout + 1]

LEMMA EntriesTyped ==
    ASSUME NEW entry \in Entry
    PROVE  Checked(entry) \in Entry /\ Failed(entry) \in Entry /\ Older(entry) \in Entry
  <1> entry.count \in Nat /\ entry.age \in 0 .. Lockout + 1 /\ NoEntry \in Entry
    BY Numbers DEF Entry, NoEntry
  <1>1. Checked(entry) \in Entry
    BY DEF Checked
  <1>2. Failed(entry) \in Entry
    <2>1. [count |-> 1, age |-> 0] \in Entry
      BY Numbers DEF Entry
    <2>2. [entry EXCEPT !.count = entry.count + 1] \in Entry
      BY DEF Entry
    <2> QED
      BY <2>1, <2>2 DEF Failed
  <1>3. Older(entry) \in Entry
    <2>1. CASE entry.count > 0 /\ entry.age <= Lockout
      <3>1. entry.age + 1 \in 0 .. Lockout + 1
        BY <2>1, Numbers
      <3> QED
        BY <2>1, <3>1 DEF Older, Entry
    <2> QED
      BY <2>1 DEF Older
  <1> QED
    BY <1>1, <1>2, <1>3

LEMMA AgesTyped ==
    ASSUME NEW ages \in Ages
    PROVE  /\ Cleaned(ages) \in Ages
           /\ \A t \in Tokens : Cleaned(ages)[t] # Absent => ages[t] # Absent
  BY Numbers DEF Ages, Cleaned

LEMMA TypeStep ==
    ASSUME TypeOK, [Next]_vars
    PROVE  TypeOK'
  <1> /\ attempts \in [Workers -> Entry] /\ issued \in [Workers -> Ages]
      /\ req \in [Requests -> Request] /\ failures \in [Workers -> [Recent -> Nat]]
      /\ used \in [Tokens -> Nat] /\ shared \subseteq ResetTokens
      /\ NoEntry \in Entry /\ Idle \in Request /\ Unfailed \in [Recent -> Nat]
      /\ ResetTokens \subseteq Tokens /\ States \subseteq Tokens
    BY Numbers DEF TypeOK, Entry, Ages, NoEntry, Idle, Request, Unfailed, Tokens, Recent
  <1> SUFFICES /\ attempts' \in [Workers -> Entry] /\ issued' \in [Workers -> Ages]
               /\ req' \in [Requests -> Request]
               /\ failures' \in [Workers -> [Recent -> Nat]]
               /\ used' \in [Tokens -> Nat] /\ shared' \subseteq ResetTokens
    BY DEF TypeOK, Entry, Ages
  <1>1. CASE UNCHANGED vars
    BY <1>1 DEF vars
  <1>2. ASSUME NEW r \in Requests, NEW w \in Workers, CheckLockout(r, w)
        PROVE  attempts' \in [Workers -> Entry] /\ req' \in [Requests -> Request]
    BY <1>2, EntriesTyped DEF CheckLockout, Await, Idle, Request
  <1>3. ASSUME NEW r \in Requests, NEW w \in Workers, FindToken(r, w)
        PROVE  /\ issued' \in [Workers -> Ages] /\ req' \in [Requests -> Request]
               /\ shared' \subseteq ResetTokens
    BY <1>3, AgesTyped DEF FindToken, Await, Request
  <1>4. ASSUME NEW r \in Requests, RejectLogin(r)
        PROVE  /\ attempts' \in [Workers -> Entry] /\ req' \in [Requests -> Request]
               /\ failures' \in [Workers -> [Recent -> Nat]]
    <2>1. attempts' \in [Workers -> Entry] /\ req' \in [Requests -> Request]
      BY <1>4, EntriesTyped DEF RejectLogin, Await
    <2>2. failures' \in [Workers -> [Recent -> Nat]]
      <3> DEFINE w == req[r].at
                 more == [age \in Recent |-> failures[w][age] + 1]
      <3>1. failures' = [failures EXCEPT ![w] = more]
        BY <1>4 DEF RejectLogin
      <3>2. w \in Workers => more \in [Recent -> Nat]
        OBVIOUS
      <3> HIDE DEF w, more
      <3> QED
        BY <3>1, <3>2
    <2> QED
      BY <2>1, <2>2
  <1>5. ASSUME NEW r \in Requests, AcceptLogin(r) \/ Fail(r)
        PROVE  /\ attempts' \in [Workers -> Entry] /\ req' \in [Requests -> Request]
               /\ failures' \in [Workers -> [Recent -> Nat]]
    BY <1>5 DEF AcceptLogin, Fail, Await
  <1>6. ASSUME NEW r \in Requests, TakeToken(r)
        PROVE  /\ issued' \in [Workers -> Ages] /\ req' \in [Requests -> Request]
               /\ used' \in [Tokens -> Nat]
    <2> DEFINE w == req[r].at
               t == req[r].token
               less == [issued[w] EXCEPT ![t] = Absent]
               more == used[t] + 1
    <2>1. /\ issued' = [issued EXCEPT ![w] = less] /\ req' = [req EXCEPT ![r] = Idle]
          /\ used' = [used EXCEPT ![t] = more]
      BY <1>6 DEF TakeToken, Await
    <2>2. w \in Workers => less \in Ages
      BY Numbers DEF Ages
    <2>6. t \in Tokens => more \in Nat
      OBVIOUS
    <2> HIDE DEF w, t, less, more
    <2>3. issued' \in [Workers -> Ages]
      BY <2>1, <2>2
    <2>4. req' \in [Requests -> Request]
      BY <2>1
    <2>5. used' \in [Tokens -> Nat]
      BY <2>1, <2>6
    <2> QED
      BY <2>3, <2>4, <2>5
  <1>7. ASSUME NEW w \in Workers, Issue(w)
        PROVE  issued' \in [Workers -> Ages]
    BY <1>7, AgesTyped, Numbers DEF Issue, Ages
  <1>8. ASSUME NEW w \in Workers, TakeState(w)
        PROVE  issued' \in [Workers -> Ages] /\ used' \in [Tokens -> Nat]
    BY <1>8, AgesTyped, Numbers DEF TakeState, Without, Ages
  <1>9. ASSUME NEW w \in Workers, Restart(w)
        PROVE  /\ attempts' \in [Workers -> Entry] /\ issued' \in [Workers -> Ages]
               /\ req' \in [Requests -> Request]
               /\ failures' \in [Workers -> [Recent -> Nat]]
    BY <1>9, Numbers DEF Restart, Ages
  <1>10. CASE Tick
    <2>1. attempts' \in [Workers -> Entry]
      BY <1>10, EntriesTyped DEF Tick
    <2>2. \A a \in 0 .. Absent : a < Expired => a + 1 \in 0 .. Absent
      BY SignInAssumption DEF Expired, Absent
    <2>3. issued' \in [Workers -> Ages]
      BY <1>10, <2>2 DEF Tick, Ages
    <2>4. \A age \in Recent : age # 0 => age - 1 \in Recent
      BY Numbers DEF Recent
    <2>5. failures' \in [Workers -> [Recent -> Nat]]
      BY <1>10, <2>4 DEF Tick
    <2> QED
      BY <1>10, <2>1, <2>3, <2>5 DEF Tick
  <1>11. CASE \E r \in Requests : (\E w \in Workers : CheckLockout(r, w)) \/ RejectLogin(r)
                                    \/ AcceptLogin(r) \/ Fail(r)
    BY <1>2, <1>4, <1>5, <1>11 DEF CheckLockout, RejectLogin, AcceptLogin, Fail
  <1>12. CASE \E r \in Requests : (\E w \in Workers : FindToken(r, w)) \/ TakeToken(r)
    BY <1>3, <1>6, <1>12 DEF FindToken, TakeToken
  <1>13. CASE \E w \in Workers : Issue(w) \/ TakeState(w) \/ Restart(w)
    BY <1>7, <1>8, <1>9, <1>13 DEF Issue, TakeState, Restart
  <1> QED
    BY <1>1, <1>10, <1>11, <1>12, <1>13 DEF Next

\* Every variable of the sign-in keeps to its type.
THEOREM TypeCorrect == Spec => []TypeOK
  <1>1. Init => TypeOK
    BY Numbers DEF Init, TypeOK, NoEntry, Unfailed, Idle, Request, Recent
  <1> QED
    BY <1>1, TypeStep, PTL DEF Spec

(***************************************************************************)
(* Tokens are taken once.                                                  *)
(***************************************************************************)

Holders(t) == {r \in Requests : req[r].token = t}

\* A token is in one worker only, where the requests that found it are, and it is
\* gone from there once one of them took it. What was taken and what may still be
\* are bounded together.
Taken ==
    /\ \A r \in Requests : req[r].step = "reset" =>
          req[r].token \in ResetTokens /\ req[r].at \in Workers
    /\ \A r \in Requests : req[r].step # "reset" => req[r].token = None
    /\ \A t \in Tokens, v, w \in Workers :
          issued[v][t] # Absent /\ issued[w][t] # Absent => v = w
    /\ \A t \in Tokens, r \in Requests, w \in Workers :
          req[r].token = t /\ issued[w][t] # Absent => w = req[r].at
    /\ \A t \in Tokens, w \in Workers : issued[w][t] # Absent => used[t] = 0
    /\ \A t \in Tokens :
          /\ t \in shared => used[t] + Cardinality(Holders(t)) <= Cardinality(Requests)
          /\ t \notin shared => used[t] + Cardinality(Holders(t)) <= 1

LEMMA HoldersFinite ==
    /\ Cardinality(Requests) \in Nat
    /\ \A t : /\ IsFiniteSet(Holders(t)) /\ Cardinality(Holders(t)) \in Nat
              /\ Cardinality(Holders(t)) <= Cardinality(Requests)
  <1>1. IsFiniteSet(Requests)
    BY SignInAssumption
  <1>2. \A t : Holders(t) \subseteq Requests
    BY DEF Holders
  <1> QED
    BY <1>1, <1>2, FS_Subset, FS_CardinalityType

\* The request ends, is about no token or goes on.
Ends(r) == req'[r] = req[r] \/ (req'[r].step # "reset" /\ req'[r].token = None)

\* The token does not appear in the worker.
Keeps(t, w) == issued'[w][t] # Absent => issued[w][t] # Absent

NothingTaken ==
    /\ used' = used /\ shared' = shared
    /\ \A r \in Requests : Ends(r)
    /\ \A t \in Tokens, w \in Workers : Keeps(t, w)

LEMMA TakenKept ==
    ASSUME TypeOK, TypeOK', Taken, NothingTaken
    PROVE  Taken'
  <1> /\ used' = used /\ shared' = shared
      /\ \A r \in Requests : \/ req'[r] = req[r]
                             \/ req'[r].step # "reset" /\ req'[r].token = None
      /\ \A t \in Tokens, w \in Workers : issued'[w][t] # Absent => issued[w][t] # Absent
    BY DEF NothingTaken, Ends, Keeps
  <1>1. /\ \A r \in Requests : req'[r].step = "reset" =>
              req'[r].token \in ResetTokens /\ req'[r].at \in Workers
        /\ \A r \in Requests : req'[r].step # "reset" => req'[r].token = None
    BY DEF Taken
  <1>2. None \notin Tokens
    BY SignInAssumption
  <1>3. /\ \A t \in Tokens, v, w \in Workers :
              issued'[v][t] # Absent /\ issued'[w][t] # Absent => v = w
        /\ \A t \in Tokens, r \in Requests, w \in Workers :
              req'[r].token = t /\ issued'[w][t] # Absent => w = req'[r].at
        /\ \A t \in Tokens, w \in Workers : issued'[w][t] # Absent => used'[t] = 0
    BY <1>2 DEF Taken
  <1>4. ASSUME NEW t \in Tokens
        PROVE  /\ t \in shared' => used'[t] + Cardinality(Holders(t)') <= Cardinality(Requests)
               /\ t \notin shared' => used'[t] + Cardinality(Holders(t)') <= 1
    <2>1. Holders(t)' \subseteq Holders(t)
      BY <1>2 DEF Holders
    <2>2. /\ Cardinality(Holders(t)') \in Nat /\ Cardinality(Holders(t)) \in Nat
          /\ Cardinality(Holders(t)') <= Cardinality(Holders(t))
      BY <2>1, HoldersFinite, FS_Subset, FS_CardinalityType
    <2>3. used[t] \in Nat /\ Cardinality(Requests) \in Nat
      BY HoldersFinite DEF TypeOK
    <2>4. /\ t \in shared => used[t] + Cardinality(Holders(t)) <= Cardinality(Requests)
          /\ t \notin shared => used[t] + Cardinality(Holders(t)) <= 1
      BY DEF Taken
    <2> QED
      BY <2>2, <2>3, <2>4
  <1> QED
    BY <1>1, <1>3, <1>4 DEF Taken, Holders

LEMMA TakenFind ==
    ASSUME TypeOK, TypeOK', Taken, NEW r \in Requests, NEW w \in Workers, FindToken(r, w)
    PROVE  Taken'
  <1>1. PICK t \in ResetTokens :
           /\ Cleaned(issued[w])[t] # Absent
           /\ issued' = [issued EXCEPT ![w] = Cleaned(@)]
           /\ shared' = IF \E q \in Requests : req[q].token = t THEN shared \cup {t} ELSE shared
           /\ req' = [req EXCEPT ![r] = [step |-> "reset", at |-> w, token |-> t]]
    BY DEF FindToken, Await
  <1>2. /\ req \in [Requests -> Request] /\ issued \in [Workers -> Ages] /\ used' = used
        /\ used \in [Tokens -> Nat] /\ req[r] = Idle /\ t \in Tokens /\ None \notin Tokens
    BY SignInAssumption DEF TypeOK, Ages, FindToken, Tokens
  <1>3. req[r].step = "idle" /\ req[r].token = None
    BY <1>2 DEF Idle
  <1>4. \A u \in Tokens, v \in Workers : issued'[v][u] # Absent => issued[v][u] # Absent
    BY <1>1, <1>2, AgesTyped
  <1>5. issued[w][t] # Absent /\ used[t] = 0
    BY <1>1, <1>2, AgesTyped DEF Taken
  <1>6. /\ \A q \in Requests : req'[q].step = "reset" =>
              req'[q].token \in ResetTokens /\ req'[q].at \in Workers
        /\ \A q \in Requests : req'[q].step # "reset" => req'[q].token = None
    BY <1>1, <1>2 DEF Taken
  <1>7. /\ \A u \in Tokens, v, x \in Workers :
              issued'[v][u] # Absent /\ issued'[x][u] # Absent => v = x
        /\ \A u \in Tokens, v \in Workers : issued'[v][u] # Absent => used'[u] = 0
    BY <1>2, <1>4 DEF Taken
  <1>8. ASSUME NEW u \in Tokens, NEW q \in Requests, NEW v \in Workers,
               req'[q].token = u, issued'[v][u] # Absent
        PROVE  v = req'[q].at
    <2>1. issued[v][u] # Absent
      BY <1>4, <1>8
    <2>2. CASE q = r
      BY <1>1, <1>2, <1>5, <1>8, <2>1, <2>2 DEF Taken
    <2>3. CASE q # r
      BY <1>1, <1>2, <1>8, <2>1, <2>3 DEF Taken
    <2> QED
      BY <2>2, <2>3
  <1>9. ASSUME NEW u \in Tokens, u # t
        PROVE  Holders(u)' = Holders(u) /\ (u \in shared' <=> u \in shared) /\ used'[u] = used[u]
    BY <1>1, <1>2, <1>3, <1>9 DEF Holders
  <1>10. Holders(t)' = Holders(t) \cup {r} /\ r \notin Holders(t)
    BY <1>1, <1>2, <1>3 DEF Holders
  <1>11. /\ Cardinality(Holders(t)') <= Cardinality(Requests) /\ Cardinality(Holders(t)') \in Nat
         /\ Cardinality(Holders(t)') = Cardinality(Holders(t)) + 1
    <2>1. Holders(t)' \subseteq Requests /\ IsFiniteSet(Requests) /\ IsFiniteSet(Holders(t))
      BY SignInAssumption, HoldersFinite DEF Holders
    <2> QED
      BY <2>1, <1>10, FS_Subset, FS_CardinalityType, FS_AddElement
  <1>12. t \notin shared' => Holders(t) = {}
    BY <1>1, <1>2 DEF Holders
  <1>13. t \notin shared' => Cardinality(Holders(t)') = 1
    BY <1>11, <1>12, FS_EmptySet
  <1>14. /\ t \in shared' => used'[t] + Cardinality(Holders(t)') <= Cardinality(Requests)
         /\ t \notin shared' => used'[t] + Cardinality(Holders(t)') <= 1
    BY <1>2, <1>5, <1>11, <1>13
  <1>15. ASSUME NEW u \in Tokens
         PROVE  /\ u \in shared' => used'[u] + Cardinality(Holders(u)') <= Cardinality(Requests)
                /\ u \notin shared' => used'[u] + Cardinality(Holders(u)') <= 1
    <2>1. CASE u = t
      BY <1>14, <2>1
    <2>2. CASE u # t
      BY <1>9, <2>2 DEF Taken
    <2> QED
      BY <2>1, <2>2
  <1> QED
    BY <1>6, <1>7, <1>8, <1>15 DEF Taken, Holders

LEMMA TakenReset ==
    ASSUME TypeOK, TypeOK', Taken, NEW r \in Requests, TakeToken(r)
    PROVE  Taken'
  <1> PICK w, t : req[r].at = w /\ req[r].token = t
    OBVIOUS
  <1>1. /\ req[r].step = "reset"
        /\ issued' = [issued EXCEPT ![w] = [issued[w] EXCEPT ![t] = Absent]]
        /\ used' = [used EXCEPT ![t] = used[t] + 1]
        /\ req' = [req EXCEPT ![r] = Idle] /\ shared' = shared
    BY DEF TakeToken, Await
  <1>2. /\ req \in [Requests -> Request] /\ issued \in [Workers -> Ages]
        /\ used \in [Tokens -> Nat] /\ None \notin Tokens
        /\ t \in Tokens /\ t \in ResetTokens /\ w \in Workers
    BY <1>1, SignInAssumption DEF TypeOK, Ages, Tokens, Taken
  <1>3. Idle.step # "reset" /\ Idle.token = None
    BY DEF Idle
  <1>4. req[r].token = t /\ req[r].at = w
    OBVIOUS
  <1>5. \A u \in Tokens, v \in Workers :
           issued'[v][u] # Absent => issued[v][u] # Absent /\ ~(v = w /\ u = t)
    BY <1>1, <1>2 DEF Ages
  <1>6. \A v \in Workers : issued[v][t] # Absent => v = w
    BY <1>2, <1>4 DEF Taken
  <1>7. \A u \in Tokens, v \in Workers : issued'[v][u] # Absent => u # t /\ used[u] = 0
    BY <1>5, <1>6 DEF Taken
  <1>8. \A u \in Tokens, v \in Workers : issued'[v][u] # Absent => used'[u] = 0
    BY <1>1, <1>2, <1>7
  <1>9. \A q \in Requests : req'[q] = IF q = r THEN Idle ELSE req[q]
    BY <1>1, <1>2
  <1>10. /\ \A q \in Requests : req'[q].step = "reset" =>
               req'[q].token \in ResetTokens /\ req'[q].at \in Workers
         /\ \A q \in Requests : req'[q].step # "reset" => req'[q].token = None
         /\ \A u \in Tokens, v, x \in Workers :
               issued'[v][u] # Absent /\ issued'[x][u] # Absent => v = x
         /\ \A u \in Tokens, q \in Requests, v \in Workers :
               req'[q].token = u /\ issued'[v][u] # Absent => v = req'[q].at
    BY <1>2, <1>3, <1>5, <1>9 DEF Taken
  <1>11. Holders(t)' = Holders(t) \ {r} /\ r \in Holders(t)
    <2>1. r \in Holders(t)
      BY <1>4 DEF Holders
    <2>2. \A q \in Requests : req'[q].token = t <=> req[q].token = t /\ q # r
      BY <1>2, <1>3, <1>9
    <2>3. Holders(t)' = {q \in Requests : req'[q].token = t}
      BY DEF Holders
    <2> QED
      BY <2>1, <2>2, <2>3 DEF Holders
  <1>12. \A u \in Tokens : u # t => Holders(u)' = Holders(u) /\ used'[u] = used[u]
    BY <1>1, <1>2, <1>3, <1>4, <1>9 DEF Holders
  <1>13. Cardinality(Holders(t)') = Cardinality(Holders(t)) - 1
    BY <1>11, HoldersFinite, FS_RemoveElement
  <1>14. used'[t] = used[t] + 1 /\ used[t] \in Nat /\ Cardinality(Holders(t)) \in Nat
    BY <1>1, <1>2, HoldersFinite
  <1>15. used'[t] + Cardinality(Holders(t)') = used[t] + Cardinality(Holders(t))
    BY <1>13, <1>14
  <1>16. ASSUME NEW u \in Tokens
         PROVE  /\ u \in shared' => used'[u] + Cardinality(Holders(u)') <= Cardinality(Requests)
                /\ u \notin shared' => used'[u] + Cardinality(Holders(u)') <= 1
    <2>1. CASE u = t
      BY <1>1, <1>15, <2>1 DEF Taken
    <2>2. CASE u # t
      BY <1>1, <1>12, <2>2 DEF Taken
    <2> QED
      BY <2>1, <2>2
  <1> QED
    BY <1>8, <1>10, <1>16 DEF Taken, Holders

LEMMA TakenState ==
    ASSUME TypeOK, TypeOK', Taken, NEW w \in Workers, TakeState(w)
    PROVE  Taken'
  <1>1. PICK t \in States :
           /\ Cleaned(issued[w])[t] # Absent
           /\ issued' = [issued EXCEPT ![w] = Without(@, t)]
           /\ used' = [used EXCEPT ![t] = @ + 1]
    BY DEF TakeState
  <1>2. /\ req' = req /\ shared' = shared
        /\ issued \in [Workers -> Ages] /\ used \in [Tokens -> Nat]
        /\ t \in Tokens /\ t \notin shared /\ t \notin ResetTokens
    BY <1>1, SignInAssumption DEF TypeOK, Ages, Tokens, TakeState
  <1>3. issued[w][t] # Absent
    BY <1>1, <1>2, AgesTyped
  <1>4. \A u \in Tokens, v \in Workers :
           issued'[v][u] # Absent => issued[v][u] # Absent /\ ~(v = w /\ u = t)
    BY <1>1, <1>2, AgesTyped DEF Without, Ages
  <1>5. \A v \in Workers : issued[v][t] # Absent => v = w
    BY <1>2, <1>3 DEF Taken
  <1>6. used[t] = 0
    BY <1>2, <1>3 DEF Taken
  <1>7. \A u \in Tokens, v \in Workers : issued'[v][u] # Absent => used'[u] = 0
    BY <1>1, <1>2, <1>4, <1>5 DEF Taken
  <1>8. /\ \A q \in Requests : req'[q].step = "reset" =>
              req'[q].token \in ResetTokens /\ req'[q].at \in Workers
        /\ \A q \in Requests : req'[q].step # "reset" => req'[q].token = None
        /\ \A u \in Tokens, v, x \in Workers :
              issued'[v][u] # Absent /\ issued'[x][u] # Absent => v = x
        /\ \A u \in Tokens, q \in Requests, v \in Workers :
              req'[q].token = u /\ issued'[v][u] # Absent => v = req'[q].at
    BY <1>2, <1>4 DEF Taken
  <1>9. \A u : Holders(u)' = Holders(u)
    BY <1>2 DEF Holders
  <1>10. Holders(t) = {}
    <2>1. ASSUME NEW q \in Requests, req[q].token = t
          PROVE  FALSE
      BY <1>2, <2>1, SignInAssumption DEF Taken
    <2> QED
      BY <2>1 DEF Holders
  <1>11. used'[t] = 1 /\ Cardinality(Holders(t)') = 0
    BY <1>1, <1>2, <1>6, <1>9, <1>10, FS_EmptySet
  <1>12. used'[t] + Cardinality(Holders(t)') <= 1
    BY <1>11
  <1>13. ASSUME NEW u \in Tokens
         PROVE  /\ u \in shared' => used'[u] + Cardinality(Holders(u)') <= Cardinality(Requests)
                /\ u \notin shared' => used'[u] + Cardinality(Holders(u)') <= 1
    <2>1. CASE u = t
      BY <1>2, <1>12, <2>1
    <2>2. CASE u # t
      BY <1>1, <1>2, <1>9, <2>2 DEF Taken
    <2> QED
      BY <2>1, <2>2
  <1> QED
    BY <1>7, <1>8, <1>13 DEF Taken, Holders

\* Only a token that nothing knows of is issued.
LEMMA TakenIssue ==
    ASSUME TypeOK, TypeOK', Taken, NEW w \in Workers, Issue(w)
    PROVE  Taken'
  <1>1. PICK t \in Tokens :
           /\ Fresh(t)
           /\ issued' = [issued EXCEPT ![w] = [Cleaned(@) EXCEPT ![t] = 0]]
    BY DEF Issue
  <1>2. /\ req' = req /\ shared' = shared /\ used' = used /\ issued \in [Workers -> Ages]
    BY DEF TypeOK, Ages, Issue
  <1>3. \A u \in Tokens, v \in Workers :
           issued'[v][u] # Absent => issued[v][u] # Absent \/ (v = w /\ u = t)
    BY <1>1, <1>2, AgesTyped DEF Ages
  <1>4. /\ used[t] = 0 /\ \A v \in Workers : issued[v][t] = Absent
        /\ \A r \in Requests : req[r].token # t
    BY <1>1 DEF Fresh
  <1>5. /\ \A q \in Requests : req'[q].step = "reset" =>
              req'[q].token \in ResetTokens /\ req'[q].at \in Workers
        /\ \A q \in Requests : req'[q].step # "reset" => req'[q].token = None
        /\ \A u \in Tokens, v, x \in Workers :
              issued'[v][u] # Absent /\ issued'[x][u] # Absent => v = x
        /\ \A u \in Tokens, q \in Requests, v \in Workers :
              req'[q].token = u /\ issued'[v][u] # Absent => v = req'[q].at
        /\ \A u \in Tokens, v \in Workers : issued'[v][u] # Absent => used'[u] = 0
    BY <1>2, <1>3, <1>4 DEF Taken
  <1>6. \A u : Holders(u)' = Holders(u)
    BY <1>2 DEF Holders
  <1> QED
    BY <1>2, <1>5, <1>6 DEF Taken, Holders

LEMMA TakenStep ==
    ASSUME TypeOK, TypeOK', Taken, [Next]_vars
    PROVE  Taken'
  <1>1. /\ req \in [Requests -> Request] /\ issued \in [Workers -> Ages]
        /\ Idle.step = "idle" /\ Idle.token = None
    BY DEF TypeOK, Ages, Idle
  <1>2. req' = req => \A r \in Requests : Ends(r)
    BY DEF Ends
  <1>3. issued' = issued => \A t \in Tokens, w \in Workers : Keeps(t, w)
    BY DEF Keeps
  <1>4. ASSUME NEW r \in Requests, NEW next, req' = [req EXCEPT ![r] = next],
               next.step # "reset" /\ next.token = None
        PROVE  \A q \in Requests : Ends(q)
    BY <1>1, <1>4 DEF Ends
  <1>5. ASSUME UNCHANGED vars
        PROVE  NothingTaken
    BY <1>2, <1>3, <1>5 DEF vars, NothingTaken
  <1>6. ASSUME NEW r \in Requests, NEW w \in Workers, CheckLockout(r, w)
        PROVE  (\A q \in Requests : Ends(q)) /\ UNCHANGED <<issued, used, shared>>
    <2> DEFINE next == [Idle EXCEPT !.step = "login", !.at = w]
    <2>1. next.step # "reset" /\ next.token = None
      BY DEF Idle
    <2>2. req' = [req EXCEPT ![r] = next] /\ UNCHANGED <<issued, used, shared>>
      BY <1>6 DEF CheckLockout, Await
    <2> HIDE DEF next
    <2> QED
      BY <1>4, <2>1, <2>2
  <1>7. ASSUME NEW r \in Requests, RejectLogin(r) \/ AcceptLogin(r) \/ Fail(r)
        PROVE  (\A q \in Requests : Ends(q)) /\ UNCHANGED <<issued, used, shared>>
    <2>1. req' = [req EXCEPT ![r] = Idle] /\ UNCHANGED <<issued, used, shared>>
      BY <1>7 DEF RejectLogin, AcceptLogin, Fail, Await
    <2> QED
      BY <1>1, <1>4, <2>1
  <1>8. ASSUME NEW w \in Workers, Restart(w)
        PROVE  NothingTaken
    <2>1. used' = used /\ shared' = shared
      BY <1>8 DEF Restart
    <2>2. \A r \in Requests : Ends(r)
      BY <1>1, <1>8 DEF Restart, Ends
    <2>3. \A t \in Tokens, v \in Workers : Keeps(t, v)
      BY <1>1, <1>8 DEF Restart, Keeps
    <2> QED
      BY <2>1, <2>2, <2>3 DEF NothingTaken
  <1>9. ASSUME Tick
        PROVE  NothingTaken
    <2>1. req' = req /\ used' = used /\ shared' = shared
      BY <1>9 DEF Tick
    <2>2. ~(Absent < Expired)
      BY SignInAssumption DEF Absent, Expired
    <2>3. \A t \in Tokens, v \in Workers : Keeps(t, v)
      BY <1>9, <2>2 DEF Tick, Keeps
    <2> QED
      BY <1>2, <2>1, <2>3 DEF NothingTaken
  <1> QED
    <2>1. ASSUME NEW r \in Requests, NEW w \in Workers, FindToken(r, w)
          PROVE  Taken'
      BY <2>1, TakenFind
    <2>2. ASSUME NEW r \in Requests, TakeToken(r)
          PROVE  Taken'
      BY <2>2, TakenReset
    <2>3. ASSUME NEW w \in Workers, Issue(w) \/ TakeState(w)
          PROVE  Taken'
      BY <2>3, TakenState, TakenIssue
    <2>4. NothingTaken => Taken'
      BY TakenKept
    <2> QED
      BY <1>3, <1>5, <1>6, <1>7, <1>8, <1>9, <2>1, <2>2, <2>3, <2>4 DEF Next, NothingTaken

\* A state lets one callback through and a reset token one reset, except that
\* resets which had all found the token before the first took it go through.
THEOREM TakenOnce == Spec => []TokensTakenOnce
  <1>1. Init => Taken
    <2> SUFFICES ASSUME Init PROVE Taken
      OBVIOUS
    <2>1. \A t \in Tokens : Holders(t) = {}
      BY SignInAssumption DEF Init, Idle, Holders
    <2>2. \A t \in Tokens : Cardinality(Holders(t)) = 0 /\ used[t] = 0
      BY <2>1, FS_EmptySet DEF Init
    <2> QED
      BY <2>2 DEF Init, Idle, Taken
  <1>2. TypeOK /\ Taken => TokensTakenOnce
    <2> SUFFICES ASSUME TypeOK, Taken, NEW t \in Tokens
                 PROVE  /\ used[t] <= IF t \in shared THEN Cardinality(Requests) ELSE 1
                        /\ used[t] > 0 => \A w \in Workers : issued[w][t] = Absent
      BY DEF TokensTakenOnce
    <2>1. used[t] \in Nat /\ Cardinality(Holders(t)) \in Nat /\ Cardinality(Requests) \in Nat
      BY HoldersFinite DEF TypeOK
    <2>2. /\ t \in shared => used[t] <= Cardinality(Requests)
          /\ t \notin shared => used[t] <= 1
      BY <2>1 DEF Taken
    <2>3. used[t] > 0 => \A w \in Workers : issued[w][t] = Absent
      BY <2>1 DEF Taken
    <2> QED
      BY <2>2, <2>3
  <1> QED
    BY <1>1, <1>2, TakenStep, TypeCorrect, PTL DEF Spec

(***************************************************************************)
(* Failures are bounded, and needed for a lockout.                         *)
(***************************************************************************)

\* What one window may count: the failures up to the one that locks, and those of
\* the requests that are behind it.
PerWindow == MaxFailed - 1 + Cardinality(Requests)

Pending(w) == {r \in Requests : req[r].step = "login" /\ req[r].at = w}

\* What the failures f up to each age have to do with the entry that counts them:
\* those younger than its first are all in its count, and its count is of those as
\* young as its first. The others are what is left of the window before it, whose
\* own first is too old to be among them.
Consistent(entry, f) ==
    /\ \A i, j \in Recent : i <= j => f[i] <= f[j]
    /\ f[Lockout - 1] < entry.count + PerWindow
    /\ entry.count > 0 =>
          \A i \in Recent : IF i < entry.age THEN f[i] < entry.count ELSE f[i] >= entry.count

FailuresCounted ==
    \A w \in Workers :
        /\ attempts[w].count + Cardinality(Pending(w)) <= PerWindow
        /\ Consistent(attempts[w], failures[w])

LEMMA PendingFinite ==
    /\ Cardinality(Requests) \in Nat \ {0} /\ PerWindow \in Nat \ {0} /\ MaxFailed <= PerWindow
    /\ \A w : /\ IsFiniteSet(Pending(w)) /\ Cardinality(Pending(w)) \in Nat
              /\ Cardinality(Pending(w)) <= Cardinality(Requests)
  <1>1. IsFiniteSet(Requests) /\ Requests # {}
    BY SignInAssumption
  <1>2. \A w : Pending(w) \subseteq Requests
    BY DEF Pending
  <1>3. Cardinality(Requests) \in Nat \ {0}
    BY <1>1, FS_CardinalityType, FS_EmptySet
  <1>4. PerWindow \in Nat \ {0} /\ MaxFailed <= PerWindow
    BY <1>3, Numbers DEF PerWindow
  <1> QED
    BY <1>1, <1>2, <1>3, <1>4, FS_Subset, FS_CardinalityType

LEMMA ConsistentAnew == Consistent(NoEntry, Unfailed)
  BY Numbers, PendingFinite DEF Consistent, NoEntry, Unfailed, Recent

\* A lockout that has passed leaves fewer failures than its window counted.
LEMMA ConsistentChecked ==
    ASSUME NEW entry \in Entry, NEW f \in [Recent -> Nat], Consistent(entry, f),
           ~Locked(entry), entry.count <= PerWindow
    PROVE  Consistent(Checked(entry), f) /\ Checked(entry).count <= MaxFailed - 1
  <1> entry.count \in Nat /\ entry.age \in 0 .. Lockout + 1
    BY DEF Entry
  <1>1. CASE entry.count >= MaxFailed
    <2>1. entry.age >= Lockout /\ entry.count > 0 /\ Checked(entry) = NoEntry
      BY <1>1, Numbers DEF Locked, Checked
    <2>2. Lockout - 1 \in Recent /\ Lockout - 1 < entry.age
      BY <2>1, Numbers DEF Recent
    <2>3. f[Lockout - 1] < entry.count
      BY <2>1, <2>2 DEF Consistent
    <2>4. f[Lockout - 1] < 0 + PerWindow
      BY <2>2, <2>3, PendingFinite
    <2>5. NoEntry.count = 0 /\ 0 <= MaxFailed - 1
      BY Numbers DEF NoEntry
    <2> QED
      BY <2>1, <2>4, <2>5 DEF Consistent
  <1>2. CASE ~(entry.count >= MaxFailed)
    BY <1>2, Numbers DEF Checked
  <1> QED
    BY <1>1, <1>2

\* One failure more, of this moment.
LEMMA ConsistentFailed ==
    ASSUME NEW entry \in Entry, NEW f \in [Recent -> Nat], Consistent(entry, f),
           entry.count < PerWindow
    PROVE  /\ Consistent(Failed(entry), [age \in Recent |-> f[age] + 1])
           /\ Failed(entry).count <= entry.count + 1
  <1> DEFINE g == [age \in Recent |-> f[age] + 1]
  <1>1. entry.count \in Nat /\ entry.age \in 0 .. Lockout + 1 /\ PerWindow \in Nat
    BY PendingFinite DEF Entry
  <1>2. /\ \A i \in Recent : i \in Nat /\ i < Lockout /\ f[i] \in Nat /\ g[i] = f[i] + 1
        /\ Lockout - 1 \in Recent
    BY Numbers DEF Recent
  <1>3. \A i, j \in Recent : i <= j => g[i] <= g[j]
    BY <1>2 DEF Consistent
  <1>4. CASE entry.count = 0 \/ entry.age > Lockout
    <2>1. Failed(entry).count = 1 /\ Failed(entry).age = 0
      BY <1>4 DEF Failed
    <2>2. f[Lockout - 1] < PerWindow
      <3>1. CASE entry.count = 0
        BY <1>1, <3>1 DEF Consistent
      <3>2. CASE entry.count > 0
        <4>1. entry.age > Lockout
          BY <1>1, <1>4, <3>2
        <4>2. f[Lockout - 1] < entry.count
          BY <1>1, <1>2, <3>2, <4>1, Numbers DEF Consistent
        <4> QED
          BY <1>1, <1>2, <4>2
      <3> QED
        BY <1>1, <3>1, <3>2
    <2>3. g[Lockout - 1] < 1 + PerWindow
      BY <1>1, <1>2, <2>2
    <2>4. \A i \in Recent : ~(i < 0) /\ g[i] >= 1
      BY <1>2
    <2> HIDE DEF g
    <2>5. Consistent(Failed(entry), g)
      BY <1>3, <2>1, <2>3, <2>4 DEF Consistent
    <2> QED
      BY <1>1, <2>1, <2>5 DEF g
  <1>5. CASE entry.count > 0 /\ ~(entry.age > Lockout)
    <2>1. Failed(entry).count = entry.count + 1 /\ Failed(entry).age = entry.age
      BY <1>1, <1>5 DEF Failed, Entry
    <2>2. g[Lockout - 1] < entry.count + 1 + PerWindow
      BY <1>1, <1>2 DEF Consistent
    <2>3. \A i \in Recent : IF i < entry.age THEN g[i] < entry.count + 1
                                             ELSE g[i] >= entry.count + 1
      BY <1>1, <1>2, <1>5 DEF Consistent
    <2> HIDE DEF g
    <2>4. Consistent(Failed(entry), g)
      BY <1>1, <1>3, <2>1, <2>2, <2>3 DEF Consistent
    <2> QED
      BY <1>1, <2>1, <2>4 DEF g
  <1> QED
    BY <1>1, <1>4, <1>5

\* Time passes: the failures and the entry's first get older together.
LEMMA ConsistentOlder ==
    ASSUME NEW entry \in Entry, NEW f \in [Recent -> Nat], Consistent(entry, f)
    PROVE  /\ Consistent(Older(entry), [age \in Recent |-> IF age = 0 THEN 0 ELSE f[age - 1]])
           /\ Older(entry).count = entry.count
  <1> DEFINE g == [age \in Recent |-> IF age = 0 THEN 0 ELSE f[age - 1]]
  <1>1. entry.count \in Nat /\ entry.age \in 0 .. Lockout + 1 /\ PerWindow \in Nat \ {0}
    BY PendingFinite DEF Entry
  <1>2. /\ \A i \in Recent : i \in Nat /\ i < Lockout /\ f[i] \in Nat /\ g[i] \in Nat
        /\ \A i \in Recent : i # 0 => i - 1 \in Recent /\ g[i] = f[i - 1]
        /\ \A i \in Recent : i = 0 => g[i] = 0
        /\ Lockout - 1 \in Recent
    BY Numbers DEF Recent
  <1>3. \A i, j \in Recent : i <= j => f[i] <= f[j]
    BY DEF Consistent
  <1>4. \A i \in Recent : g[i] <= f[i]
    BY <1>2, <1>3
  <1>5. \A i, j \in Recent : i <= j => g[i] <= g[j]
    BY <1>2, <1>3
  <1> HIDE DEF g
  <1>6. g[Lockout - 1] < entry.count + PerWindow
    <2>1. f[Lockout - 1] < entry.count + PerWindow /\ g[Lockout - 1] <= f[Lockout - 1]
      BY <1>2, <1>4 DEF Consistent
    <2> QED
      BY <1>1, <1>2, <2>1
  <1>7. CASE entry.count > 0 /\ entry.age <= Lockout
    <2>1. Older(entry).count = entry.count /\ Older(entry).age = entry.age + 1
      BY <1>1, <1>7 DEF Older, Entry
    <2>2. ASSUME NEW i \in Recent
          PROVE  IF i < entry.age + 1 THEN g[i] < entry.count ELSE g[i] >= entry.count
      <3>1. CASE i = 0
        BY <1>1, <1>2, <1>7, <3>1
      <3>2. CASE i # 0
        BY <1>1, <1>2, <1>7, <3>2 DEF Consistent
      <3> QED
        BY <3>1, <3>2
    <2> QED
      BY <1>5, <1>6, <2>1, <2>2 DEF Consistent, g
  <1>8. CASE ~(entry.count > 0 /\ entry.age <= Lockout)
    <2>1. Older(entry) = entry
      BY <1>8 DEF Older
    <2>2. ASSUME entry.count > 0, NEW i \in Recent
          PROVE  i < entry.age /\ g[i] < entry.count
      <3>1. i < entry.age
        BY <1>1, <1>2, <1>8, <2>2, Numbers
      <3> QED
        BY <1>1, <1>2, <1>4, <2>2, <3>1 DEF Consistent
    <2> QED
      BY <1>5, <1>6, <2>1, <2>2 DEF Consistent, g
  <1> QED
    BY <1>1, <1>7, <1>8

\* The worker's entry and its failures stay, and nobody enters its check.
Unjudged(w) ==
    /\ attempts'[w] = attempts[w] /\ failures'[w] = failures[w]
    /\ Pending(w)' \subseteq Pending(w)

Judged(w) ==
    /\ attempts'[w].count + Cardinality(Pending(w)') <= PerWindow
    /\ Consistent(attempts'[w], failures'[w])

LEMMA CountsTyped ==
    ASSUME TypeOK
    PROVE  /\ attempts \in [Workers -> Entry] /\ failures \in [Workers -> [Recent -> Nat]]
           /\ req \in [Requests -> Request]
           /\ \A w \in Workers :
                 /\ attempts[w] \in Entry /\ attempts[w].count \in Nat
                 /\ failures[w] \in [Recent -> Nat]
  BY DEF TypeOK, Entry

LEMMA UnjudgedKept ==
    ASSUME TypeOK, FailuresCounted, NEW w \in Workers, Unjudged(w)
    PROVE  Judged(w)
  <1>1. Cardinality(Pending(w)') <= Cardinality(Pending(w)) /\ Cardinality(Pending(w)') \in Nat
    BY PendingFinite, FS_Subset, FS_CardinalityType DEF Unjudged
  <1>2. attempts[w].count + Cardinality(Pending(w)) <= PerWindow
    BY DEF FailuresCounted
  <1>3. attempts'[w].count + Cardinality(Pending(w)') <= PerWindow
    BY <1>1, <1>2, PendingFinite, CountsTyped DEF Unjudged
  <1> QED
    BY <1>3 DEF FailuresCounted, Unjudged, Judged

\* A request ends or changes, and no worker but v has one more to judge.
LEMMA OthersPending ==
    ASSUME TypeOK, NEW r \in Requests, NEW next, req' = [req EXCEPT ![r] = next], NEW v,
           next.step = "login" => next.at = v, NEW w, w # v
    PROVE  Pending(w)' \subseteq Pending(w)
  BY CountsTyped DEF Pending

LEMMA CountedCheck ==
    ASSUME TypeOK, FailuresCounted, NEW r \in Requests, NEW v \in Workers, CheckLockout(r, v),
           NEW w \in Workers
    PROVE  Judged(w)
  <1> DEFINE next == [Idle EXCEPT !.step = "login", !.at = v]
  <1>1. /\ ~Locked(attempts[v]) /\ failures' = failures
        /\ attempts' = [attempts EXCEPT ![v] = Checked(attempts[v])]
        /\ req' = [req EXCEPT ![r] = next]
    BY DEF CheckLockout, Await
  <1>2. next.at = v
    BY DEF Idle
  <1> HIDE DEF next
  <1>3. CASE w = v
    <2>1. attempts[v].count <= PerWindow
      <3>1. attempts[v].count + Cardinality(Pending(v)) <= PerWindow
        BY DEF FailuresCounted
      <3> QED
        BY <3>1, PendingFinite, CountsTyped
    <2>2. Consistent(Checked(attempts[v]), failures[v]) /\ Checked(attempts[v]).count <= MaxFailed - 1
      BY <1>1, <2>1, CountsTyped, ConsistentChecked DEF FailuresCounted
    <2>3. Pending(v)' \subseteq Requests
      BY DEF Pending
    <2>4. Cardinality(Pending(v)') <= Cardinality(Requests) /\ Cardinality(Pending(v)') \in Nat
      BY <2>3, SignInAssumption, FS_Subset, FS_CardinalityType
    <2>5. Checked(attempts[v]).count \in Nat
      BY CountsTyped, EntriesTyped DEF Entry
    <2>6. Checked(attempts[v]).count + Cardinality(Pending(v)') <= PerWindow
      BY <2>2, <2>4, <2>5, PendingFinite, Numbers DEF PerWindow
    <2> QED
      BY <1>1, <1>3, <2>2, <2>6, CountsTyped DEF Judged
  <1>4. CASE w # v
    <2>1. Pending(w)' \subseteq Pending(w)
      BY <1>1, <1>2, <1>4, OthersPending
    <2> QED
      BY <1>1, <1>4, <2>1, CountsTyped, UnjudgedKept DEF Unjudged
  <1> QED
    BY <1>3, <1>4

LEMMA CountedReject ==
    ASSUME TypeOK, FailuresCounted, NEW r \in Requests, RejectLogin(r), NEW w \in Workers
    PROVE  Judged(w)
  <1> DEFINE v == req[r].at
             more == [age \in Recent |-> failures[v][age] + 1]
  <1>1. /\ req[r].step = "login" /\ req' = [req EXCEPT ![r] = Idle]
        /\ attempts' = [attempts EXCEPT ![v] = Failed(attempts[v])]
        /\ failures' = [failures EXCEPT ![v] = more]
    BY DEF RejectLogin, Await
  <1>2. Idle.step # "login"
    BY DEF Idle
  <1>3. CASE w = v
    <2>1. r \in Pending(w) /\ Pending(w)' = Pending(w) \ {r}
      BY <1>1, <1>2, <1>3, CountsTyped DEF Pending
    <2>2. Cardinality(Pending(w)') = Cardinality(Pending(w)) - 1 /\ Cardinality(Pending(w)) \in Nat
      BY <2>1, PendingFinite, FS_RemoveElement
    <2>3. Cardinality(Pending(w)') \in Nat
      BY <2>1, PendingFinite, FS_RemoveElement, FS_CardinalityType
    <2>4. attempts[w].count + Cardinality(Pending(w)) <= PerWindow
      BY DEF FailuresCounted
    <2>5. attempts[w].count < PerWindow
      BY <2>2, <2>3, <2>4, PendingFinite, CountsTyped
    <2>6. /\ Consistent(Failed(attempts[w]), [age \in Recent |-> failures[w][age] + 1])
          /\ Failed(attempts[w]).count <= attempts[w].count + 1
      BY <2>5, CountsTyped, ConsistentFailed DEF FailuresCounted
    <2>7. Failed(attempts[w]).count \in Nat
      BY CountsTyped, EntriesTyped DEF Entry
    <2>8. Failed(attempts[w]).count + Cardinality(Pending(w)') <= PerWindow
      BY <2>2, <2>3, <2>4, <2>6, <2>7, PendingFinite, CountsTyped
    <2>9. attempts'[w] = Failed(attempts[w]) /\ failures'[w] = [age \in Recent |-> failures[w][age] + 1]
      <3> HIDE DEF more
      <3>1. attempts'[w] = Failed(attempts[w]) /\ failures'[w] = more
        BY <1>1, <1>3, CountsTyped
      <3> QED
        BY <1>3, <3>1 DEF more
    <2> QED
      BY <2>6, <2>8, <2>9 DEF Judged
  <1>4. CASE w # v
    <2>1. Pending(w)' \subseteq Pending(w)
      BY <1>1, <1>2, <1>4, OthersPending
    <2> HIDE DEF more, v
    <2> QED
      BY <1>1, <1>4, <2>1, CountsTyped, UnjudgedKept DEF Unjudged
  <1> QED
    BY <1>3, <1>4

\* The entry and the failures are cleared together.
LEMMA CountedClear ==
    ASSUME TypeOK, FailuresCounted, NEW w \in Workers,
           attempts'[w] = NoEntry, failures'[w] = Unfailed, Pending(w)' \subseteq Requests
    PROVE  Judged(w)
  <1>1. Cardinality(Pending(w)') <= Cardinality(Requests) /\ Cardinality(Pending(w)') \in Nat
    BY SignInAssumption, FS_Subset, FS_CardinalityType
  <1>2. NoEntry.count + Cardinality(Pending(w)') <= PerWindow
    BY <1>1, PendingFinite, Numbers DEF NoEntry, PerWindow
  <1> QED
    BY <1>2, ConsistentAnew DEF Judged

LEMMA CountedAccept ==
    ASSUME TypeOK, FailuresCounted, NEW r \in Requests, AcceptLogin(r), NEW w \in Workers
    PROVE  Judged(w)
  <1> DEFINE v == req[r].at
  <1>1. /\ req' = [req EXCEPT ![r] = Idle] /\ Idle.step # "login"
        /\ attempts' = [attempts EXCEPT ![v] = NoEntry]
        /\ failures' = [failures EXCEPT ![v] = Unfailed]
    BY DEF AcceptLogin, Await, Idle
  <1> HIDE DEF v
  <1>2. CASE w = v
    <2>1. attempts'[w] = NoEntry /\ failures'[w] = Unfailed
      BY <1>1, <1>2, CountsTyped
    <2>2. Pending(w)' \subseteq Requests
      BY DEF Pending
    <2> QED
      BY <2>1, <2>2, CountedClear
  <1>3. CASE w # v
    <2>1. Pending(w)' \subseteq Pending(w)
      BY <1>1, <1>3, OthersPending
    <2> QED
      BY <1>1, <1>3, <2>1, CountsTyped, UnjudgedKept DEF Unjudged
  <1> QED
    BY <1>2, <1>3

LEMMA CountedRestart ==
    ASSUME TypeOK, FailuresCounted, NEW v \in Workers, Restart(v), NEW w \in Workers
    PROVE  Judged(w)
  <1>1. /\ req' = [r \in Requests |-> IF req[r].at = v THEN Idle ELSE req[r]]
        /\ attempts' = [attempts EXCEPT ![v] = NoEntry]
        /\ failures' = [failures EXCEPT ![v] = Unfailed]
    BY DEF Restart
  <1>2. Pending(w)' \subseteq Pending(w) /\ Pending(w)' \subseteq Requests
    BY <1>1 DEF Pending, Idle
  <1>3. CASE w = v
    <2>1. attempts'[w] = NoEntry /\ failures'[w] = Unfailed
      BY <1>1, <1>3, CountsTyped
    <2> QED
      BY <1>2, <2>1, CountedClear
  <1>4. CASE w # v
    BY <1>1, <1>2, <1>4, CountsTyped, UnjudgedKept DEF Unjudged
  <1> QED
    BY <1>3, <1>4

LEMMA CountedTick ==
    ASSUME TypeOK, FailuresCounted, Tick, NEW w \in Workers
    PROVE  Judged(w)
  <1>1. /\ req' = req /\ attempts'[w] = Older(attempts[w])
        /\ failures'[w] = [age \in Recent |-> IF age = 0 THEN 0 ELSE failures[w][age - 1]]
    BY DEF Tick
  <1>2. /\ Consistent(Older(attempts[w]),
                     [age \in Recent |-> IF age = 0 THEN 0 ELSE failures[w][age - 1]])
        /\ Older(attempts[w]).count = attempts[w].count
    BY CountsTyped, ConsistentOlder DEF FailuresCounted
  <1>3. Pending(w)' = Pending(w)
    BY <1>1 DEF Pending
  <1> QED
    BY <1>1, <1>2, <1>3 DEF Judged, FailuresCounted

\* The actions about tokens only end or move requests that no lockout is about.
LEMMA CountedTokens ==
    ASSUME TypeOK, FailuresCounted, NEW w \in Workers,
           \/ UNCHANGED vars
           \/ \E r \in Requests : Fail(r) \/ TakeToken(r) \/ \E v \in Workers : FindToken(r, v)
           \/ \E v \in Workers : Issue(v) \/ TakeState(v)
    PROVE  Judged(w)
  <1>1. attempts' = attempts /\ failures' = failures
    BY DEF vars, Fail, TakeToken, FindToken, Issue, TakeState
  <1>2. Pending(w)' \subseteq Pending(w)
    <2>1. ASSUME NEW r \in Requests, NEW next, req' = [req EXCEPT ![r] = next],
                 next.step # "login"
          PROVE  Pending(w)' \subseteq Pending(w)
      BY <2>1, CountsTyped DEF Pending
    <2>2. ASSUME req' = req
          PROVE  Pending(w)' \subseteq Pending(w)
      BY <2>2 DEF Pending
    <2>3. ASSUME NEW r \in Requests, Fail(r) \/ TakeToken(r)
          PROVE  Pending(w)' \subseteq Pending(w)
      <3>1. req' = [req EXCEPT ![r] = Idle] /\ Idle.step # "login"
        BY <2>3 DEF Fail, TakeToken, Await, Idle
      <3> QED
        BY <2>1, <3>1
    <2>4. ASSUME NEW r \in Requests, NEW v \in Workers, FindToken(r, v)
          PROVE  Pending(w)' \subseteq Pending(w)
      <3>1. PICK t \in ResetTokens :
               req' = [req EXCEPT ![r] = [step |-> "reset", at |-> v, token |-> t]]
        BY <2>4 DEF FindToken, Await
      <3>2. PICK next : next = [step |-> "reset", at |-> v, token |-> t]
        OBVIOUS
      <3>3. req' = [req EXCEPT ![r] = next] /\ next.step # "login"
        BY <3>1, <3>2
      <3> QED
        BY <2>1, <3>3
    <2> QED
      BY <2>2, <2>3, <2>4 DEF vars, Issue, TakeState
  <1> QED
    BY <1>1, <1>2, UnjudgedKept DEF Unjudged

LEMMA CountedStep ==
    ASSUME TypeOK, FailuresCounted, [Next]_vars
    PROVE  FailuresCounted'
  <1> SUFFICES ASSUME NEW w \in Workers
               PROVE  Judged(w)
    BY DEF FailuresCounted, Judged, Pending
  <1> QED
    BY CountedCheck, CountedReject, CountedAccept, CountedRestart, CountedTick, CountedTokens
       DEF Next

LEMMA Counted == Spec => []FailuresCounted
  <1>1. Init => FailuresCounted
    <2> SUFFICES ASSUME Init, NEW w \in Workers
                 PROVE  /\ attempts[w].count + Cardinality(Pending(w)) <= PerWindow
                        /\ Consistent(attempts[w], failures[w])
      BY DEF FailuresCounted
    <2>1. attempts[w] = NoEntry /\ failures[w] = Unfailed
      BY DEF Init
    <2>2. Pending(w) = {}
      BY DEF Init, Idle, Pending
    <2>3. NoEntry.count + Cardinality(Pending(w)) <= PerWindow
      BY <2>2, FS_EmptySet, PendingFinite DEF NoEntry
    <2> QED
      BY <2>1, <2>3, ConsistentAnew
  <1> QED
    BY <1>1, CountedStep, TypeCorrect, PTL DEF Spec

\* However sign-ins overlap and windows meet, a worker judges no more failures in
\* any time as long as a lockout than those of two windows but one.
THEOREM FailuresAreBounded == Spec => []FailuresBounded
  <1>1. TypeOK /\ FailuresCounted => FailuresBounded
    <2> SUFFICES ASSUME TypeOK, FailuresCounted, NEW w \in Workers
                 PROVE  Failures(w) <= Most
      BY DEF FailuresBounded
    <2>1. failures[w][Lockout - 1] < attempts[w].count + PerWindow
      BY DEF FailuresCounted, Consistent
    <2>2. attempts[w].count + Cardinality(Pending(w)) <= PerWindow
      BY DEF FailuresCounted
    <2>3. attempts[w].count <= PerWindow
      BY <2>2, PendingFinite, CountsTyped
    <2>4. failures[w][Lockout - 1] \in Nat
      BY CountsTyped, Numbers DEF Recent
    <2>5. Most = 2 * PerWindow - 1
      BY PendingFinite, Numbers DEF Most, PerWindow
    <2> QED
      BY <2>1, <2>3, <2>4, <2>5, PendingFinite, CountsTyped DEF Failures
  <1> QED
    BY <1>1, Counted, TypeCorrect, PTL

\* A worker locks the email out only after as many failures in that time as it
\* takes: neither older ones nor refused requests make or prolong a lockout.
THEOREM LockedOnlyAfterFailures == Spec => []LockedAfterFailures
  <1>1. TypeOK /\ FailuresCounted => LockedAfterFailures
    <2> SUFFICES ASSUME TypeOK, FailuresCounted, NEW w \in Workers, Locked(attempts[w])
                 PROVE  Failures(w) >= MaxFailed
      BY DEF LockedAfterFailures
    <2> DEFINE a == attempts[w].age
               c == attempts[w].count
               f == failures[w]
    <2>1. a \in Recent /\ Lockout - 1 \in Recent /\ a <= Lockout - 1 /\ c >= MaxFailed /\ c > 0
      BY CountsTyped, Numbers DEF Locked, Recent, Entry
    <2>2. f[a] >= c
      <3>1. \A i \in Recent : IF i < a THEN f[i] < c ELSE f[i] >= c
        BY <2>1 DEF FailuresCounted, Consistent
      <3>2. a \in Nat
        BY CountsTyped DEF Entry
      <3> HIDE DEF a, c, f
      <3> QED
        BY <2>1, <3>1, <3>2
    <2>3. f[a] <= f[Lockout - 1]
      BY <2>1 DEF FailuresCounted, Consistent
    <2>4. f[a] \in Nat /\ f[Lockout - 1] \in Nat /\ c \in Nat
      BY <2>1, CountsTyped
    <2> QED
      BY <2>1, <2>2, <2>3, <2>4, Numbers DEF Failures
  <1> QED
    BY <1>1, Counted, TypeCorrect, PTL
=============================================================================
