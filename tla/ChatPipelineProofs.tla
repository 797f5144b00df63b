------------------------- MODULE ChatPipelineProofs -------------------------
(***************************************************************************)
(* Proofs about one conversation of the chat API.                          *)
(*                                                                         *)
(* TypeCorrect and BookkeepingInvariant hold however the requests overlap; *)
(* the mapping theorems assume that sends do not (Client # "any").         *)
(***************************************************************************)
EXTENDS ChatPipeline, FiniteSetTheorems, TLAPS

USE DEF RowsAfter, CounterAfter, QuestionNumber, AnswerNumber

\* A request begins when it has not begun, as the client allows.
LEMMA BeginsIdle == \A r \in Requests : Begin(r) => pc[r] = "idle" /\ MayBegin(r)
BY Zenon DEF Begin

\* Every variable keeps its type.
THEOREM TypeCorrect == Spec => []TypeOK
<1>1. Init => TypeOK
  <2>1. Init => overlapped \in BOOLEAN
    BY Zenon DEF Init
  <2>. QED
    BY <2>1, ChatAssumption DEF Init, TypeOK, Pc, NoNumbers
<1>2. TypeOK /\ [Next]_vars => TypeOK'
  <2> SUFFICES ASSUME TypeOK, [Next]_vars PROVE TypeOK'
    OBVIOUS
  <2> USE ChatAssumption DEF TypeOK, database, mapper, Goto, Pc, Sending,
          Streaming, Ended
  <2>1. ASSUME NEW r \in Requests, CreateConversation(r) PROVE TypeOK'
    <3>1. overlapped' \in BOOLEAN
      BY <2>1, Zenon DEF CreateConversation, Begin
    <3>. QED
      BY <2>1, <3>1 DEF CreateConversation
  <2>2. ASSUME NEW r \in Requests, LoadConversation(r) PROVE TypeOK'
    <3>1. overlapped' \in BOOLEAN
      BY <2>2, Zenon DEF LoadConversation, Begin
    <3>. QED
      BY <2>2, <3>1 DEF LoadConversation
  <2>3. ASSUME NEW r \in Requests, LoadSession(r) PROVE TypeOK'
    BY <2>3 DEF LoadSession
  <2>4. ASSUME NEW r \in Requests, LoadEntities(r) PROVE TypeOK'
    BY <2>4 DEF LoadEntities
  <2>5. ASSUME NEW r \in Requests, NEW k \in Keys, MapEntity(r, k) PROVE TypeOK'
    <3>1. CASE fwd[r][k] # 0
      BY <2>5, <3>1 DEF MapEntity
    <3>2. CASE fwd[r][k] = 0
      <4>0. AssignPlaceholder(r, k)
        BY <2>5, <3>2 DEF MapEntity
      <4>1. mcount[r] \in [Types -> Nat] /\ fwd[r] \in [Keys -> Nat]
        OBVIOUS
      <4>2. TypeOf[k] \in Types /\ mcount[r][TypeOf[k]] + 1 \in Nat
        BY <4>1
      <4>3. mcount' \in [Requests -> [Types -> Nat]]
        BY <4>0, <4>1, <4>2 DEF AssignPlaceholder
      <4>4. fwd' \in [Requests -> [Keys -> Nat]]
        BY <4>0, <4>1, <4>2 DEF AssignPlaceholder
      <4>5. fresh' \in [Requests -> SUBSET Keys]
        BY <4>0 DEF AssignPlaceholder
      <4>6. said' \in [Requests -> SUBSET Keys]
        BY <2>5, <3>2 DEF MapEntity
      <4>7. UNCHANGED <<conv, total, counter, rows, question, answer, audit,
                        writer, pc, seen, history, overlapped>>
        BY <2>5 DEF MapEntity
      <4>. QED
        BY <4>3, <4>4, <4>5, <4>6, <4>7
    <3>. QED
      BY <3>1, <3>2
  <2>6. ASSUME NEW r \in Requests, PolicyBlocks(r) PROVE TypeOK'
    <3>1. conv' \in {"none", "creating", "stored"}
      BY <2>6 DEF PolicyBlocks, Rollback, ReleaseLock
    <3>2. audit' \in [Requests ->
                SUBSET {"policy.blocked", "message.sanitized", "llm.response"}]
      <4>1. CASE r \in DocRequests
        BY <2>6, <4>1 DEF PolicyBlocks
      <4>2. CASE r \notin DocRequests
        <5>1. audit' = [audit EXCEPT ![r] = audit[r] \cup {"policy.blocked"}]
          BY <2>6, <4>2 DEF PolicyBlocks
        <5>. QED
          BY <5>1
      <4>. QED
        BY <4>1, <4>2
    <3>3. writer' \in Requests \cup {None} /\ pc' \in [Requests -> Pc]
      BY <2>6 DEF PolicyBlocks, Rollback, ReleaseLock
    <3>4. UNCHANGED <<total, counter, rows, question, answer, seen, mapper,
                      said, history, overlapped>>
      BY <2>6 DEF PolicyBlocks, Rollback, ReleaseLock
    <3>. QED
      BY <3>1, <3>2, <3>3, <3>4
  <2>7. ASSUME NEW r \in Requests, PolicyAllows(r) PROVE TypeOK'
    BY <2>7 DEF PolicyAllows
  <2>8. ASSUME NEW r \in Requests, Flush(r) PROVE TypeOK'
    BY <2>8 DEF Flush
  <2>9. ASSUME NEW r \in Requests, Commit(r) PROVE TypeOK'
    BY <2>9 DEF Commit
  <2>10. ASSUME NEW r \in Requests, BuildHistory(r) PROVE TypeOK'
    BY <2>10 DEF BuildHistory
  <2>11. ASSUME NEW r \in Requests, GetProvider(r) PROVE TypeOK'
    BY <2>11 DEF GetProvider
  <2>12. ASSUME NEW r \in Requests, StreamFails(r) PROVE TypeOK'
    BY <2>12 DEF StreamFails
  <2>13. ASSUME NEW r \in Requests, SaveAnswer(r) PROVE TypeOK'
    BY <2>13 DEF SaveAnswer
  <2>14. ASSUME NEW r \in Requests, Abort(r) PROVE TypeOK'
    BY <2>14 DEF Abort, Rollback, ReleaseLock
  <2>15. CASE UNCHANGED vars
    BY <2>15 DEF vars
  <2>. QED
    BY <2>1, <2>2, <2>3, <2>4, <2>5, <2>6, <2>7, <2>8, <2>9, <2>10, <2>11,
       <2>12, <2>13, <2>14, <2>15 DEF Next, Step
<1>. QED
  BY <1>1, <1>2, PTL DEF Spec

-----------------------------------------------------------------------------
(***************************************************************************)
(* The bookkeeping of the requests, however they overlap.                  *)
(***************************************************************************)

\* A request that takes no step is not disturbed, provided that the shared
\* state only grows and a conversation in creation is left to its creator.
LEMMA OthersStayBooked ==
  ASSUME TypeOK, Bookkeeping, NEW q \in Requests,
         pc'[q] = pc[q], mcount'[q] = mcount[q], seen'[q] = seen[q], fwd'[q] = fwd[q],
         fresh'[q] = fresh[q], said'[q] = said[q], history'[q] = history[q],
         question'[q] = question[q], answer'[q] = answer[q],
         conv = "stored" => conv' = "stored",
         writer = q => writer' = q,
         \A k \in Keys : rows[k] # 0 => rows'[k] # 0,
         \A p \in Requests : question[p] # 0 => question'[p] # 0
  PROVE  Booked(q)'
<1>1. Booked(q)
  BY DEF Bookkeeping
<1>2. said[q] \subseteq Keys
  BY DEF TypeOK
<1>3. Blocked(q)' <=> Blocked(q)
  BY DEF Blocked
<1>4. Stored \subseteq Stored'
  BY DEF Stored
<1>. QED
  BY <1>1, <1>2, <1>3, <1>4 DEF Booked

LEMMA BookkeepingStep == TypeOK /\ Bookkeeping /\ [Next]_vars => Bookkeeping'
<1> SUFFICES ASSUME TypeOK, Bookkeeping, [Next]_vars PROVE Bookkeeping'
  OBVIOUS
<1> USE ChatAssumption
<1>1. ASSUME NEW r \in Requests, CreateConversation(r)
      PROVE  Bookkeeping'
  <2>1. \A q \in Requests \ {r} : Booked(q)'
    BY <1>1, OthersStayBooked DEF Bookkeeping, OpenTransactionIsOwned, CreateConversation, TypeOK, database, mapper, Goto, AssignPlaceholder, Rollback, ReleaseLock
  <2>2. Booked(r)'
    BY <1>1 DEF CreateConversation, Bookkeeping, Booked, TypeOK, database, mapper, Goto, Rollback, ReleaseLock,
       Blocked, Sending, Streaming, Saved, Stored, AssignPlaceholder, OpenTransactionIsOwned
  <2>3. OpenTransactionIsOwned'
    BY <1>1 DEF CreateConversation, Bookkeeping, Booked, TypeOK, database, mapper, Goto, Rollback, ReleaseLock,
       OpenTransactionIsOwned, Sending, Streaming
  <2>4. \A j \in Keys : rows'[j] # 0 => TypeOf[j] \notin BlockedTypes
    BY <1>1 DEF CreateConversation, Bookkeeping, Booked, Blocked, TypeOK, database, mapper, Goto, Rollback, ReleaseLock
  <2>5. conv' # "stored" => rows' = NoNumbers(Keys) /\ counter' = NoNumbers(Types)
    BY <1>1 DEF CreateConversation, Bookkeeping, database, Rollback, TypeOK
  <2>. QED
    BY <2>1, <2>2, <2>3, <2>4, <2>5 DEF Bookkeeping
<1>2. ASSUME NEW r \in Requests, LoadConversation(r)
      PROVE  Bookkeeping'
  <2>1. \A q \in Requests \ {r} : Booked(q)'
    BY <1>2, OthersStayBooked DEF LoadConversation, TypeOK, database, mapper, Goto, AssignPlaceholder, Rollback, ReleaseLock
  <2>2. Booked(r)'
    BY <1>2, BeginsIdle DEF LoadConversation, Bookkeeping, Booked, TypeOK, database, mapper, Goto, Rollback, ReleaseLock,
       Blocked, Sending, Streaming, Saved, Stored, AssignPlaceholder, OpenTransactionIsOwned
  <2>3. OpenTransactionIsOwned'
    BY <1>2, BeginsIdle DEF LoadConversation, Bookkeeping, Booked, TypeOK, database, mapper, Goto, Rollback, ReleaseLock,
       OpenTransactionIsOwned, Sending, Streaming
  <2>4. \A j \in Keys : rows'[j] # 0 => TypeOf[j] \notin BlockedTypes
    BY <1>2 DEF LoadConversation, Bookkeeping, Booked, Blocked, TypeOK, database, mapper, Goto, Rollback, ReleaseLock
  <2>5. conv' # "stored" => rows' = NoNumbers(Keys) /\ counter' = NoNumbers(Types)
    BY <1>2 DEF LoadConversation, Bookkeeping, database, Rollback, TypeOK
  <2>. QED
    BY <2>1, <2>2, <2>3, <2>4, <2>5 DEF Bookkeeping
<1>3. ASSUME NEW r \in Requests, LoadSession(r)
      PROVE  Bookkeeping'
  <2>1. \A q \in Requests \ {r} : Booked(q)'
    BY <1>3, OthersStayBooked DEF LoadSession, TypeOK, database, mapper, Goto, AssignPlaceholder, Rollback, ReleaseLock
  <2>2. Booked(r)'
    BY <1>3 DEF LoadSession, Bookkeeping, Booked, TypeOK, database, mapper, Goto, Rollback, ReleaseLock,
       Blocked, Sending, Streaming, Saved, Stored, AssignPlaceholder, OpenTransactionIsOwned
  <2>3. OpenTransactionIsOwned'
    BY <1>3 DEF LoadSession, Bookkeeping, Booked, TypeOK, database, mapper, Goto, Rollback, ReleaseLock,
       OpenTransactionIsOwned, Sending, Streaming
  <2>4. \A j \in Keys : rows'[j] # 0 => TypeOf[j] \notin BlockedTypes
    BY <1>3 DEF LoadSession, Bookkeeping, Booked, Blocked, TypeOK, database, mapper, Goto, Rollback, ReleaseLock
  <2>5. conv' # "stored" => rows' = NoNumbers(Keys) /\ counter' = NoNumbers(Types)
    BY <1>3 DEF LoadSession, Bookkeeping, database, Rollback, TypeOK
  <2>. QED
    BY <2>1, <2>2, <2>3, <2>4, <2>5 DEF Bookkeeping
<1>4. ASSUME NEW r \in Requests, LoadEntities(r)
      PROVE  Bookkeeping'
  <2>1. \A q \in Requests \ {r} : Booked(q)'
    BY <1>4, OthersStayBooked DEF LoadEntities, TypeOK, database, mapper, Goto, AssignPlaceholder, Rollback, ReleaseLock
  <2>2. Booked(r)'
    BY <1>4 DEF LoadEntities, Bookkeeping, Booked, TypeOK, database, mapper, Goto, Rollback, ReleaseLock,
       Blocked, Sending, Streaming, Saved, Stored, AssignPlaceholder, OpenTransactionIsOwned
  <2>3. OpenTransactionIsOwned'
    BY <1>4 DEF LoadEntities, Bookkeeping, Booked, TypeOK, database, mapper, Goto, Rollback, ReleaseLock,
       OpenTransactionIsOwned, Sending, Streaming
  <2>4. \A j \in Keys : rows'[j] # 0 => TypeOf[j] \notin BlockedTypes
    BY <1>4 DEF LoadEntities, Bookkeeping, Booked, Blocked, TypeOK, database, mapper, Goto, Rollback, ReleaseLock
  <2>5. conv' # "stored" => rows' = NoNumbers(Keys) /\ counter' = NoNumbers(Types)
    BY <1>4 DEF LoadEntities, Bookkeeping, database, Rollback, TypeOK
  <2>. QED
    BY <2>1, <2>2, <2>3, <2>4, <2>5 DEF Bookkeeping
<1>5. ASSUME NEW r \in Requests, NEW k \in Keys, MapEntity(r, k)
      PROVE  Bookkeeping'
  <2>1. \A q \in Requests \ {r} : Booked(q)'
    BY <1>5, OthersStayBooked DEF MapEntity, TypeOK, database, mapper, Goto, AssignPlaceholder, Rollback, ReleaseLock
  <2>2. Booked(r)'
    BY <1>5 DEF MapEntity, Bookkeeping, Booked, TypeOK, database, mapper, Goto, Rollback, ReleaseLock,
       Blocked, Sending, Streaming, Saved, Stored, AssignPlaceholder, OpenTransactionIsOwned
  <2>3. OpenTransactionIsOwned'
    BY <1>5 DEF MapEntity, Bookkeeping, Booked, TypeOK, database, mapper, Goto, Rollback, ReleaseLock,
       OpenTransactionIsOwned, Sending, Streaming
  <2>4. \A j \in Keys : rows'[j] # 0 => TypeOf[j] \notin BlockedTypes
    BY <1>5 DEF MapEntity, Bookkeeping, Booked, Blocked, TypeOK, database, mapper, Goto, Rollback, ReleaseLock
  <2>5. conv' # "stored" => rows' = NoNumbers(Keys) /\ counter' = NoNumbers(Types)
    BY <1>5 DEF MapEntity, Bookkeeping, database, Rollback, TypeOK
  <2>. QED
    BY <2>1, <2>2, <2>3, <2>4, <2>5 DEF Bookkeeping
<1>6. ASSUME NEW r \in Requests, PolicyBlocks(r)
      PROVE  Bookkeeping'
  <2>1. \A q \in Requests \ {r} : Booked(q)'
    BY <1>6, OthersStayBooked DEF PolicyBlocks, TypeOK, database, mapper, Goto, AssignPlaceholder, Rollback, ReleaseLock
  <2>2. Booked(r)'
    BY <1>6 DEF PolicyBlocks, Bookkeeping, Booked, TypeOK, database, mapper, Goto, Rollback, ReleaseLock,
       Blocked, Sending, Streaming, Saved, Stored, AssignPlaceholder, OpenTransactionIsOwned
  <2>3. OpenTransactionIsOwned'
    BY <1>6 DEF PolicyBlocks, Bookkeeping, Booked, TypeOK, database, mapper, Goto, Rollback, ReleaseLock,
       OpenTransactionIsOwned, Sending, Streaming
  <2>4. \A j \in Keys : rows'[j] # 0 => TypeOf[j] \notin BlockedTypes
    BY <1>6 DEF PolicyBlocks, Bookkeeping, Booked, Blocked, TypeOK, database, mapper, Goto, Rollback, ReleaseLock
  <2>5. conv' # "stored" => rows' = NoNumbers(Keys) /\ counter' = NoNumbers(Types)
    BY <1>6 DEF PolicyBlocks, Bookkeeping, database, Rollback, TypeOK
  <2>. QED
    BY <2>1, <2>2, <2>3, <2>4, <2>5 DEF Bookkeeping
<1>7. ASSUME NEW r \in Requests, PolicyAllows(r)
      PROVE  Bookkeeping'
  <2>1. \A q \in Requests \ {r} : Booked(q)'
    BY <1>7, OthersStayBooked DEF PolicyAllows, TypeOK, database, mapper, Goto, AssignPlaceholder, Rollback, ReleaseLock
  <2>2. Booked(r)'
    BY <1>7 DEF PolicyAllows, Bookkeeping, Booked, TypeOK, database, mapper, Goto, Rollback, ReleaseLock,
       Blocked, Sending, Streaming, Saved, Stored, AssignPlaceholder, OpenTransactionIsOwned
  <2>3. OpenTransactionIsOwned'
    BY <1>7 DEF PolicyAllows, Bookkeeping, Booked, TypeOK, database, mapper, Goto, Rollback, ReleaseLock,
       OpenTransactionIsOwned, Sending, Streaming
  <2>4. \A j \in Keys : rows'[j] # 0 => TypeOf[j] \notin BlockedTypes
    BY <1>7 DEF PolicyAllows, Bookkeeping, Booked, Blocked, TypeOK, database, mapper, Goto, Rollback, ReleaseLock
  <2>5. conv' # "stored" => rows' = NoNumbers(Keys) /\ counter' = NoNumbers(Types)
    BY <1>7 DEF PolicyAllows, Bookkeeping, database, Rollback, TypeOK
  <2>. QED
    BY <2>1, <2>2, <2>3, <2>4, <2>5 DEF Bookkeeping
<1>8. ASSUME NEW r \in Requests, Flush(r)
      PROVE  Bookkeeping'
  <2>1. \A q \in Requests \ {r} : Booked(q)'
    BY <1>8, OthersStayBooked DEF Flush, TypeOK, database, mapper, Goto, AssignPlaceholder, Rollback, ReleaseLock
  <2>2. Booked(r)'
    BY <1>8 DEF Flush, Bookkeeping, Booked, TypeOK, database, mapper, Goto, Rollback, ReleaseLock,
       Blocked, Sending, Streaming, Saved, Stored, AssignPlaceholder, OpenTransactionIsOwned
  <2>3. OpenTransactionIsOwned'
    BY <1>8 DEF Flush, Bookkeeping, Booked, TypeOK, database, mapper, Goto, Rollback, ReleaseLock,
       OpenTransactionIsOwned, Sending, Streaming
  <2>4. \A j \in Keys : rows'[j] # 0 => TypeOf[j] \notin BlockedTypes
    BY <1>8 DEF Flush, Bookkeeping, Booked, Blocked, TypeOK, database, mapper, Goto, Rollback, ReleaseLock
  <2>5. conv' # "stored" => rows' = NoNumbers(Keys) /\ counter' = NoNumbers(Types)
    BY <1>8 DEF Flush, Bookkeeping, database, Rollback, TypeOK
  <2>. QED
    BY <2>1, <2>2, <2>3, <2>4, <2>5 DEF Bookkeeping
<1>9. ASSUME NEW r \in Requests, Commit(r)
      PROVE  Bookkeeping'
  <2>1. \A q \in Requests \ {r} : Booked(q)'
    <3>1. writer = r
      BY <1>9 DEF Commit, Bookkeeping, Booked
    <3>2. \A k \in Keys : rows[k] # 0 => rows'[k] # 0
      BY <1>9 DEF Commit
    <3>3. \A p \in Requests : question[p] # 0 => question'[p] # 0
      BY <1>9 DEF Commit, TypeOK
    <3>. QED
      BY <1>9, <3>1, <3>2, <3>3, OthersStayBooked DEF Commit, TypeOK, database, mapper, Goto, AssignPlaceholder, Rollback, ReleaseLock
  <2>2. Booked(r)'
    BY <1>9 DEF Commit, Bookkeeping, Booked, TypeOK, database, mapper, Goto, Rollback, ReleaseLock,
       Blocked, Sending, Streaming, Saved, Stored, AssignPlaceholder, OpenTransactionIsOwned
  <2>3. OpenTransactionIsOwned'
    BY <1>9 DEF Commit, Bookkeeping, Booked, TypeOK, database, mapper, Goto, Rollback, ReleaseLock,
       OpenTransactionIsOwned, Sending, Streaming
  <2>4. \A j \in Keys : rows'[j] # 0 => TypeOf[j] \notin BlockedTypes
    BY <1>9 DEF Commit, Bookkeeping, Booked, Blocked, TypeOK, database, mapper, Goto, Rollback, ReleaseLock
  <2>5. conv' # "stored" => rows' = NoNumbers(Keys) /\ counter' = NoNumbers(Types)
    BY <1>9 DEF Commit, Bookkeeping, database, Rollback, TypeOK
  <2>. QED
    BY <2>1, <2>2, <2>3, <2>4, <2>5 DEF Bookkeeping
<1>10. ASSUME NEW r \in Requests, BuildHistory(r)
      PROVE  Bookkeeping'
  <2>1. \A q \in Requests \ {r} : Booked(q)'
    BY <1>10, OthersStayBooked DEF BuildHistory, TypeOK, database, mapper, Goto, AssignPlaceholder, Rollback, ReleaseLock
  <2>2. Booked(r)'
    BY <1>10 DEF BuildHistory, Bookkeeping, Booked, TypeOK, database, mapper, Goto, Rollback, ReleaseLock,
       Blocked, Sending, Streaming, Saved, Stored, AssignPlaceholder, OpenTransactionIsOwned
  <2>3. OpenTransactionIsOwned'
    BY <1>10 DEF BuildHistory, Bookkeeping, Booked, TypeOK, database, mapper, Goto, Rollback, ReleaseLock,
       OpenTransactionIsOwned, Sending, Streaming
  <2>4. \A j \in Keys : rows'[j] # 0 => TypeOf[j] \notin BlockedTypes
    BY <1>10 DEF BuildHistory, Bookkeeping, Booked, Blocked, TypeOK, database, mapper, Goto, Rollback, ReleaseLock
  <2>5. conv' # "stored" => rows' = NoNumbers(Keys) /\ counter' = NoNumbers(Types)
    BY <1>10 DEF BuildHistory, Bookkeeping, database, Rollback, TypeOK
  <2>. QED
    BY <2>1, <2>2, <2>3, <2>4, <2>5 DEF Bookkeeping
<1>11. ASSUME NEW r \in Requests, GetProvider(r)
      PROVE  Bookkeeping'
  <2>1. \A q \in Requests \ {r} : Booked(q)'
    BY <1>11, OthersStayBooked DEF GetProvider, TypeOK, database, mapper, Goto, AssignPlaceholder, Rollback, ReleaseLock
  <2>2. Booked(r)'
    BY <1>11 DEF GetProvider, Bookkeeping, Booked, TypeOK, database, mapper, Goto, Rollback, ReleaseLock,
       Blocked, Sending, Streaming, Saved, Stored, AssignPlaceholder, OpenTransactionIsOwned
  <2>3. OpenTransactionIsOwned'
    BY <1>11 DEF GetProvider, Bookkeeping, Booked, TypeOK, database, mapper, Goto, Rollback, ReleaseLock,
       OpenTransactionIsOwned, Sending, Streaming
  <2>4. \A j \in Keys : rows'[j] # 0 => TypeOf[j] \notin BlockedTypes
    BY <1>11 DEF GetProvider, Bookkeeping, Booked, Blocked, TypeOK, database, mapper, Goto, Rollback, ReleaseLock
  <2>5. conv' # "stored" => rows' = NoNumbers(Keys) /\ counter' = NoNumbers(Types)
    BY <1>11 DEF GetProvider, Bookkeeping, database, Rollback, TypeOK
  <2>. QED
    BY <2>1, <2>2, <2>3, <2>4, <2>5 DEF Bookkeeping
<1>12. ASSUME NEW r \in Requests, StreamFails(r)
      PROVE  Bookkeeping'
  <2>1. \A q \in Requests \ {r} : Booked(q)'
    BY <1>12, OthersStayBooked DEF StreamFails, TypeOK, database, mapper, Goto, AssignPlaceholder, Rollback, ReleaseLock
  <2>2. Booked(r)'
    BY <1>12 DEF StreamFails, Bookkeeping, Booked, TypeOK, database, mapper, Goto, Rollback, ReleaseLock,
       Blocked, Sending, Streaming, Saved, Stored, AssignPlaceholder, OpenTransactionIsOwned
  <2>3. OpenTransactionIsOwned'
    BY <1>12 DEF StreamFails, Bookkeeping, Booked, TypeOK, database, mapper, Goto, Rollback, ReleaseLock,
       OpenTransactionIsOwned, Sending, Streaming
  <2>4. \A j \in Keys : rows'[j] # 0 => TypeOf[j] \notin BlockedTypes
    BY <1>12 DEF StreamFails, Bookkeeping, Booked, Blocked, TypeOK, database, mapper, Goto, Rollback, ReleaseLock
  <2>5. conv' # "stored" => rows' = NoNumbers(Keys) /\ counter' = NoNumbers(Types)
    BY <1>12 DEF StreamFails, Bookkeeping, database, Rollback, TypeOK
  <2>. QED
    BY <2>1, <2>2, <2>3, <2>4, <2>5 DEF Bookkeeping
<1>13. ASSUME NEW r \in Requests, SaveAnswer(r)
      PROVE  Bookkeeping'
  <2>1. \A q \in Requests \ {r} : Booked(q)'
    BY <1>13, OthersStayBooked DEF SaveAnswer, TypeOK, database, mapper, Goto, AssignPlaceholder, Rollback, ReleaseLock
  <2>2. Booked(r)'
    BY <1>13 DEF SaveAnswer, Bookkeeping, Booked, TypeOK, database, mapper, Goto, Rollback, ReleaseLock,
       Blocked, Sending, Streaming, Saved, Stored, AssignPlaceholder, OpenTransactionIsOwned
  <2>3. OpenTransactionIsOwned'
    BY <1>13 DEF SaveAnswer, Bookkeeping, Booked, TypeOK, database, mapper, Goto, Rollback, ReleaseLock,
       OpenTransactionIsOwned, Sending, Streaming
  <2>4. \A j \in Keys : rows'[j] # 0 => TypeOf[j] \notin BlockedTypes
    BY <1>13 DEF SaveAnswer, Bookkeeping, Booked, Blocked, TypeOK, database, mapper, Goto, Rollback, ReleaseLock
  <2>5. conv' # "stored" => rows' = NoNumbers(Keys) /\ counter' = NoNumbers(Types)
    BY <1>13 DEF SaveAnswer, Bookkeeping, database, Rollback, TypeOK
  <2>. QED
    BY <2>1, <2>2, <2>3, <2>4, <2>5 DEF Bookkeeping
<1>14. ASSUME NEW r \in Requests, Abort(r)
      PROVE  Bookkeeping'
  <2>1. \A q \in Requests \ {r} : Booked(q)'
    BY <1>14, OthersStayBooked DEF Abort, TypeOK, database, mapper, Goto, AssignPlaceholder, Rollback, ReleaseLock
  <2>2. Booked(r)'
    BY <1>14 DEF Abort, Bookkeeping, Booked, TypeOK, database, mapper, Goto, Rollback, ReleaseLock,
       Blocked, Sending, Streaming, Saved, Stored, AssignPlaceholder, OpenTransactionIsOwned
  <2>3. OpenTransactionIsOwned'
    BY <1>14 DEF Abort, Bookkeeping, Booked, TypeOK, database, mapper, Goto, Rollback, ReleaseLock,
       OpenTransactionIsOwned, Sending, Streaming
  <2>4. \A j \in Keys : rows'[j] # 0 => TypeOf[j] \notin BlockedTypes
    BY <1>14 DEF Abort, Bookkeeping, Booked, Blocked, TypeOK, database, mapper, Goto, Rollback, ReleaseLock
  <2>5. conv' # "stored" => rows' = NoNumbers(Keys) /\ counter' = NoNumbers(Types)
    BY <1>14 DEF Abort, Bookkeeping, database, Rollback, TypeOK
  <2>. QED
    BY <2>1, <2>2, <2>3, <2>4, <2>5 DEF Bookkeeping
<1>15. CASE UNCHANGED vars
  BY <1>15 DEF vars, database, mapper, Bookkeeping, Booked, Blocked, Stored,
     OpenTransactionIsOwned
<1>. QED
  BY <1>1, <1>2, <1>3, <1>4, <1>5, <1>6, <1>7, <1>8, <1>9, <1>10, <1>11, <1>12, <1>13, <1>14, <1>15 DEF Next, Step

LEMMA BookkeepingInvariant == Spec => []Bookkeeping
<1>1. Init => Bookkeeping
  BY ChatAssumption DEF Init, Bookkeeping, Booked, Blocked, OpenTransactionIsOwned,
     Sending, Streaming, Saved, Stored, NoNumbers
<1>. QED
  BY <1>1, TypeCorrect, BookkeepingStep, PTL DEF Spec

\* No failure or policy block strands the write lock or a half-made conversation.
THEOREM TransactionsEnd == Spec => []OpenTransactionIsOwned
<1>1. Bookkeeping => OpenTransactionIsOwned
  BY DEF Bookkeeping
<1>. QED
  BY <1>1, BookkeepingInvariant, PTL

\* Whatever is stored with a placeholder can be looked up in the entity rows.
THEOREM EntitiesKept == Spec => []StoredEntitiesKept
<1>1. Bookkeeping => StoredEntitiesKept
  BY DEF Bookkeeping, Booked, StoredEntitiesKept
<1>. QED
  BY <1>1, BookkeepingInvariant, PTL

\* A message with a blocked entity reaches the provider through no request.
THEOREM BlockedStaysHome == Spec => []BlockedNeverSent
<1>1. TypeOK /\ Bookkeeping => BlockedNeverSent
  BY DEF TypeOK, Bookkeeping, Booked, Stored, BlockedNeverSent
<1>. QED
  BY <1>1, TypeCorrect, BookkeepingInvariant, PTL

\* An answer is stored for a stored question, under the next number.
THEOREM AnswersFollow == Spec => []AnswerFollowsQuestion
<1>1. TypeOK /\ Bookkeeping => AnswerFollowsQuestion
  BY DEF TypeOK, Bookkeeping, Booked, AnswerFollowsQuestion
<1>. QED
  BY <1>1, TypeCorrect, BookkeepingInvariant, PTL

\* An entity row is never changed or lost.
THEOREM RowsAreFinal == Spec => RowsPermanent
<1>1. TypeOK /\ [Next]_vars => [\A k \in Keys : rows[k] # 0 => rows'[k] = rows[k]]_vars
  BY DEF Next, Step, vars, database, mapper, CreateConversation, LoadConversation,
     LoadSession, LoadEntities, MapEntity, PolicyBlocks, PolicyAllows, Flush,
     Commit, BuildHistory, GetProvider, StreamFails, SaveAnswer, Abort
<1>. QED
  BY <1>1, TypeCorrect, PTL DEF Spec, RowsPermanent

-----------------------------------------------------------------------------
(***************************************************************************)
(* The placeholder table, when sends do not overlap.                       *)
(***************************************************************************)

\* The client's discipline leaves the sender alone in the sending section.
LEMMA SendsAlone ==
  ASSUME Client # "any", NEW r \in Requests, MayBegin(r)
  PROVE  \A q \in Requests \ {r} : pc[q] \notin Sending
BY ChatAssumption DEF MayBegin, Ended, Sending

\* A mapper whose numbers are dense stays invertible and dense when it gives
\* the next number of the type to a key that has none.
LEMMA NextNumber ==
  ASSUME NEW f \in [Keys -> Nat], NEW c \in [Types -> Nat], NEW k \in Keys,
         f[k] = 0, Table!Invertible(f),
         \A t \in Types : Table!NumberedUpTo(f, t, c[t]),
         NEW g, g = [f EXCEPT ![k] = c[TypeOf[k]] + 1],
         NEW d, d = [c EXCEPT ![TypeOf[k]] = c[TypeOf[k]] + 1]
  PROVE  /\ Table!Invertible(g)
         /\ \A t \in Types : Table!NumberedUpTo(g, t, d[t])
<1>1. TypeOf[k] \in Types /\ \A j \in Keys : TypeOf[j] \in Types
  BY ChatAssumption
<1>2. \A j \in Keys : TypeOf[j] = TypeOf[k] => f[j] <= c[TypeOf[k]]
  BY <1>1 DEF Table!NumberedUpTo
<1>3. Table!Invertible(g)
  BY <1>1, <1>2 DEF Table!Invertible
<1>4. ASSUME NEW t \in Types PROVE Table!NumberedUpTo(g, t, d[t])
  <2>1. CASE t # TypeOf[k]
    BY <1>1, <2>1 DEF Table!NumberedUpTo
  <2>2. CASE t = TypeOf[k]
    <3>1. ASSUME NEW j \in Keys, TypeOf[j] = t PROVE g[j] \in 0 .. d[t]
      BY <1>1, <1>2, <2>2, <3>1
    <3>2. ASSUME NEW i \in 1 .. d[t] PROVE \E j \in Keys : TypeOf[j] = t /\ g[j] = i
      <4>1. CASE i = c[t] + 1
        BY <1>1, <2>2, <4>1
      <4>2. CASE i # c[t] + 1
        <5>1. i \in 1 .. c[t]
          BY <1>1, <2>2, <3>2, <4>2
        <5>2. PICK j \in Keys : TypeOf[j] = t /\ f[j] = i
          BY <5>1 DEF Table!NumberedUpTo
        <5>3. j # k
          BY <5>1, <5>2
        <5>. QED
          BY <5>2, <5>3
      <4>. QED
        BY <4>1, <4>2
    <3>. QED
      BY <3>1, <3>2 DEF Table!NumberedUpTo
  <2>. QED
    BY <2>1, <2>2
<1>. QED
  BY <1>3, <1>4

\* A sender is not disturbed by a request outside the sending section.
LEMMA SenderStays ==
  ASSUME TypeOK, MappingInvariant, NEW r \in Requests, NEW q \in Requests \ {r},
         pc[q] \in Sending, pc'[r] \notin Sending, rows' = rows, counter' = counter,
         \A p \in Requests \ {r} : pc'[p] = pc[p],
         fwd'[q] = fwd[q], fresh'[q] = fresh[q], mcount'[q] = mcount[q],
         said'[q] = said[q]
  PROVE  Unchallenged(q)'
<1>1. Unchallenged(q)
  BY DEF MappingInvariant
<1>2. \A p \in Requests \ {q} : pc'[p] \notin Sending
  BY <1>1 DEF Unchallenged
<1>. QED
  BY <1>1, <1>2 DEF Unchallenged, Table!Invertible, Table!NumberedUpTo

\* Two requests are never in the sending section.
LEMMA OneSender ==
  ASSUME MappingInvariant, NEW r \in Requests, NEW q \in Requests \ {r},
         pc[r] \in Sending, pc[q] \in Sending
  PROVE  FALSE
BY DEF MappingInvariant, Unchallenged

\* A request that has not stored its message and has read no history may change
\* its mapper without disturbing what was sent to the provider.
LEMMA HistoriesStay ==
  ASSUME TypeOK, Bookkeeping, MappingInvariant, UNCHANGED history,
         \A p \in Requests : p \in Stored \/ history[p] # {} =>
             fwd'[p] = fwd[p] /\ said'[p] = said[p]
  PROVE  \A p \in Requests : history'[p] # {} =>
           /\ Table!Invertible(fwd[p])'
           /\ \A q \in history'[p] : \A k \in said'[q] : fwd'[p][k] = fwd'[q][k]
<1> SUFFICES ASSUME NEW p \in Requests, history[p] # {}
             PROVE  /\ Table!Invertible(fwd[p])'
                    /\ \A q \in history[p] : \A k \in said'[q] : fwd'[p][k] = fwd'[q][k]
  OBVIOUS
<1>1. fwd'[p] = fwd[p] /\ history[p] \subseteq Stored
  BY DEF Bookkeeping, Booked
<1>2. \A q \in history[p] : q \in Requests /\ fwd'[q] = fwd[q] /\ said'[q] = said[q]
  BY <1>1 DEF Stored
<1>. QED
  BY <1>1, <1>2 DEF MappingInvariant, Table!Invertible

\* The same for the messages that are stored.
LEMMA StoredStay ==
  ASSUME TypeOK, Bookkeeping, MappingInvariant, Stored' = Stored,
         rows' = rows, \A p \in Stored : fwd'[p] = fwd[p] /\ said'[p] = said[p]
  PROVE  \A p \in Stored' : \A k \in said'[p] : fwd'[p][k] = rows'[k]
BY DEF MappingInvariant

\* A request that has not committed has stored nothing and read no history.
LEMMA SenderStoredNothing ==
  ASSUME Bookkeeping, NEW r \in Requests,
         pc[r] \in {"idle", "session", "entities", "sanitizing", "approved", "flushed"}
  PROVE  r \notin Stored /\ history[r] = {}
BY DEF Bookkeeping, Booked, Stored, Saved, Streaming

LEMMA MappingStep ==
  ASSUME Client # "any", TypeOK, Bookkeeping, MappingInvariant, [Next]_vars
  PROVE  MappingInvariant'
<1> USE ChatAssumption
<1>1. ASSUME NEW r \in Requests, CreateConversation(r)
      PROVE  MappingInvariant'
  <2>0. rows' = rows /\ counter' = counter /\ Stored' = Stored
    BY <1>1 DEF CreateConversation, database, Stored
  <2>1. Table!Invertible(rows)' /\ CountersMatchRows'
    BY <2>0 DEF MappingInvariant, CountersMatchRows, Table!Invertible, Table!NumberedUpTo
  <2>2. ASSUME NEW q \in Requests, pc'[q] \in Sending PROVE Unchallenged(q)'
    <3>1. \A p \in Requests \ {r} : pc'[p] \notin Sending
      BY <1>1, SendsAlone, BeginsIdle DEF CreateConversation, TypeOK, database, mapper, Goto, Rollback, ReleaseLock
    <3>2. pc'[r] = "sanitizing" /\ UNCHANGED mapper /\ said' = said
      BY <1>1 DEF CreateConversation, Goto, TypeOK
    <3>3. /\ rows = NoNumbers(Keys) /\ counter = NoNumbers(Types)
          /\ fwd[r] = NoNumbers(Keys) /\ mcount[r] = NoNumbers(Types)
          /\ fresh[r] = {}
      BY <1>1, BeginsIdle DEF CreateConversation, Bookkeeping, Booked
    <3>4. q = r
      BY <2>2, <3>1
    <3>. QED
      BY <2>0, <3>1, <3>2, <3>3, <3>4
      DEF Unchallenged, NoNumbers, mapper, Table!Invertible, Table!NumberedUpTo
  <2>3. r \notin Stored /\ history[r] = {}
    BY <1>1, SenderStoredNothing, BeginsIdle DEF CreateConversation
  <2>4. \A p \in Requests \ {r} : fwd'[p] = fwd[p] /\ said'[p] = said[p]
    BY <1>1 DEF CreateConversation, TypeOK, database, mapper, Goto, Rollback, ReleaseLock
  <2>. QED
    BY <1>1, <2>0, <2>1, <2>2, <2>3, <2>4, HistoriesStay, StoredStay
    DEF CreateConversation, MappingInvariant, Stored
<1>2. ASSUME NEW r \in Requests, LoadConversation(r)
      PROVE  MappingInvariant'
  <2>0. rows' = rows /\ counter' = counter /\ Stored' = Stored
    BY <1>2 DEF LoadConversation, database, Stored
  <2>1. Table!Invertible(rows)' /\ CountersMatchRows'
    BY <2>0 DEF MappingInvariant, CountersMatchRows, Table!Invertible, Table!NumberedUpTo
  <2>2. ASSUME NEW q \in Requests, pc'[q] \in Sending PROVE Unchallenged(q)'
    <3>1. \A p \in Requests \ {r} : pc'[p] \notin Sending
      BY <1>2, SendsAlone, BeginsIdle DEF LoadConversation, TypeOK, database, mapper, Goto, Rollback, ReleaseLock
    <3>. QED
      BY <1>2, <2>0, <2>2, <3>1 DEF LoadConversation, Unchallenged, TypeOK, database, mapper, Goto, Rollback, ReleaseLock
  <2>3. r \notin Stored /\ history[r] = {}
    BY <1>2, SenderStoredNothing, BeginsIdle DEF LoadConversation
  <2>4. \A p \in Requests \ {r} : fwd'[p] = fwd[p] /\ said'[p] = said[p]
    BY <1>2 DEF LoadConversation, TypeOK, database, mapper, Goto, Rollback, ReleaseLock
  <2>. QED
    BY <1>2, <2>0, <2>1, <2>2, <2>3, <2>4, HistoriesStay, StoredStay
    DEF LoadConversation, MappingInvariant, Stored
<1>3. ASSUME NEW r \in Requests, LoadSession(r)
      PROVE  MappingInvariant'
  <2>0. rows' = rows /\ counter' = counter /\ Stored' = Stored
    BY <1>3 DEF LoadSession, database, Stored
  <2>1. Table!Invertible(rows)' /\ CountersMatchRows'
    BY <2>0 DEF MappingInvariant, CountersMatchRows, Table!Invertible, Table!NumberedUpTo
  <2>2. ASSUME NEW q \in Requests, pc'[q] \in Sending PROVE Unchallenged(q)'
    <3>1. pc[r] \in Sending /\ Unchallenged(r)
      BY <1>3 DEF LoadSession, Sending, MappingInvariant
    <3>2. q = r
      BY <1>3, <2>2, <3>1, OneSender DEF LoadSession, TypeOK, database, mapper, Goto, Rollback, ReleaseLock
    <3>3. \A p \in Requests \ {r} : pc'[p] \notin Sending
      BY <1>3, <3>1 DEF LoadSession, Unchallenged, TypeOK, database, mapper, Goto, Rollback, ReleaseLock
    <3>. QED
      BY <1>3, <2>0, <3>1, <3>2, <3>3 DEF LoadSession, Unchallenged, TypeOK, database, mapper, Goto, Rollback, ReleaseLock
  <2>3. r \notin Stored /\ history[r] = {}
    BY <1>3, SenderStoredNothing DEF LoadSession
  <2>4. \A p \in Requests \ {r} : fwd'[p] = fwd[p] /\ said'[p] = said[p]
    BY <1>3 DEF LoadSession, TypeOK, database, mapper, Goto, Rollback, ReleaseLock
  <2>. QED
    BY <1>3, <2>0, <2>1, <2>2, <2>3, <2>4, HistoriesStay, StoredStay
    DEF LoadSession, MappingInvariant, Stored
<1>4. ASSUME NEW r \in Requests, LoadEntities(r)
      PROVE  MappingInvariant'
  <2>0. rows' = rows /\ counter' = counter /\ Stored' = Stored
    BY <1>4 DEF LoadEntities, database, Stored
  <2>1. Table!Invertible(rows)' /\ CountersMatchRows'
    BY <2>0 DEF MappingInvariant, CountersMatchRows, Table!Invertible, Table!NumberedUpTo
  <2>2. ASSUME NEW q \in Requests, pc'[q] \in Sending PROVE Unchallenged(q)'
    <3>1. pc[r] \in Sending /\ Unchallenged(r)
      BY <1>4 DEF LoadEntities, Sending, MappingInvariant
    <3>2. q = r
      BY <1>4, <2>2, <3>1, OneSender DEF LoadEntities, TypeOK, database, mapper, Goto, Rollback, ReleaseLock
    <3>3. \A p \in Requests \ {r} : pc'[p] \notin Sending
      BY <1>4, <3>1 DEF LoadEntities, Unchallenged, TypeOK, database, mapper, Goto, Rollback, ReleaseLock
    <3>4. pc'[r] = "sanitizing" /\ fwd'[r] = rows /\ UNCHANGED <<mcount, fresh, said>>
      BY <1>4 DEF LoadEntities, Goto, TypeOK
    <3>5. mcount[r] = counter /\ fresh[r] = {}
      BY <1>4, <3>1 DEF LoadEntities, Unchallenged, Bookkeeping, Booked
    <3>. QED
      BY <2>0, <2>1, <3>2, <3>3, <3>4, <3>5
      DEF Unchallenged, CountersMatchRows, Table!Invertible, Table!NumberedUpTo
  <2>3. r \notin Stored /\ history[r] = {}
    BY <1>4, SenderStoredNothing DEF LoadEntities
  <2>4. \A p \in Requests \ {r} : fwd'[p] = fwd[p] /\ said'[p] = said[p]
    BY <1>4 DEF LoadEntities, TypeOK, database, mapper, Goto, Rollback, ReleaseLock
  <2>. QED
    BY <1>4, <2>0, <2>1, <2>2, <2>3, <2>4, HistoriesStay, StoredStay
    DEF LoadEntities, MappingInvariant, Stored
<1>5. ASSUME NEW r \in Requests, NEW k \in Keys, MapEntity(r, k)
      PROVE  MappingInvariant'
  <2>0. rows' = rows /\ counter' = counter /\ Stored' = Stored
    BY <1>5 DEF MapEntity, database, Stored
  <2>1. Table!Invertible(rows)' /\ CountersMatchRows'
    BY <2>0 DEF MappingInvariant, CountersMatchRows, Table!Invertible, Table!NumberedUpTo
  <2>2. ASSUME NEW q \in Requests, pc'[q] \in Sending PROVE Unchallenged(q)'
    <3>1. pc[r] \in Sending /\ Unchallenged(r)
      BY <1>5 DEF MapEntity, Sending, MappingInvariant
    <3>2. q = r
      BY <1>5, <2>2, <3>1, OneSender DEF MapEntity, TypeOK, database, mapper, Goto, Rollback, ReleaseLock
    <3>3. \A p \in Requests \ {r} : pc'[p] \notin Sending
      BY <1>5, <3>1 DEF MapEntity, Unchallenged, TypeOK, database, mapper, Goto, Rollback, ReleaseLock
    <3>4. pc[r] = "sanitizing" /\ pc' = pc /\ said'[r] = said[r] \cup {k}
      BY <1>5 DEF MapEntity, TypeOK
    <3>5. CASE fwd[r][k] # 0
      <4>1. UNCHANGED mapper
        BY <1>5, <3>5 DEF MapEntity
      <4>. QED
        BY <2>0, <3>1, <3>2, <3>3, <3>4, <4>1
        DEF Unchallenged, mapper, Table!Invertible, Table!NumberedUpTo
    <3>6. CASE fwd[r][k] = 0
      <4> DEFINE n == mcount[r][TypeOf[k]] + 1
      <4>1. fwd[r] \in [Keys -> Nat] /\ mcount[r] \in [Types -> Nat] /\ fresh[r] \subseteq Keys
        BY DEF TypeOK
      <4>2. /\ fwd'[r] = [fwd[r] EXCEPT ![k] = n]
            /\ mcount'[r] = [mcount[r] EXCEPT ![TypeOf[k]] = n]
            /\ fresh'[r] = fresh[r] \cup {k}
        BY <1>5, <3>6 DEF MapEntity, AssignPlaceholder, TypeOK
      <4>3. /\ Table!Invertible(fwd'[r])
            /\ \A t \in Types : Table!NumberedUpTo(fwd'[r], t, mcount'[r][t])
        BY <3>1, <3>4, <3>6, <4>1, <4>2, NextNumber DEF Unchallenged
      <4>4. /\ \A j \in Keys : rows[j] # 0 => fwd'[r][j] = rows[j]
            /\ \A j \in Keys : fwd'[r][j] # 0 /\ rows[j] = 0 => j \in fresh'[r]
            /\ fresh'[r] \subseteq said'[r]
            /\ fresh'[r] # {}
        BY <3>1, <3>4, <3>6, <4>1, <4>2 DEF Unchallenged
      <4>. QED
        BY <2>0, <3>2, <3>3, <3>4, <4>3, <4>4
        DEF Unchallenged, Table!Invertible, Table!NumberedUpTo
    <3>. QED
      BY <3>5, <3>6
  <2>3. r \notin Stored /\ history[r] = {}
    BY <1>5, SenderStoredNothing DEF MapEntity
  <2>4. \A p \in Requests \ {r} : fwd'[p] = fwd[p] /\ said'[p] = said[p]
    BY <1>5 DEF MapEntity, AssignPlaceholder, TypeOK, database, mapper, Goto, Rollback, ReleaseLock
  <2>. QED
    BY <1>5, <2>0, <2>1, <2>2, <2>3, <2>4, HistoriesStay, StoredStay
    DEF MapEntity, MappingInvariant, Stored
<1>6. ASSUME NEW r \in Requests, PolicyBlocks(r)
      PROVE  MappingInvariant'
  <2>0. rows' = rows /\ counter' = counter /\ Stored' = Stored
    BY <1>6 DEF PolicyBlocks, database, Stored
  <2>1. Table!Invertible(rows)' /\ CountersMatchRows'
    BY <2>0 DEF MappingInvariant, CountersMatchRows, Table!Invertible, Table!NumberedUpTo
  <2>2. ASSUME NEW q \in Requests, pc'[q] \in Sending PROVE Unchallenged(q)'
    <3>1. pc'[r] \notin Sending
      BY <1>6 DEF PolicyBlocks, TypeOK, database, mapper, Goto, Rollback, ReleaseLock, Sending
    <3>2. q \in Requests \ {r} /\ pc[q] \in Sending
      BY <1>6, <2>2, <3>1 DEF PolicyBlocks, TypeOK, database, mapper, Goto, Rollback, ReleaseLock
    <3>. QED
      BY <1>6, <2>0, <3>1, <3>2, SenderStays DEF PolicyBlocks, TypeOK, database, mapper, Goto, Rollback, ReleaseLock
  <2>3. r \notin Stored /\ history[r] = {}
    BY <1>6, SenderStoredNothing DEF PolicyBlocks
  <2>4. \A p \in Requests \ {r} : fwd'[p] = fwd[p] /\ said'[p] = said[p]
    BY <1>6 DEF PolicyBlocks, TypeOK, database, mapper, Goto, Rollback, ReleaseLock
  <2>. QED
    BY <1>6, <2>0, <2>1, <2>2, <2>3, <2>4, HistoriesStay, StoredStay
    DEF PolicyBlocks, MappingInvariant, Stored
<1>7. ASSUME NEW r \in Requests, PolicyAllows(r)
      PROVE  MappingInvariant'
  <2>0. rows' = rows /\ counter' = counter /\ Stored' = Stored
    BY <1>7 DEF PolicyAllows, database, Stored
  <2>1. Table!Invertible(rows)' /\ CountersMatchRows'
    BY <2>0 DEF MappingInvariant, CountersMatchRows, Table!Invertible, Table!NumberedUpTo
  <2>2. ASSUME NEW q \in Requests, pc'[q] \in Sending PROVE Unchallenged(q)'
    <3>1. pc[r] \in Sending /\ Unchallenged(r)
      BY <1>7 DEF PolicyAllows, Sending, MappingInvariant
    <3>2. q = r
      BY <1>7, <2>2, <3>1, OneSender DEF PolicyAllows, TypeOK, database, mapper, Goto, Rollback, ReleaseLock
    <3>3. \A p \in Requests \ {r} : pc'[p] \notin Sending
      BY <1>7, <3>1 DEF PolicyAllows, Unchallenged, TypeOK, database, mapper, Goto, Rollback, ReleaseLock
    <3>. QED
      BY <1>7, <2>0, <3>1, <3>2, <3>3 DEF PolicyAllows, Unchallenged, TypeOK, database, mapper, Goto, Rollback, ReleaseLock
  <2>3. r \notin Stored /\ history[r] = {}
    BY <1>7, SenderStoredNothing DEF PolicyAllows
  <2>4. \A p \in Requests \ {r} : fwd'[p] = fwd[p] /\ said'[p] = said[p]
    BY <1>7 DEF PolicyAllows, TypeOK, database, mapper, Goto, Rollback, ReleaseLock
  <2>. QED
    BY <1>7, <2>0, <2>1, <2>2, <2>3, <2>4, HistoriesStay, StoredStay
    DEF PolicyAllows, MappingInvariant, Stored
<1>8. ASSUME NEW r \in Requests, Flush(r)
      PROVE  MappingInvariant'
  <2>0. rows' = rows /\ counter' = counter /\ Stored' = Stored
    BY <1>8 DEF Flush, database, Stored
  <2>1. Table!Invertible(rows)' /\ CountersMatchRows'
    BY <2>0 DEF MappingInvariant, CountersMatchRows, Table!Invertible, Table!NumberedUpTo
  <2>2. ASSUME NEW q \in Requests, pc'[q] \in Sending PROVE Unchallenged(q)'
    <3>1. pc[r] \in Sending /\ Unchallenged(r)
      BY <1>8 DEF Flush, Sending, MappingInvariant
    <3>2. q = r
      BY <1>8, <2>2, <3>1, OneSender DEF Flush, TypeOK, database, mapper, Goto, Rollback, ReleaseLock
    <3>3. \A p \in Requests \ {r} : pc'[p] \notin Sending
      BY <1>8, <3>1 DEF Flush, Unchallenged, TypeOK, database, mapper, Goto, Rollback, ReleaseLock
    <3>. QED
      BY <1>8, <2>0, <3>1, <3>2, <3>3 DEF Flush, Unchallenged, TypeOK, database, mapper, Goto, Rollback, ReleaseLock
  <2>3. r \notin Stored /\ history[r] = {}
    BY <1>8, SenderStoredNothing DEF Flush
  <2>4. \A p \in Requests \ {r} : fwd'[p] = fwd[p] /\ said'[p] = said[p]
    BY <1>8 DEF Flush, TypeOK, database, mapper, Goto, Rollback, ReleaseLock
  <2>. QED
    BY <1>8, <2>0, <2>1, <2>2, <2>3, <2>4, HistoriesStay, StoredStay
    DEF Flush, MappingInvariant, Stored
<1>9. ASSUME NEW r \in Requests, Commit(r)
      PROVE  MappingInvariant'
  <2>0. pc[r] \in Sending /\ Unchallenged(r)
    BY <1>9 DEF Commit, Sending, MappingInvariant
  <2>1. rows' = fwd[r] /\ counter' = mcount[r]
    <3>1. ASSUME NEW k \in Keys PROVE rows'[k] = fwd[r][k]
      BY <1>9, <2>0 DEF Commit, Unchallenged, TypeOK
    <3>2. rows' \in [Keys -> Nat] /\ fwd[r] \in [Keys -> Nat]
      BY <1>9 DEF Commit, TypeOK
    <3>3. counter' = mcount[r]
      BY <1>9, <2>0 DEF Commit, Unchallenged
    <3>. QED
      BY <3>1, <3>2, <3>3
  <2>2. Table!Invertible(rows)' /\ CountersMatchRows'
    BY <1>9, <2>0, <2>1 DEF Commit, Unchallenged, CountersMatchRows, Table!Invertible,
       Table!NumberedUpTo
  <2>3. fwd' = fwd /\ said' = said /\ history' = history
    BY <1>9 DEF Commit, mapper
  <2>4. ASSUME NEW q \in Requests, pc'[q] \in Sending PROVE Unchallenged(q)'
    <3>1. q = r
      BY <1>9, <2>0, <2>4, OneSender DEF Commit, TypeOK, database, mapper, Goto
    <3>2. \A p \in Requests \ {r} : pc'[p] \notin Sending
      BY <1>9, <2>0 DEF Commit, Unchallenged, TypeOK, database, mapper, Goto
    <3>3. pc'[r] = "committed"
      BY <1>9 DEF Commit, TypeOK, database, mapper, Goto
    <3>. QED
      BY <2>1, <2>3, <3>1, <3>2, <3>3 DEF Unchallenged
  <2>5. ASSUME NEW q \in Stored', NEW k \in said'[q] PROVE fwd'[q][k] = rows'[k]
    <3>1. CASE q = r
      BY <2>1, <2>3, <3>1
    <3>2. CASE q # r
      <4>1. q \in Stored
        BY <1>9, <2>5, <3>2 DEF Commit, TypeOK, Stored
      <4>2. k \in said[q] /\ k \in Keys /\ rows[k] # 0
        BY <2>3, <2>5, <4>1 DEF Bookkeeping, Booked, Stored, TypeOK
      <4>3. fwd[q][k] = rows[k] /\ rows'[k] = rows[k]
        BY <1>9, <4>1, <4>2 DEF Commit, MappingInvariant
      <4>. QED
        BY <2>3, <4>3
    <3>. QED
      BY <3>1, <3>2
  <2>. QED
    BY <2>2, <2>3, <2>4, <2>5, HistoriesStay DEF MappingInvariant
<1>10. ASSUME NEW r \in Requests, BuildHistory(r)
      PROVE  MappingInvariant'
  <2>0. rows' = rows /\ counter' = counter /\ Stored' = Stored
    BY <1>10 DEF BuildHistory, database, Stored
  <2>1. Table!Invertible(rows)' /\ CountersMatchRows'
    BY <2>0 DEF MappingInvariant, CountersMatchRows, Table!Invertible, Table!NumberedUpTo
  <2>2. ASSUME NEW q \in Requests, pc'[q] \in Sending PROVE Unchallenged(q)'
    <3>1. pc'[r] \notin Sending
      BY <1>10 DEF BuildHistory, TypeOK, database, mapper, Goto, Rollback, ReleaseLock, Sending
    <3>2. q \in Requests \ {r} /\ pc[q] \in Sending
      BY <1>10, <2>2, <3>1 DEF BuildHistory, TypeOK, database, mapper, Goto, Rollback, ReleaseLock
    <3>. QED
      BY <1>10, <2>0, <3>1, <3>2, SenderStays DEF BuildHistory, TypeOK, database, mapper, Goto, Rollback, ReleaseLock
  <2>3. fwd' = fwd /\ said' = said
    BY <1>10 DEF BuildHistory, mapper
  <2>4. Unchallenged(r) /\ fwd[r] = rows
    BY <1>10 DEF BuildHistory, Sending, MappingInvariant, Unchallenged
  <2>5. ASSUME NEW p \in Requests, history'[p] # {}
        PROVE  /\ Table!Invertible(fwd[p])'
               /\ \A q \in history'[p] : \A k \in said'[q] : fwd'[p][k] = fwd'[q][k]
    <3>1. CASE p = r
      <4>1. history'[r] = Stored
        BY <1>10 DEF BuildHistory, Stored, TypeOK
      <4>2. Table!Invertible(fwd[r])
        BY <2>4 DEF MappingInvariant
      <4>3. \A q \in Stored : \A k \in said[q] : fwd[q][k] = rows[k]
        BY DEF MappingInvariant
      <4>. QED
        BY <2>3, <2>4, <3>1, <4>1, <4>2, <4>3 DEF Table!Invertible
    <3>2. CASE p # r
      <4>1. history'[p] = history[p]
        BY <1>10, <3>2 DEF BuildHistory, TypeOK
      <4>. QED
        BY <2>3, <2>5, <4>1 DEF MappingInvariant, Table!Invertible
    <3>. QED
      BY <3>1, <3>2
  <2>. QED
    BY <2>0, <2>1, <2>2, <2>3, <2>5, StoredStay DEF MappingInvariant
<1>11. ASSUME NEW r \in Requests, GetProvider(r)
      PROVE  MappingInvariant'
  <2>0. rows' = rows /\ counter' = counter /\ Stored' = Stored
    BY <1>11 DEF GetProvider, database, Stored
  <2>1. Table!Invertible(rows)' /\ CountersMatchRows'
    BY <2>0 DEF MappingInvariant, CountersMatchRows, Table!Invertible, Table!NumberedUpTo
  <2>2. ASSUME NEW q \in Requests, pc'[q] \in Sending PROVE Unchallenged(q)'
    <3>1. pc'[r] \notin Sending
      BY <1>11 DEF GetProvider, TypeOK, database, mapper, Goto, Rollback, ReleaseLock, Sending
    <3>2. q \in Requests \ {r} /\ pc[q] \in Sending
      BY <1>11, <2>2, <3>1 DEF GetProvider, TypeOK, database, mapper, Goto, Rollback, ReleaseLock
    <3>. QED
      BY <1>11, <2>0, <3>1, <3>2, SenderStays DEF GetProvider, TypeOK, database, mapper, Goto, Rollback, ReleaseLock
  <2>3. fwd' = fwd /\ said' = said /\ history' = history
    BY <1>11 DEF GetProvider, mapper
  <2>. QED
    BY <2>0, <2>1, <2>2, <2>3, HistoriesStay, StoredStay
    DEF MappingInvariant, Stored
<1>12. ASSUME NEW r \in Requests, StreamFails(r)
      PROVE  MappingInvariant'
  <2>0. rows' = rows /\ counter' = counter /\ Stored' = Stored
    BY <1>12 DEF StreamFails, database, Stored
  <2>1. Table!Invertible(rows)' /\ CountersMatchRows'
    BY <2>0 DEF MappingInvariant, CountersMatchRows, Table!Invertible, Table!NumberedUpTo
  <2>2. ASSUME NEW q \in Requests, pc'[q] \in Sending PROVE Unchallenged(q)'
    <3>1. pc'[r] \notin Sending
      BY <1>12 DEF StreamFails, TypeOK, database, mapper, Goto, Rollback, ReleaseLock, Sending
    <3>2. q \in Requests \ {r} /\ pc[q] \in Sending
      BY <1>12, <2>2, <3>1 DEF StreamFails, TypeOK, database, mapper, Goto, Rollback, ReleaseLock
    <3>. QED
      BY <1>12, <2>0, <3>1, <3>2, SenderStays DEF StreamFails, TypeOK, database, mapper, Goto, Rollback, ReleaseLock
  <2>3. fwd' = fwd /\ said' = said /\ history' = history
    BY <1>12 DEF StreamFails, mapper
  <2>. QED
    BY <2>0, <2>1, <2>2, <2>3, HistoriesStay, StoredStay
    DEF MappingInvariant, Stored
<1>13. ASSUME NEW r \in Requests, SaveAnswer(r)
      PROVE  MappingInvariant'
  <2>0. rows' = rows /\ counter' = counter /\ Stored' = Stored
    BY <1>13 DEF SaveAnswer, database, Stored
  <2>1. Table!Invertible(rows)' /\ CountersMatchRows'
    BY <2>0 DEF MappingInvariant, CountersMatchRows, Table!Invertible, Table!NumberedUpTo
  <2>2. ASSUME NEW q \in Requests, pc'[q] \in Sending PROVE Unchallenged(q)'
    <3>1. pc'[r] \notin Sending
      BY <1>13 DEF SaveAnswer, TypeOK, database, mapper, Goto, Rollback, ReleaseLock, Sending
    <3>2. q \in Requests \ {r} /\ pc[q] \in Sending
      BY <1>13, <2>2, <3>1 DEF SaveAnswer, TypeOK, database, mapper, Goto, Rollback, ReleaseLock
    <3>. QED
      BY <1>13, <2>0, <3>1, <3>2, SenderStays DEF SaveAnswer, TypeOK, database, mapper, Goto, Rollback, ReleaseLock
  <2>3. fwd' = fwd /\ said' = said /\ history' = history
    BY <1>13 DEF SaveAnswer, mapper
  <2>. QED
    BY <2>0, <2>1, <2>2, <2>3, HistoriesStay, StoredStay
    DEF MappingInvariant, Stored
<1>14. ASSUME NEW r \in Requests, Abort(r)
      PROVE  MappingInvariant'
  <2>0. rows' = rows /\ counter' = counter /\ Stored' = Stored
    BY <1>14 DEF Abort, database, Stored
  <2>1. Table!Invertible(rows)' /\ CountersMatchRows'
    BY <2>0 DEF MappingInvariant, CountersMatchRows, Table!Invertible, Table!NumberedUpTo
  <2>2. ASSUME NEW q \in Requests, pc'[q] \in Sending PROVE Unchallenged(q)'
    <3>1. pc'[r] \notin Sending
      BY <1>14 DEF Abort, TypeOK, database, mapper, Goto, Rollback, ReleaseLock, Sending
    <3>2. q \in Requests \ {r} /\ pc[q] \in Sending
      BY <1>14, <2>2, <3>1 DEF Abort, TypeOK, database, mapper, Goto, Rollback, ReleaseLock
    <3>. QED
      BY <1>14, <2>0, <3>1, <3>2, SenderStays DEF Abort, TypeOK, database, mapper, Goto, Rollback, ReleaseLock
  <2>3. fwd' = fwd /\ said' = said /\ history' = history
    BY <1>14 DEF Abort, mapper
  <2>. QED
    BY <2>0, <2>1, <2>2, <2>3, HistoriesStay, StoredStay
    DEF MappingInvariant, Stored
<1>15. CASE UNCHANGED vars
  BY <1>15 DEF vars, database, mapper, MappingInvariant, Unchallenged, Stored, CountersMatchRows,
     Table!Invertible, Table!NumberedUpTo
<1>. QED
  BY <1>1, <1>2, <1>3, <1>4, <1>5, <1>6, <1>7, <1>8, <1>9, <1>10, <1>11, <1>12, <1>13, <1>14, <1>15 DEF Next, Step

LEMMA MappingHolds == ASSUME Client # "any" PROVE Spec => []MappingInvariant
<1>1. Init => MappingInvariant
  BY ChatAssumption DEF Init, MappingInvariant, CountersMatchRows, Stored, Sending,
     NoNumbers, Table!Invertible, Table!NumberedUpTo
<1>2. TypeOK /\ Bookkeeping /\ MappingInvariant /\ [Next]_vars => MappingInvariant'
  BY MappingStep
<1>. QED
  BY <1>1, <1>2, TypeCorrect, BookkeepingInvariant, PTL DEF Spec

\* When sends do not overlap, a value has one placeholder in all the messages.
THEOREM PlaceholdersAgree ==
  ASSUME Client # "any" PROVE Spec => []SameEntitySamePlaceholder
<1>1. TypeOK /\ MappingInvariant => SameEntitySamePlaceholder
  BY DEF TypeOK, MappingInvariant, SameEntitySamePlaceholder, Stored
<1>. QED
  BY <1>1, TypeCorrect, MappingHolds, PTL

\* When sends do not overlap, a placeholder of the database stands for one value.
THEOREM PlaceholdersReverse == ASSUME Client # "any" PROVE Spec => []Reversible
<1>1. MappingInvariant => Reversible
  BY DEF MappingInvariant, Reversible
<1>. QED
  BY <1>1, MappingHolds, PTL

\* When sends do not overlap, the persisted counters are the numbers in use.
THEOREM CountersAgree == ASSUME Client # "any" PROVE Spec => []CountersMatchRows
<1>1. MappingInvariant => CountersMatchRows
  BY DEF MappingInvariant
<1>. QED
  BY <1>1, MappingHolds, PTL

\* When sends do not overlap, every placeholder of the history a request sends is
\* rehydrated by that request to the value its message meant.
THEOREM HistoriesRehydrate ==
  ASSUME Client # "any" PROVE Spec => []HistoryRehydrates
<1>1. ASSUME TypeOK, Bookkeeping, MappingInvariant PROVE HistoryRehydrates
  <2> SUFFICES ASSUME NEW r \in Requests, NEW q \in history[r], NEW k \in said[q]
               PROVE  Lookup(r, Placeholder(k, fwd[q][k])) = {k}
    BY DEF HistoryRehydrates
  <2>1. q \in Requests /\ k \in Keys /\ fwd[q][k] # 0
    BY <1>1 DEF TypeOK, Bookkeeping, Booked
  <2>2. fwd[r][k] = fwd[q][k] /\ Table!Invertible(fwd[r])
    BY <1>1 DEF MappingInvariant
  <2>3. {j \in Keys : fwd[r][j] # 0 /\ Placeholder(j, fwd[r][j]) = Placeholder(k, fwd[q][k])} = {k}
    BY <2>1, <2>2 DEF Placeholder, Table!Invertible
  <2>. QED
    BY <2>3 DEF Lookup
<1>. QED
  BY <1>1, TypeCorrect, BookkeepingInvariant, MappingHolds, PTL

\* When sends do not overlap, the conversation implements the placeholder table.
THEOREM ImplementsTable == ASSUME Client # "any" PROVE Spec => PromisedTable
<1> DEFINE Used == UNION {{<<k, fwd[r][k]>> : k \in said[r]} : r \in Stored}
<1>1. Init => Table!Init
  BY DEF Init, Table!Init, NoNumbers, Stored
<1>2. ASSUME TypeOK, Bookkeeping, MappingInvariant, TypeOK', Bookkeeping',
             MappingInvariant', [Next]_vars
      PROVE  [Table!Store]_(Table!vars)
  <2>1. \A k \in Keys : rows[k] # 0 => rows'[k] = rows[k]
    BY <1>2 DEF Next, Step, vars, database, mapper, CreateConversation, LoadConversation,
       LoadSession, LoadEntities, MapEntity, PolicyBlocks, PolicyAllows, Flush,
       Commit, BuildHistory, GetProvider, StreamFails, SaveAnswer, Abort
  <2>2. Table!Invertible(rows)'
    BY <1>2 DEF MappingInvariant
  <2>3. \A r \in Stored : r \in Stored' /\ fwd'[r] = fwd[r] /\ said'[r] = said[r]
    <3>1. CASE UNCHANGED vars
      BY <3>1 DEF vars, database, mapper, Stored
    <3>2. ASSUME NEW r \in Requests, Step(r), NEW q \in Stored
          PROVE  q \in Stored' /\ fwd'[q] = fwd[q] /\ said'[q] = said[q]
      <4>1. pc[r] \in {"entities", "sanitizing"} => q # r
        BY <1>2, <3>2, SenderStoredNothing
      <4>2. question'[q] = question[q] \/ question'[q] # 0
        <5>1. CASE Commit(r)
          BY <1>2, <5>1 DEF Commit, TypeOK, Stored
        <5>2. CASE ~Commit(r)
          BY <3>2, <5>2 DEF Step, database, CreateConversation, LoadConversation,
             LoadSession, LoadEntities, MapEntity, PolicyBlocks, PolicyAllows, Flush,
             BuildHistory, GetProvider, StreamFails, SaveAnswer, Abort
        <5>. QED
          BY <5>1, <5>2
      <4>3. fwd'[q] = fwd[q] /\ said'[q] = said[q]
        BY <1>2, <3>2, <4>1 DEF Step, mapper, CreateConversation, LoadConversation,
           LoadSession, LoadEntities, MapEntity, AssignPlaceholder, PolicyBlocks,
           PolicyAllows, Flush, Commit, BuildHistory, GetProvider, StreamFails,
           SaveAnswer, Abort, TypeOK, Stored
      <4>. QED
        BY <3>2, <4>2, <4>3 DEF Stored
    <3>. QED
      BY <1>2, <3>1, <3>2 DEF Next
  <2>4. Used \subseteq Used'
    BY <2>3
  <2>5. Used' \subseteq Table!Graph(rows)'
    <3>1. \A r \in Stored' : \A k \in said'[r] :
            k \in Keys /\ fwd'[r][k] = rows'[k] /\ rows'[k] # 0
      BY <1>2 DEF TypeOK, Bookkeeping, Booked, MappingInvariant, Stored
    <3>. QED
      BY <3>1 DEF Table!Graph
  <2>. QED
    BY <2>1, <2>2, <2>4, <2>5 DEF Table!Store, Table!vars
<1>. QED
  BY <1>1, <1>2, TypeCorrect, BookkeepingInvariant, MappingHolds, PTL
  DEF Spec, PromisedTable, Table!Spec

(***************************************************************************)
(* The numbers of the messages of a conversation whose turns do not        *)
(* overlap: without gap or duplicate, for any number of requests, with     *)
(* documents or without, and however each of them fails.                   *)
(***************************************************************************)

Active == Sending \cup Streaming

\* Where a request is before its question is stored, and after.
Before == Sending \ {"committed"}
After == {"committed"} \cup Streaming

Answered == {r \in Requests : answer[r] # 0}

Numbers == {question[r] : r \in Stored} \cup {answer[r] : r \in Answered}

Counted ==
    /\ IsFiniteSet(Stored) /\ IsFiniteSet(Answered)
    /\ Numbers = 1 .. total
    /\ Cardinality(Stored) + Cardinality(Answered) = total

\* What a request has read of the total is the total, until it has stored its
\* question under the next number.
Numbered(r) ==
    /\ pc[r] = "idle" => seen[r] = 0 /\ question[r] = 0 /\ answer[r] = 0
    /\ pc[r] \in Before => seen[r] = total /\ question[r] = 0 /\ answer[r] = 0
    /\ pc[r] \in After => seen[r] + 1 = total /\ question[r] = total /\ answer[r] = 0

\* As long as turns do not overlap one request is active at most. A conversation
\* that is not stored has no messages.
Turns ==
    ~overlapped =>
        /\ \A q, r \in Requests : pc[q] \in Active /\ pc[r] \in Active => q = r
        /\ \A r \in Requests : Numbered(r)
        /\ conv # "stored" => total = 0
        /\ Counted

LEMMA LabelsApart ==
    /\ "idle" \notin Active /\ Active = Before \cup After /\ Before \cap After = {}
    /\ Ended \cap Active = {} /\ "idle" \notin Ended
    /\ "committed" \in After /\ "streaming" \in After /\ "flushed" \in Before
    /\ {"session", "entities", "sanitizing", "approved", "flushed"} \subseteq Before
  BY DEF Active, Before, After, Sending, Streaming, Ended

LEMMA CountedStays ==
    ASSUME Counted, UNCHANGED <<total, question, answer>>
    PROVE  Counted'
  BY DEF Counted, Numbers, Stored, Answered

LEMMA OneMore ==
    ASSUME NEW S, IsFiniteSet(S), NEW x, x \notin S
    PROVE  /\ IsFiniteSet(S \cup {x}) /\ Cardinality(S) \in Nat
           /\ Cardinality(S \cup {x}) = Cardinality(S) + 1
  BY FS_AddElement, FS_CardinalityType

LEMMA NextOf == \A n \in Nat : (1 .. n) \cup {n + 1} = 1 .. (n + 1)
  OBVIOUS

\* A step of r that stores nothing and moves it within its stretch, or ends it.
Quiet(r) ==
    /\ UNCHANGED <<total, question, answer, seen, overlapped>>
    /\ conv = "stored" => conv' = "stored"
    /\ \A q \in Requests \ {r} : pc'[q] = pc[q]
    /\ \/ pc'[r] \in Ended
       \/ pc[r] \in Before /\ pc'[r] \in Before
       \/ pc[r] \in After /\ pc'[r] \in After

LEMMA QuietKeeps ==
    ASSUME TypeOK, Turns, NEW r \in Requests, Quiet(r)
    PROVE  Turns'
  <1>1. ASSUME ~overlapped
        PROVE  /\ \A q \in Requests : pc'[q] \in Active => pc[q] \in Active
               /\ \A q \in Requests : Numbered(q)'
               /\ conv' # "stored" => total' = 0
               /\ Counted'
    <2>1. \A q \in Requests : pc'[q] \in Active => pc[q] \in Active
      BY LabelsApart DEF Quiet
    <2>2. ASSUME NEW q \in Requests
          PROVE  Numbered(q)'
      <3>1. Numbered(q)
        BY <1>1 DEF Turns
      <3>2. CASE q # r
        BY <3>1, <3>2 DEF Quiet, Numbered
      <3>3. CASE q = r
        BY <3>1, <3>3, LabelsApart DEF Quiet, Numbered
      <3> QED
        BY <3>2, <3>3
    <2>3. conv' # "stored" => total' = 0
      BY <1>1 DEF Quiet, Turns
    <2>4. Counted'
      BY <1>1, CountedStays DEF Quiet, Turns
    <2> QED
      BY <2>1, <2>2, <2>3, <2>4
  <1> QED
    BY <1>1 DEF Turns, Quiet

LEMMA BeginKeeps ==
    ASSUME TypeOK, Turns, NEW r \in Requests,
           CreateConversation(r) \/ LoadConversation(r)
    PROVE  Turns'
  <1>1. /\ pc[r] = "idle" /\ UNCHANGED <<total, question, answer>>
        /\ \A q \in Requests \ {r} : pc'[q] = pc[q] /\ seen'[q] = seen[q]
        /\ pc'[r] \in Before
    BY LabelsApart DEF CreateConversation, LoadConversation, Begin, Goto, TypeOK, database
  <1>2. ASSUME ~overlapped'
        PROVE  ~overlapped /\ \A q \in Requests \ {r} : pc[q] \notin Active
    BY <1>2, Zenon DEF CreateConversation, LoadConversation, Begin, Active
  <1>3. ASSUME ~overlapped
        PROVE  seen'[r] = total /\ (conv' # "stored" => total' = 0)
    <2>1. CASE LoadConversation(r)
      BY <2>1 DEF LoadConversation, TypeOK, database
    <2>2. CASE CreateConversation(r)
      <3>1. total = 0 /\ seen[r] = 0
        BY <1>1, <1>3, <2>2 DEF CreateConversation, Turns, Numbered
      <3> QED
        BY <2>2, <3>1 DEF CreateConversation
    <2> QED
      BY <2>1, <2>2
  <1>4. ASSUME ~overlapped'
        PROVE  \A q \in Requests : Numbered(q)'
    <2>1. ASSUME NEW q \in Requests
          PROVE  Numbered(q)'
      <3>1. Numbered(q)
        BY <1>2, <1>4 DEF Turns
      <3>2. CASE q # r
        BY <1>1, <3>1, <3>2 DEF Numbered
      <3>3. CASE q = r
        BY <1>1, <1>2, <1>3, <1>4, <3>1, <3>3, LabelsApart DEF Numbered
      <3> QED
        BY <3>2, <3>3
    <2> QED
      BY <2>1
  <1>5. ~overlapped' => Counted'
    BY <1>1, <1>2, CountedStays DEF Turns
  <1>6. ~overlapped' => \A p, q \in Requests : pc'[p] \in Active /\ pc'[q] \in Active => p = q
    BY <1>1, <1>2
  <1> QED
    BY <1>2, <1>3, <1>4, <1>5, <1>6 DEF Turns

LEMMA CommitKeeps ==
    ASSUME TypeOK, Turns, NEW r \in Requests, Commit(r)
    PROVE  Turns'
  <1>1. /\ pc[r] = "flushed" /\ pc' = [pc EXCEPT ![r] = "committed"] /\ conv' = "stored"
        /\ total' = seen[r] + 1 /\ question' = [question EXCEPT ![r] = seen[r] + 1]
        /\ UNCHANGED <<answer, seen, overlapped>>
        /\ total \in Nat /\ pc \in [Requests -> Pc] /\ question \in [Requests -> Nat]
        /\ seen[r] \in Nat
    BY DEF Commit, Goto, TypeOK, QuestionNumber
  <1> SUFFICES ASSUME ~overlapped
               PROVE  Turns'
    BY <1>1 DEF Turns
  <1>2. /\ seen[r] = total /\ question[r] = 0 /\ answer[r] = 0
        /\ \A q \in Requests \ {r} : pc[q] \notin Active
    BY <1>1, LabelsApart DEF Turns, Numbered
  <1>3. ASSUME NEW q \in Requests
        PROVE  Numbered(q)'
    <2>1. CASE q # r
      <3>1. pc'[q] = pc[q] /\ question'[q] = question[q] /\ Numbered(q)
        BY <1>1, <2>1 DEF Turns
      <3> QED
        BY <1>1, <1>2, <2>1, <3>1, LabelsApart DEF Numbered
    <2>2. CASE q = r
      BY <1>1, <1>2, <2>2, LabelsApart DEF Numbered
    <2> QED
      BY <2>1, <2>2
  <1>4. \A p, q \in Requests : pc'[p] \in Active /\ pc'[q] \in Active => p = q
    BY <1>1, <1>2
  <1>5. /\ Stored' = Stored \cup {r} /\ r \notin Stored /\ Answered' = Answered
        /\ \A q \in Stored : question'[q] = question[q]
        /\ question'[r] = total + 1
    BY <1>1, <1>2 DEF Stored, Answered
  <1>6. Numbers' = Numbers \cup {total + 1}
    BY <1>1, <1>5 DEF Numbers
  <1>7. Counted'
    <2>1. Counted
      BY DEF Turns
    <2>2. total' = total + 1
      BY <1>1, <1>2
    <2>3. Numbers' = 1 .. total'
      BY <1>1, <1>6, <2>1, <2>2, NextOf DEF Counted
    <2>4. /\ IsFiniteSet(Stored') /\ Cardinality(Stored) \in Nat
          /\ Cardinality(Stored') = Cardinality(Stored) + 1
      BY <1>5, <2>1, OneMore DEF Counted
    <2>5. /\ IsFiniteSet(Answered') /\ Cardinality(Answered) \in Nat
          /\ Cardinality(Answered') = Cardinality(Answered)
      BY <1>5, <2>1, FS_CardinalityType DEF Counted
    <2>6. Cardinality(Stored') + Cardinality(Answered') = total'
      BY <2>1, <2>2, <2>4, <2>5 DEF Counted
    <2> QED
      BY <2>3, <2>4, <2>5, <2>6 DEF Counted
  <1> QED
    BY <1>1, <1>3, <1>4, <1>7 DEF Turns

LEMMA SaveAnswerKeeps ==
    ASSUME TypeOK, Turns, NEW r \in Requests, SaveAnswer(r)
    PROVE  Turns'
  <1>1. /\ pc[r] = "streaming" /\ pc' = [pc EXCEPT ![r] = "done"] /\ conv' = conv
        /\ total' = seen[r] + 1 + 1 /\ answer' = [answer EXCEPT ![r] = seen[r] + 1 + 1]
        /\ UNCHANGED <<question, seen, overlapped>>
        /\ total \in Nat /\ pc \in [Requests -> Pc] /\ answer \in [Requests -> Nat]
        /\ seen[r] \in Nat
    BY DEF SaveAnswer, Goto, TypeOK, QuestionNumber, AnswerNumber
  <1> SUFFICES ASSUME ~overlapped
               PROVE  Turns'
    BY <1>1 DEF Turns
  <1>2. /\ seen[r] + 1 = total /\ question[r] = total /\ answer[r] = 0
        /\ \A q \in Requests \ {r} : pc[q] \notin Active
    BY <1>1, LabelsApart DEF Turns, Numbered
  <1>3. /\ \A q \in Requests : pc'[q] \notin Active
        /\ pc'[r] # "idle" /\ total' = total + 1
    BY <1>1, <1>2, LabelsApart DEF Ended
  <1>4. ASSUME NEW q \in Requests
        PROVE  Numbered(q)'
    <2>1. CASE q # r
      <3>1. pc'[q] = pc[q] /\ answer'[q] = answer[q] /\ Numbered(q)
        BY <1>1, <2>1 DEF Turns
      <3> QED
        BY <1>1, <1>3, <2>1, <3>1, LabelsApart DEF Numbered
    <2>2. CASE q = r
      BY <1>3, <2>2, LabelsApart DEF Numbered
    <2> QED
      BY <2>1, <2>2
  <1>5. /\ Answered' = Answered \cup {r} /\ r \notin Answered /\ Stored' = Stored
        /\ \A q \in Answered : answer'[q] = answer[q]
        /\ answer'[r] = total + 1
    BY <1>1, <1>2 DEF Stored, Answered
  <1>6. Numbers' = Numbers \cup {total + 1}
    BY <1>1, <1>5 DEF Numbers
  <1>7. Counted'
    <2>1. Counted
      BY DEF Turns
    <2>2. total' = total + 1
      BY <1>3
    <2>3. Numbers' = 1 .. total'
      BY <1>1, <1>6, <2>1, <2>2, NextOf DEF Counted
    <2>4. /\ IsFiniteSet(Answered') /\ Cardinality(Answered) \in Nat
          /\ Cardinality(Answered') = Cardinality(Answered) + 1
      BY <1>5, <2>1, OneMore DEF Counted
    <2>5. /\ IsFiniteSet(Stored') /\ Cardinality(Stored) \in Nat
          /\ Cardinality(Stored') = Cardinality(Stored)
      BY <1>5, <2>1, FS_CardinalityType DEF Counted
    <2>6. Cardinality(Stored') + Cardinality(Answered') = total'
      BY <2>1, <2>2, <2>4, <2>5 DEF Counted
    <2> QED
      BY <2>3, <2>4, <2>5, <2>6 DEF Counted
  <1>8. conv' = "stored"
    BY <1>1, <1>2 DEF Turns
  <1> QED
    BY <1>1, <1>3, <1>4, <1>7, <1>8 DEF Turns

LEMMA TurnsStep ==
    ASSUME TypeOK, Turns, [Next]_vars
    PROVE  Turns'
  <1>1. CASE UNCHANGED vars
    BY <1>1, CountedStays DEF vars, database, mapper, Turns, Numbered
  <1>2. ASSUME NEW r \in Requests, CreateConversation(r) \/ LoadConversation(r)
        PROVE  Turns'
    BY <1>2, BeginKeeps
  <1>3. ASSUME NEW r \in Requests, LoadSession(r) \/ LoadEntities(r) \/ PolicyAllows(r) \/ Flush(r)
        PROVE  Turns'
    <2>1. Quiet(r)
      BY <1>3, LabelsApart DEF LoadSession, LoadEntities, PolicyAllows, Flush, Goto, Quiet,
                               TypeOK, database
    <2> QED
      BY <2>1, QuietKeeps
  <1>4. ASSUME NEW r \in Requests, NEW k \in Keys, MapEntity(r, k)
        PROVE  Turns'
    <2>1. Quiet(r)
      BY <1>4, LabelsApart DEF MapEntity, Quiet, database
    <2> QED
      BY <2>1, QuietKeeps
  <1>5. ASSUME NEW r \in Requests, PolicyBlocks(r) \/ StreamFails(r) \/ Abort(r)
        PROVE  Turns'
    <2>1. pc'[r] \in Ended /\ \A q \in Requests \ {r} : pc'[q] = pc[q]
      BY <1>5 DEF PolicyBlocks, StreamFails, Abort, Goto, TypeOK, Ended
    <2>2. UNCHANGED <<total, question, answer, seen, overlapped>>
      BY <1>5 DEF PolicyBlocks, StreamFails, Abort, database
    <2>3. conv = "stored" => conv' = "stored"
      BY <1>5 DEF PolicyBlocks, StreamFails, Abort, Rollback, database
    <2> QED
      BY <2>1, <2>2, <2>3, QuietKeeps DEF Quiet
  <1>6. ASSUME NEW r \in Requests, BuildHistory(r) \/ GetProvider(r)
        PROVE  Turns'
    <2>1. Quiet(r)
      BY <1>6, LabelsApart DEF BuildHistory, GetProvider, Goto, Quiet, TypeOK, database,
                               After, Streaming, Ended
    <2> QED
      BY <2>1, QuietKeeps
  <1> QED
    BY <1>1, <1>2, <1>3, <1>4, <1>5, <1>6, CommitKeeps, SaveAnswerKeeps DEF Next, Step

\* As long as no request began before the last one had ended, the messages are
\* numbered 1 .. total_messages without gap or duplicate.
THEOREM NumberedInOrder == Spec => []MessagesNumberedInOrder
  <1>1. ASSUME Init
        PROVE  Turns
    <2>1. /\ Stored = {} /\ Answered = {} /\ total = 0
          /\ \A r \in Requests : pc[r] = "idle" /\ seen[r] = 0 /\ question[r] = 0 /\ answer[r] = 0
      BY <1>1 DEF Init, Stored, Answered
    <2>2. Numbers = 1 .. total
      BY <2>1 DEF Numbers
    <2>3. Counted
      BY <2>1, <2>2, FS_EmptySet DEF Counted
    <2> QED
      BY <2>1, <2>3, LabelsApart DEF Turns, Numbered
  <1>2. Turns => MessagesNumberedInOrder
    BY DEF Turns, Counted, Numbers, Answered, MessagesNumberedInOrder
  <1> QED
    BY <1>1, <1>2, TurnsStep, TypeCorrect, PTL DEF Spec
=============================================================================
