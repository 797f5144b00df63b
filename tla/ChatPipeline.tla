---------------------------- MODULE ChatPipeline ----------------------------
(***************************************************************************)
(* One conversation of the chat API: POST /api/chat and                    *)
(* /api/chat/with-document (backend/api/chat.py), with the EntityMapper    *)
(* each request rebuilds from the database (backend/core/mapper.py).       *)
(*                                                                         *)
(* The handlers are coroutines: another request of the same conversation   *)
(* may run at every await, so each database read is a step of its own.     *)
(* Between the autoflush that updates the conversation row and the commit, *)
(* the request holds the write lock (the row lock of PostgreSQL, the       *)
(* database lock of SQLite): that section is bracketed by Flush and Commit.*)
(* A request is a coroutine that runs once; a crash of the server is the   *)
(* failure of every request in flight.                                     *)
(***************************************************************************)
EXTENDS Naturals, FiniteSets

CONSTANTS
    Requests,       \* chat requests to the conversation
    DocRequests,    \* those sent to /chat/with-document
    Keys,           \* (entity type, normalized value) pairs
    Types,          \* entity types
    TypeOf,         \* the type of each key
    BlockedTypes,   \* types whose first matching policy says "block"
    Client,         \* how requests overlap, see MayBegin
    None            \* no request

ASSUME ChatAssumption ==
    /\ DocRequests \subseteq Requests
    /\ TypeOf \in [Keys -> Types]
    /\ BlockedTypes \subseteq Types
    /\ Client \in {"oneSend", "any"}
    /\ None \notin Requests

VARIABLES
    \* committed database state of the conversation
    conv,       \* "none", "creating" (its insert not committed), "stored"
    total,      \* Conversation.total_messages
    counter,    \* MappingSession.entity_counter
    rows,       \* Entity rows: key |-> number of its placeholder, 0 for none
    question,   \* request |-> sequence number of its user message, 0 for none
    answer,     \* request |-> sequence number of its assistant message
    audit,      \* request |-> event types of its audit rows
    writer,     \* the request holding the write lock, or None
    \* local state of the requests
    pc,
    seen,       \* conv.total_messages as the request read it
    mcount,     \* its mapper's _counters
    fwd,        \* its mapper's _forward
    fresh,      \* keys its mapper assigned a placeholder to itself
    said,       \* keys detected in its message
    history,    \* the requests whose user messages it sends to the LLM
    overlapped  \* whether a request ever began before the last one had ended

database == <<conv, total, counter, rows, question, answer, audit>>
mapper == <<mcount, fwd, fresh>>
vars == <<database, writer, pc, seen, mapper, said, history, overlapped>>

Placeholder(k, n) == <<TypeOf[k], n>>

\* From the first read of the conversation to the read of its history.
Sending == {"session", "entities", "sanitizing", "approved", "flushed", "committed"}
Streaming == {"provider", "streaming"}
Ended == {"done", "blocked", "failed"}
Pc == {"idle"} \cup Sending \cup Streaming \cup Ended

TypeOK ==
    /\ conv \in {"none", "creating", "stored"}
    /\ total \in Nat
    /\ counter \in [Types -> Nat]
    /\ rows \in [Keys -> Nat]
    /\ question \in [Requests -> Nat]
    /\ answer \in [Requests -> Nat]
    /\ audit \in [Requests -> SUBSET {"policy.blocked", "message.sanitized", "llm.response"}]
    /\ writer \in Requests \cup {None}
    /\ pc \in [Requests -> Pc]
    /\ seen \in [Requests -> Nat]
    /\ mcount \in [Requests -> [Types -> Nat]]
    /\ fwd \in [Requests -> [Keys -> Nat]]
    /\ fresh \in [Requests -> SUBSET Keys]
    /\ said \in [Requests -> SUBSET Keys]
    /\ history \in [Requests -> SUBSET Requests]
    /\ overlapped \in BOOLEAN

NoNumbers(S) == [x \in S |-> 0]

Init ==
    /\ conv = "none"
    /\ total = 0
    /\ counter = NoNumbers(Types)
    /\ rows = NoNumbers(Keys)
    /\ question = [r \in Requests |-> 0]
    /\ answer = [r \in Requests |-> 0]
    /\ audit = [r \in Requests |-> {}]
    /\ writer = None
    /\ pc = [r \in Requests |-> "idle"]
    /\ seen = [r \in Requests |-> 0]
    /\ mcount = [r \in Requests |-> NoNumbers(Types)]
    /\ fwd = [r \in Requests |-> NoNumbers(Keys)]
    /\ fresh = [r \in Requests |-> {}]
    /\ said = [r \in Requests |-> {}]
    /\ history = [r \in Requests |-> {}]
    /\ overlapped = FALSE

Goto(r, label) == pc' = [pc EXCEPT ![r] = label]

\* The end of r's transaction, if it has one.
ReleaseLock(r) == writer' = IF writer = r THEN None ELSE writer

\* Variant: the handler's exception leaves its transaction open.
LeftOpen(r) == UNCHANGED <<conv, writer>>

\* get_db rolls back when the handler raised: the conversation whose insert r
\* had not committed is gone.
Rollback(r) ==
    /\ conv' = IF conv = "creating" /\ writer = r THEN "none" ELSE conv
    /\ ReleaseLock(r)

(***************************************************************************)
(* The client. The web client's hook sends a message when the answer to    *)
(* the last one has ended, or at once after stopStreaming. "oneSend" lets  *)
(* a message follow while the server still streams the last answer, but    *)
(* not while its handler has yet to reach the stream, which the hook also  *)
(* does if it is stopped that early. Requests of "any" overlap at will: so *)
(* does that one, and those of two tabs or an API client. The server       *)
(* enforces none of it.                                                    *)
(***************************************************************************)
MayBegin(r) ==
    Client = "oneSend" => \A q \in Requests \ {r} : pc[q] \notin Sending

Begin(r) ==
    /\ pc[r] = "idle"
    /\ MayBegin(r)
    /\ overlapped' = (overlapped \/ \E q \in Requests \ {r} : pc[q] \in Sending \cup Streaming)

(***************************************************************************)
(* _get_or_create_conversation.                                            *)
(***************************************************************************)

\* No conversation_id: insert the conversation and its mapping session, and
\* start with an empty mapper. Nothing is visible to others before the commit.
CreateConversation(r) ==
    /\ Begin(r)
    /\ conv = "none"
    /\ conv' = "creating"
    /\ writer' = r
    /\ Goto(r, "sanitizing")
    /\ UNCHANGED <<total, counter, rows, question, answer, audit, seen, mapper,
                   said, history>>

\* Three reads: the conversation, its mapping session, its entities.
LoadConversation(r) ==
    /\ Begin(r)
    /\ conv = "stored"
    /\ seen' = [seen EXCEPT ![r] = total]
    /\ Goto(r, "session")
    /\ UNCHANGED <<database, writer, mapper, said, history>>

LoadSession(r) ==
    /\ pc[r] = "session"
    /\ mcount' = [mcount EXCEPT ![r] = counter]
    /\ Goto(r, "entities")
    /\ UNCHANGED <<database, writer, seen, fwd, fresh, said, history, overlapped>>

\* Variant: the mapper starts without the stored entities.
LoadNoEntities(r) ==
    /\ pc[r] = "entities"
    /\ Goto(r, "sanitizing")
    /\ UNCHANGED <<database, writer, seen, mapper, said, history, overlapped>>

LoadEntities(r) ==
    /\ pc[r] = "entities"
    /\ fwd' = [fwd EXCEPT ![r] = rows]
    /\ Goto(r, "sanitizing")
    /\ UNCHANGED <<database, writer, seen, mcount, fresh, said, history, overlapped>>

(***************************************************************************)
(* Sanitizer.sanitize: each entity detected goes through                   *)
(* EntityMapper.get_or_create_placeholder.                                 *)
(***************************************************************************)
AssignPlaceholder(r, k) ==
    LET n == mcount[r][TypeOf[k]] + 1 IN
    /\ mcount' = [mcount EXCEPT ![r][TypeOf[k]] = n]
    /\ fwd' = [fwd EXCEPT ![r][k] = n]
    /\ fresh' = [fresh EXCEPT ![r] = @ \cup {k}]

MapEntity(r, k) ==
    /\ pc[r] = "sanitizing"
    /\ k \notin said[r]
    /\ said' = [said EXCEPT ![r] = @ \cup {k}]
    /\ \/ fwd[r][k] # 0 /\ UNCHANGED mapper
       \/ fwd[r][k] = 0 /\ AssignPlaceholder(r, k)
    /\ UNCHANGED <<database, writer, pc, seen, history, overlapped>>

\* What the mapper's _reverse may hold for placeholder p of request r: a key it
\* assigned p to itself, else the last row read that has p (in any row order).
Lookup(r, p) ==
    LET owners == {k \in Keys : fwd[r][k] # 0 /\ Placeholder(k, fwd[r][k]) = p}
    IN IF owners \cap fresh[r] # {} THEN owners \cap fresh[r] ELSE owners

(***************************************************************************)
(* evaluate_policies on the detected entities.                             *)
(***************************************************************************)
\* Variant: a message is blocked only when all its entities are.
BlockedByAll(r) == said[r] # {} /\ \A k \in said[r] : TypeOf[k] \in BlockedTypes

Blocked(r) == \E k \in said[r] : TypeOf[k] \in BlockedTypes

\* chat commits the audit row, and with it a conversation it has just
\* created; chat_with_document raises and get_db rolls everything back.
PolicyBlocks(r) ==
    /\ pc[r] = "sanitizing"
    /\ Blocked(r)
    /\ \/ /\ r \in DocRequests
          /\ Rollback(r)
          /\ UNCHANGED audit
       \/ /\ r \notin DocRequests
          /\ conv' = "stored"
          /\ audit' = [audit EXCEPT ![r] = @ \cup {"policy.blocked"}]
          /\ ReleaseLock(r)
    /\ Goto(r, "blocked")
    /\ UNCHANGED <<total, counter, rows, question, answer, seen, mapper, said,
                   history, overlapped>>

PolicyAllows(r) ==
    /\ pc[r] = "sanitizing"
    /\ ~Blocked(r)
    /\ Goto(r, "approved")
    /\ UNCHANGED <<database, writer, seen, mapper, said, history, overlapped>>

(***************************************************************************)
(* Saving the message. The first query after the changes autoflushes them  *)
(* and takes the write lock; the entity rows are read under the lock.      *)
(***************************************************************************)
Flush(r) ==
    /\ pc[r] = "approved"
    /\ writer \in {None, r}
    /\ writer' = r
    /\ Goto(r, "flushed")
    /\ UNCHANGED <<database, seen, mapper, said, history, overlapped>>

\* Variants of the save that the properties must tell from the code's: rows
\* rewritten, the loop left at the first known entity, counters not written.
RowsRewritten(r) == [k \in Keys |-> IF k \in said[r] THEN fwd[r][k] ELSE rows[k]]
RowsUntilKnown(r) ==
    IF \E k \in said[r] : rows[k] # 0 THEN rows ELSE RowsRewritten(r)
CounterUnsaved(r) == counter

\* Rows are added for the entities that have none.
RowsAfter(r) ==
    [k \in Keys |-> IF k \in said[r] /\ rows[k] = 0 THEN fwd[r][k] ELSE rows[k]]

\* The ORM writes the counters only when the mapper changed them, and then
\* overwrites what the row holds.
CounterAfter(r) == IF fresh[r] # {} THEN mcount[r] ELSE counter

QuestionNumber(r) == seen[r] + 1

Commit(r) ==
    /\ pc[r] = "flushed"
    /\ conv' = "stored"
    /\ total' = QuestionNumber(r)
    /\ question' = [question EXCEPT ![r] = QuestionNumber(r)]
    /\ audit' = [audit EXCEPT ![r] = @ \cup {"message.sanitized"}]
    /\ rows' = RowsAfter(r)
    /\ counter' = CounterAfter(r)
    /\ writer' = None
    /\ Goto(r, "committed")
    /\ UNCHANGED <<answer, seen, mapper, said, history, overlapped>>

(***************************************************************************)
(* The LLM call and the answer.                                            *)
(***************************************************************************)
BuildHistory(r) ==
    /\ pc[r] = "committed"
    /\ history' = [history EXCEPT ![r] = {q \in Requests : question[q] # 0}]
    /\ Goto(r, "provider")
    /\ UNCHANGED <<database, writer, seen, mapper, said, overlapped>>

\* _get_provider finds an API key, or rejects the request (status 400).
GetProvider(r) ==
    /\ pc[r] = "provider"
    /\ \/ Goto(r, "streaming")
       \/ Goto(r, "failed")
    /\ UNCHANGED <<database, writer, seen, mapper, said, history, overlapped>>

\* The provider's stream raised: an error event is sent, nothing is saved.
StreamFails(r) ==
    /\ pc[r] = "streaming"
    /\ Goto(r, "failed")
    /\ UNCHANGED <<database, writer, seen, mapper, said, history, overlapped>>

\* Variants: numbered like the question; numbered by the current total.
AnswerUnnumbered(r) == seen[r] + 1
AnswerAfterTotal(r) == total + 1

AnswerNumber(r) == QuestionNumber(r) + 1

\* The stream ended: the answer is saved by a transaction of its own, which
\* sets total_messages from the number the request computed at its start.
SaveAnswer(r) ==
    /\ pc[r] = "streaming"
    /\ writer = None
    /\ answer' = [answer EXCEPT ![r] = AnswerNumber(r)]
    /\ total' = AnswerNumber(r)
    /\ audit' = [audit EXCEPT ![r] = @ \cup {"llm.response"}]
    /\ Goto(r, "done")
    /\ UNCHANGED <<conv, counter, rows, question, writer, seen, mapper, said,
                   history, overlapped>>

\* A lost connection, a cancelled coroutine, a database error or a crash: what
\* was not committed is rolled back.
Abort(r) ==
    /\ pc[r] \in Sending \cup Streaming
    /\ Rollback(r)
    /\ Goto(r, "failed")
    /\ UNCHANGED <<total, counter, rows, question, answer, audit, seen, mapper,
                   said, history, overlapped>>

(***************************************************************************)
(* Specification                                                           *)
(***************************************************************************)
Step(r) ==
    \/ CreateConversation(r)
    \/ LoadConversation(r)
    \/ LoadSession(r)
    \/ LoadEntities(r)
    \/ \E k \in Keys : MapEntity(r, k)
    \/ PolicyBlocks(r)
    \/ PolicyAllows(r)
    \/ Flush(r)
    \/ Commit(r)
    \/ BuildHistory(r)
    \/ GetProvider(r)
    \/ StreamFails(r)
    \/ SaveAnswer(r)
    \/ Abort(r)

Next == \E r \in Requests : Step(r)

Spec == Init /\ [][Next]_vars

\* The event loop runs every coroutine that can run; the provider's stream
\* ends or raises, because its HTTP client has a timeout.
Progress(r) ==
    \/ LoadSession(r) \/ LoadEntities(r)
    \/ PolicyBlocks(r) \/ PolicyAllows(r)
    \/ Flush(r) \/ Commit(r)
    \/ BuildHistory(r) \/ GetProvider(r)
    \/ StreamFails(r) \/ SaveAnswer(r)

FairSpec == Spec /\ \A r \in Requests : WF_vars(Progress(r))

(***************************************************************************)
(* Properties that hold however the requests overlap                       *)
(***************************************************************************)

\* Every key a stored message mentions has its entity row, whichever request
\* wrote it: the original of each stored placeholder's value is kept.
StoredEntitiesKept ==
    \A r \in Requests : \A k \in said[r] : question[r] # 0 => rows[k] # 0

\* An entity row is written once. No request, however stale its mapper, moves a
\* value that has a placeholder to another one in the database.
RowsPermanent ==
    [][\A k \in Keys : rows[k] # 0 => rows'[k] = rows[k]]_vars

\* A message with a blocked entity never reaches the provider, neither as the
\* request's own message nor through the history of a later request, and it
\* leaves no entity row behind.
BlockedNeverSent ==
    /\ \A r \in Requests : \A q \in history[r] : ~Blocked(q)
    /\ \A k \in Keys : rows[k] # 0 => TypeOf[k] \notin BlockedTypes

\* A transaction still open belongs to a request that can still end it: no
\* failure or policy block strands the write lock or a half-made conversation.
OpenTransactionIsOwned ==
    /\ writer # None => pc[writer] \in {"sanitizing", "approved", "flushed"}
    /\ conv = "creating" => writer # None
    /\ conv = "none" => writer = None

\* An answer is stored only for a stored question and directly after it, and the
\* conversation that holds them exists.
AnswerFollowsQuestion ==
    \A r \in Requests :
        /\ question[r] # 0 => conv = "stored"
        /\ answer[r] # 0 => question[r] # 0 /\ answer[r] = question[r] + 1

Stored == {r \in Requests : question[r] # 0}

\* As long as no request began before the last one had ended, the messages are
\* numbered 1 .. total_messages without gap or duplicate, so ordering by
\* sequence_number is the order they were written in, whichever requests failed.
MessagesNumberedInOrder ==
    LET answered == {r \in Requests : answer[r] # 0}
        numbers == {question[r] : r \in Stored} \cup {answer[r] : r \in answered}
    IN  ~overlapped =>
            /\ numbers = 1 .. total
            /\ Cardinality(Stored) + Cardinality(answered) = total

\* Every request that was received ends: with its answer, a rejection or an error.
EveryRequestEnds ==
    \A r \in Requests : pc[r] # "idle" ~> pc[r] \in Ended

(***************************************************************************)
(* Properties of a conversation whose sends do not overlap                 *)
(***************************************************************************)

\* The table of entity rows, with the stored messages' use of it, is the
\* placeholder table the conversation promises.
Table == INSTANCE PlaceholderTable
            WITH table <- rows,
                 used <- UNION {{<<k, fwd[r][k]>> : k \in said[r]} : r \in Stored}

\* One value has one placeholder in every stored message.
SameEntitySamePlaceholder ==
    \A q, r \in Stored : \A k \in said[q] \cap said[r] : fwd[q][k] = fwd[r][k]

\* Two values never have one placeholder in the database: every stored
\* placeholder can be turned back into the value it stands for.
Reversible == Table!Invertible(rows)

\* Whatever placeholder of its history the model answers with, a request that
\* streams can only rehydrate it to the value the user wrote.
HistoryRehydrates ==
    \A r \in Requests : \A q \in history[r] : \A k \in said[q] :
        Lookup(r, Placeholder(k, fwd[q][k])) = {k}

\* The conversation implements the placeholder table it promises.
PromisedTable == Table!Spec

\* The persisted counters are the numbers in use: none is skipped or reused.
CountersMatchRows ==
    \A t \in Types : Table!NumberedUpTo(rows, t, counter[t])

(***************************************************************************)
(* Inductive invariants                                                    *)
(***************************************************************************)

Saved == {"committed", "provider", "streaming", "done"}

\* However requests overlap: where a request is in its handler tells what it
\* has written, what its mapper knows and what it may hold.
Booked(r) ==
    /\ pc[r] = "idle" => fwd[r] = NoNumbers(Keys) /\ mcount[r] = NoNumbers(Types)
    /\ pc[r] \in Sending \cup Streaming /\ conv # "stored" => writer = r
    /\ pc[r] = "flushed" => writer = r
    /\ pc[r] \in {"idle", "session", "entities"} => said[r] = {} /\ fresh[r] = {}
    /\ pc[r] \in {"approved", "flushed"} => ~Blocked(r)
    /\ pc[r] \in Saved => question[r] # 0
    /\ pc[r] = "done" \/ answer[r] = 0
    /\ question[r] # 0 =>
          /\ pc[r] \in Saved \cup {"failed"}
          /\ question[r] = seen[r] + 1
          /\ conv = "stored"
          /\ ~Blocked(r)
          /\ \A k \in said[r] : rows[k] # 0
    /\ answer[r] # 0 => question[r] # 0 /\ answer[r] = seen[r] + 2
    /\ \A k \in said[r] : fwd[r][k] # 0
    /\ history[r] \subseteq Stored
    /\ history[r] # {} => pc[r] \in Streaming \cup {"done", "failed"}

Bookkeeping ==
    /\ OpenTransactionIsOwned
    /\ conv # "stored" => rows = NoNumbers(Keys) /\ counter = NoNumbers(Types)
    /\ \A k \in Keys : rows[k] # 0 => TypeOf[k] \notin BlockedTypes
    /\ \A r \in Requests : Booked(r)

\* When sends do not overlap: the one request that sends works on the current
\* table and extends it; every other mapper is a part of the table.
Unchallenged(r) ==
    /\ \A q \in Requests \ {r} : pc[q] \notin Sending
    /\ pc[r] = "entities" => mcount[r] = counter
    /\ pc[r] \in {"sanitizing", "approved", "flushed"} =>
          /\ \A k \in Keys : rows[k] # 0 => fwd[r][k] = rows[k]
          /\ \A k \in Keys : fwd[r][k] # 0 /\ rows[k] = 0 => k \in fresh[r]
          /\ fresh[r] \subseteq said[r]
          /\ fresh[r] = {} => mcount[r] = counter
          /\ Table!Invertible(fwd[r])
          /\ \A t \in Types : Table!NumberedUpTo(fwd[r], t, mcount[r][t])
    /\ pc[r] = "committed" => fwd[r] = rows

MappingInvariant ==
    /\ Table!Invertible(rows)
    /\ CountersMatchRows
    /\ \A r \in Requests : pc[r] \in Sending => Unchallenged(r)
    /\ \A r \in Stored : \A k \in said[r] : fwd[r][k] = rows[k]
    /\ \A r \in Requests : history[r] # {} =>
          /\ Table!Invertible(fwd[r])
          /\ \A q \in history[r] : \A k \in said[q] : fwd[r][k] = fwd[q][k]
=============================================================================
