# VeilChat in TLA+

VeilChat is a proxy between users and language models. It replaces the sensitive
values of a message by placeholders (`EMAIL_001`), sends the sanitized message to
a provider, puts the originals back into the answer while it streams, and keeps
conversations, accounts, webhooks, limits and licences of several organizations.
The backend is one asyncio process (FastAPI, SQLAlchemy), or several beside one
another; the web client is React.

This directory models the parts of it that have something to get wrong: what
requests of one conversation do to one another, what happens to events, how text
travels through sanitizing and streaming, who may change whose account, how many
requests get through, what an organization stores about itself, what calls to a
provider hold while they wait. TLC checks the models on small instances, TLAPS
proves the main theorems of each of them for every instance. Paths below are relative to
`src/`.

## 1. The system

| part | state | operations | talks to |
|---|---|---|---|
| chat pipeline `backend/api/chat.py` | rows of a conversation, its messages, mapping session and entities; a mapper per request | chat, chat with document, saving the answer | mapper, sanitizer, policies, providers, bus, usage, audit |
| placeholder mapper `backend/core/mapper.py` | value to placeholder and back, a counter per type | get or create, look up, to and from the database | chat, gateway, sanitize API |
| sanitizer, normalizer, rehydrator `backend/core/` | the buffer of a stream | sanitize, rehydrate, rehydrate a stream | detectors, mapper |
| detectors `backend/detectors/` | none | detect, resolve overlaps | sanitizer, custom rules |
| policy engine `backend/core/policy_engine.py` | none | evaluate | chat, gateway |
| providers `backend/providers/` | an HTTP stream | chat_stream | chat, gateway |
| gateway `backend/api/gateway.py`, `api_keys.py` | keys, the time of their use; connections and locks of the calls in flight | completions, streaming and blocking, revoke | as chat |
| event bus `backend/core/events.py` | queue, registrations, one worker | start, stop, emit, deliver with retries | every API, webhooks |
| webhooks `backend/api/webhooks.py` | table of webhooks | create, update, delete, test, load at start | bus |
| accounts `backend/api/auth.py`, `admin.py` | users of organizations | register, Google sign-in, profile, invite, update | database |
| sign-in `backend/api/auth.py` | lockouts, reset tokens, OAuth states, in the process | login, forgot and reset password | database, bus, audit |
| rate limiter `backend/middleware/rate_limit.py` | times in memory, counters in Redis | check | state store |
| organization `backend/api/settings.py`, `licensing.py`, `rules.py`, `policies.py` | settings column, tier, rules, policies | create, update, delete, activate, deactivate | tier cache, chat |
| usage and audit `backend/core/usage.py`, `audit.py` | daily rows, audit rows | record | every API |
| conversations, documents, sanitize API | none of their own | list, rename, archive, export, scan | mapper, sanitizer |
| web client `frontend/src` | the message list of a page | send, stop | chat |

What is hard in it:

* **Interleaving.** Every handler is a coroutine; another runs at each `await`.
  Nothing serializes the requests of one conversation or organization, and most
  checks (numbers, limits, unique emails) read before an await and write after
  it. The database's write lock is taken at the first flush, in mid-handler, and
  a connection of the pool is held as long as the session.
* **Failure.** A provider's stream raises, ends early or is cancelled after the
  question is stored; `get_db` rolls back, but not what was told the bus, and
  not what another session wrote. A restart drops queue and registrations.
* **Ordering.** Events pass a queue with retries; message numbers are computed
  long before they are stored; placeholders are cut by chunks.
* **Time.** Windows and lives of counters, retries after 10 s timeouts.

What makes each part correct is stated as its module's properties (section 4).
`PROJECT.json` lists the hazards, each at its line, with the properties that would
catch it going wrong. A hazard the code does nothing about has none, and a note says
which property excludes it: counts and lookups before an insert, a queue lost at a stop, a
settings text written whole, and the like.

## 2. Modules

| module | models | shape |
|---|---|---|
| `PlaceholderTable` | what a conversation promises of its placeholders | abstract specification, one action |
| `ChatPipeline` | the requests to one conversation | one action per stretch of a handler between two awaits; INSTANCEs `PlaceholderTable` |
| `EventBus` | queue, worker, registrations, retries of one process | one action per step of the worker and per call |
| `Webhooks` | the table and its handlers, restarts | EXTENDS `EventBus` and uses its actions |
| `Redaction` | one message: findings, placeholders, stream | pure operators for the algorithms, actions for the stream |
| `Accounts` | the users of all organizations | one action per read or commit |
| `Gateway` | calls to a provider: pool, write locks, keys, the daily usage row | one action per query or commit; connections and locks are functions of the state |
| `Organization` | tier, settings, licences, rules, the tier the rate limiter keeps | one action per read or commit |
| `SignIn` | lockouts, reset tokens, OAuth states of each worker | one action per read or write of a dictionary |
| `RateLimit` | buckets in memory and in Redis | one action per check, restart and tick |
| `MC...` | the instances for TLC | |
| `...Proofs` | theorems; those about `EventBus` are in `WebhooksProofs` | |

### ChatPipeline

`conv`, `total`, `counter`, `rows`, `question`, `answer`, `audit` are the committed
rows; `writer` is who holds the write lock; the rest is the local state of each
request. `LoadConversation`, `LoadSession`, `LoadEntities` are the three reads of
`_get_or_create_conversation` (chat.py:82-162); `MapEntity` is
`get_or_create_placeholder` for one detected entity; `PolicyBlocks` and
`PolicyAllows` are the decision, which the plain and the document path follow by
different commits; `Flush` is the autoflush of the first query after the changes
(chat.py:313), `Commit` the commit with everything between; `BuildHistory` reads
the messages that go to the provider; `SaveAnswer` is the second transaction of the
generator. `Abort` is whatever ends a coroutine before its end. A crash of the server
is the failure of all requests in flight.

`Client` says who sends. With `"oneSend"` a message follows when the handler of the last
one has ended or reached its stream. The web client keeps to that as long as the user
waits for the answer or stops it once it streams (`useChat.ts:111-133`), but
`stopStreaming` (138-144) lets the user send again at once, even while the server's
handler is still on its way to the stream: `"oneSend"` is stricter by that. `"any"` has
it, and two tabs or a program. The server enforces neither, and what is shown under
`"oneSend"` is shown of sends that do not overlap, whoever sends them.

The raw system prompt of a request is sent unsanitized (chat.py:370-374); it is
data without a placeholder and left out. The branch for a conversation without a
mapping session (chat.py:130-138) is unreachable, since both are inserted in one
transaction.

### EventBus and Webhooks

`queue`, `webhooks` are `_queue`, `_webhooks`; `current`, `position`, `attempt` say
where the worker is; `emitted`, `handled`, `posts` are history. `Take` is the worker's
`get` and the first post it leads to, `Retry` and `NextWebhook` are the ends of a post.
`DeliverFrom` is the `for` loop over a list that `Register` may lengthen while the
worker waits, as a Python list iterator sees it. The list of in-process handlers is
never filled and is left out; `emit` posts inline only when the worker was never
started, which `lifespan` does first.

`Webhooks` adds the table. A webhook joins the bus between its flush and its
commit (webhooks.py:135), so `Insert`, `CommitCreate` and `FailCreate` are apart;
update and delete touch the row only and are one step each, that of their commit.
`Startup` loads the active rows and stops at the first event type it does not know.
A registration keeps no organization, so the model has one organization.

### Redaction

A text is a sequence of symbols; a symbol is a character or a part of a word that
the rehydrator's pattern treats alike however it is split. The detectors find any
set of overlapping spans, empty ones included: an organization's expression may match
the empty text. `Resolve` is the two-stage resolution of overlaps,
`Assign`, `Replace` the mapper and the sanitizer, `Rehydrate` and `Held` the
rehydrator's two functions, `Chunk`, `FinishChunk`, `ImageChunk`, `CloseEarly`,
`Fail` the stream.

A detection's value is a field of its own. Expressions, word lists and patterns have
the text that they cover for it (`Matched`); the recognizer of names, where it finds
several lines at once, gives each line without its indent as the value and counts its
length from before the indent (`Indented`, presidio_detector.py:228-270), so that part of
an indented name is not covered. The mapper numbers values, the sanitizer replaces what
is covered.

`Normal` is `normalize_entity`: margins off, lower case and characters left out as the
type's normalizer has it (`Spelling`, `LeftOut`), and for a person the bag of the words
without particles and titles (`Particles`), which stands for the sorted list. Left out
are the country code of American numbers (normalizer.py:46-50), the trailing slash of
addresses (69), and titles that end at something other than a space.

`Held` keeps back a word that chunks to come may make a placeholder, also if a newline
follows it at the very end, as `$` of the pattern (rehydrator.py:50) has it: `SQL\n` is kept
back, and shown when another chunk comes.

`provider` says which chunks there are: Anthropic's and OpenAI's responses have a finish
reason alone and images, the OpenAI-compatible ones a finish reason with text or without
and no images. What would follow the finish reason is not modelled. The gateway does not
clear its buffer there (gateway.py:300-306, the chat does), so text that still came would
show the rest of the buffer again; and an OpenAI-compatible provider reads on until
`[DONE]`.

A sort is the set of pairs it puts in order, and what is kept is the one set that keeps
a finding unless a kept one before it overlaps it. A text is rehydrated by position: a
placeholder's original stands where the placeholder begins. Said so, the algorithms
can be reasoned about. `Digit` names the digits; they are different from one another
and from the other parts of words, and the characters between words and `[REDACTED]`
are no part of a word (`RedactionAssumption`), as in the pattern.

Two properties say of which messages they hold, and the attempt to prove them showed
that they have to. `RoundTrip` asks that nothing in the message has the form of a
placeholder, within a word either: in `annHOST_001`, cut by a chunk before `HOST`, the
rehydrator sees a placeholder that is none. It asks too that no two entities touch, since
their placeholders make one word. `NoPlaceholderShown` asks that no original looks
like a placeholder or ends as one begins (`Inert`): an original `HOST` in an answer
that goes on with `_001` reads as one, and TLC finds that as well.

### Accounts

`rows` is the users table, in the order of insertion; an organization goes by its
first user. Each request reads who it acts for, reads what it decides on, and
commits: `CheckRegister` and `CommitRegister`, and so on. What a request read it keeps
(`mine`, `was`), as the session's identity map does, and its commit writes the
attributes it changed (`Written`). `Fail` stands for each rejection as well.

### RateLimit

The code compares timestamps; the model keeps ages, so that no bound on time is
needed: `times` is `_requests`, `counters` what Redis holds with what is left of each
life. A list of times is kept as how many of them are at most so old, which is all the
code asks of it, and so are the grants of a bucket (`served`), which are history. A check
makes no await and is one step. `CheckRedisLost` is a call that fails
before INCR or between INCR and EXPIRE, followed by the check in memory. INCR and
EXPIRE are taken to fall in one tick of the clock.

### Gateway

A call is a chat, a streaming or blocking call of the gateway, or the revocation of a
key. `Connected` and `HoldsKey`, `Writing` say who has a connection, the row of a key and
the write lock, by where a call is: the session of a blocking call is open from its
first query to its end, the gateway closes that of a streaming one before it asks
(gateway.py:246), the chat commits before it does. `last_used_at` is written with
the key's lookup and flushed by the query for its owner (auth.py:182-195), so a blocking
call with a key keeps the row, and on SQLite the database, until the provider has
answered. `Count` is the select of `record_usage`, `Record` the commit that inserts a row
or sets the count to what was read plus one, as the ORM does (usage.py:61-105); when
two rows exist the select raises, which is caught (`PassUnrecorded`). The chat flushes
its answer before it counts, and so counts under the lock. `usage` is one row's key:
one user, provider, model and day.

### Organization

The settings are one JSON text, read in one await and written whole in a later one, by
`update_settings` and by both licence handlers; the ORM writes an attribute if it is not
what was read (`Written`). `stale` records that a commit replaced what it had not read.
`RequireFeature` and `CountRules` use the tier of the session's first read.
`FetchTier`, `KeepTier`, `DropTier` are `_get_org_tier` of the rate limiter, `Tick` the age
of what it keeps in the state store, a local variable per worker without Redis.

### SignIn

`attempts`, `issued` are `_login_attempts`, `_reset_tokens`, `_oauth_states` of each worker;
times are ages, and `failures` counts those at most so old. `CheckLockout` precedes the
query for the user, `RejectLogin` and `AcceptLogin` follow it. `FindToken` and `TakeToken` are the two ends of `reset_password`,
with the query for the user between; `TakeState` has no await before it removes the
state. Passwords are not state: whether one is right is a choice. Emails do not
share entries, so there is one.

## 3. Runs

| run | instance | checks |
|---|---|---|
| `chat_any` | 3 requests, one with a document, overlapping at will; 3 values of 2 types, one type blocked | stored entities, blocking, the lock, answers, permanence of rows |
| `chat_sends` | the same, sends do not overlap, with fairness | the conversation implements `PlaceholderTable`; consistent, rehydrated, numbered; every request ends |
| `chat_overlap` | sends overlap | violated: one value, two placeholders |
| `bus_delivery` | 2 events, 2 registrations, stop and restart | order, accounting, retries, full service, liveness |
| `hooks_bus` | 2 webhooks, limit 1, 3 registrations | table and bus agree, limit, the handlers use the bus as it allows |
| `hooks_disabled` | the same | violated: a disabled webhook is served |
| `redaction` | "ann Ann ann" with up to 3 of 11 findings, a name and on the next line the same name indented and the other way round, a message with a placeholder inside a word, one with two findings side by side, or free answers of up to 5 symbols, newlines among them, in chunks of up to 3, 1 image, of 3 providers (704842 states) | overlaps, replacement, streaming, round trip, nothing that looks like a placeholder is shown |
| `accounts` | 3 accounts when requests do not overlap, 2 when they do, 3 emails, limit 2 | uniqueness, administrators, limit, authorization |
| `rate_limit` | 1 worker, 2 buckets, limits 1 to 3, window 3, sweep every 2 | windows in memory and in Redis, refusals end |
| `organization` | 2 requests, 3 tiers, 2 licences, limits 1 and 2, 1 worker | tier and licence, rules, the tier reaches the limiter |
| `gateway` | 3 calls of 6 kinds, 2 keys, a pool of 2, with and without SQLite | usage, every call ends |
| `sign_in` | 3 requests, lockout after 3 failures for 3 ticks, a token, a state | failures, lockouts, tokens |

The type invariants are proved and in no run but that of `Redaction`;
`tlc -config RateLimitTypes.cfg MCRateLimit` checks that of `RateLimit` on the run's
instance.

Why these bounds are enough to meet the cases. Three requests are the least in which
a third sees what two overlapping ones have left, and two values of one type the
least whose numbers can collide. The bus has an event in delivery and one behind it,
and a list that grows during the delivery; the third registration of `hooks_bus`
outlives a restart. Three findings make a chain in which the middle one is dropped
for a neighbour that is itself dropped. Base 2 and width 2 stand for base 10 and
width 3, so the fourth number of a type is the first that needs a digit more. Two
accounts are two administrators who act on each other, three a limit passed. The
rate limiter's instance has a window in which two lives of a counter meet, a bucket
shared by two paths and two tiers, and a second bucket for the sweep to judge; a
second worker meets the first only in counters that do not know who increments
them, and is there in `RateLimitExpiry.cfg`. Three calls fill a pool of two and leave
one outside that waits for what they hold. Two requests replace each other's
settings; a licence for one rule ends between the count and the insert of the second,
and two inserts pass the limit of two. Three requests at once let two be behind the
failure that locks, and a lockout of three ticks lets two windows meet in it.

Deadlock is not checked where the system rests: a conversation with all its
requests done, a stream at its end, calls that have ended, accounts at their bound,
an organization that nobody asks anything. `hooks_bus`, `bus_delivery` and
`sign_in` check it.

### Fairness

`FairSpec` of `ChatPipeline` is weakly fair to what the event loop runs by itself: a
coroutine past an await is resumed, a statement ends, and a provider's stream ends or
raises because its HTTP client has a timeout (120 s in `backend/providers`). No
request is made to arrive, no entity to be detected, no failure to happen. `BusFairSpec`
is weakly fair to the worker: it is a task of the loop and each post has a timeout
of 10 s. Nothing is assumed of `Stop`, `Emit` or the outcomes. `FairSpec` of `Gateway`
is weakly fair to each call that was let in, of the actions it takes by itself; it
need not fail, so no call ends only because waiting for a connection times out. Weak
fairness is enough although calls wait for one another: what they wait for is held by
calls that wait for nothing of theirs, and there are finitely many. `FairSpec` of
`Organization` lets time pass, and a worker that has read a tier keep it or fail.

`EveryRequestEnds` is checked for the client that does not overlap its sends: the
instance with three requests at will is too large for a temporal property.

## 4. What the checks show

**A conversation** (`ChatPipeline`). However requests overlap and fail, a stored
message's entities are kept (`StoredEntitiesKept`), rows are never rewritten
(`RowsPermanent`), blocked messages reach neither provider nor table
(`BlockedNeverSent`), the write lock is never stranded (`OpenTransactionIsOwned`), an
answer follows its own question (`AnswerFollowsQuestion`) and each request ends
(`EveryRequestEnds`). Turns that do not overlap are numbered without gap
(`MessagesNumberedInOrder`). If sends do not overlap, the conversation implements
`PlaceholderTable` (`PromisedTable`): one value one placeholder, one placeholder one
value, counters equal to the numbers in use, and each placeholder in a history
rehydrates to what the user wrote. If they do, all four fail; the run `chat_overlap`
shows it for the first.

**Events.** Nothing is lost, doubled or overtaken while the process lives
(`Accounted`, `PostsInOrder`); only unavailable endpoints are retried and given up
after three attempts (`RetriesAsStated`); an event reaches exactly the registrations
that want it, those of the meantime included (`ServedInFull`); no endpoint holds the
queue for ever (`EventsHandled`). The table and the bus agree on each webhook nobody
has edited (`BusAgreesWithTable`), and the handlers refine the bus's own specification
(`UsesBus`).

**A message.** Priorities between detectors are respected, replacement leaves every
other symbol in place, any cutting of the answer into chunks shows what the whole
would. Of a message that the model repeats the user is shown the message with, in place of
what each entity covers, the first spelling of its value (`RoundTrip`): the message
itself, where values are what their entities cover and are spelled as at first. Where an
entity of an indented line covers part of a name only, the rest was sent as it is and
stands behind the value: `John Doe`, and `Jane Doe` four spaces in on the next line, comes
back with `Jane Doe Doe`. Nothing in the form of a placeholder is shown, unless an original looks like one itself or ends as one
begins. All of it is proved, for any message and answer.

**Accounts.** Without overlap: emails and Google accounts stay unique, limits hold, and
no sequence of demotions and deactivations leaves an organization without an active
administrator. With it too, a change is made only by the account itself or by an owner
or admin of its organization, and only owners promote an account to owner or admin.

**Calls.** No row of usage counts a call twice; with SQLite's lock, and otherwise unless
two calls are recorded at once, the one row counts every call that was recorded
(`UsageExact`). A call that was let in ends (`EveryCallEnds`): none waits for a
connection or a lock held by one that waits for it. Two blocking calls with one key
never ask at once (`KeyCallsOneByOne`, proved).

**An organization.** The tier is the licence's until a commit replaces a row it had not
read; rules pass the limit by fewer than the requests at once; a change of tier comes to
reach the rate limiter although a worker may keep what it read before.

**Sign-in.** A worker judges a bounded number of failures in any time as long as a lockout
(twice the limit, less one, and the requests behind it), and locks out no email with
fewer failures than the limit; a state serves once, and a reset token once unless resets
had found it together.

**Limits.** In memory the window slides and the largest limit of a bucket holds in every
window; in Redis at most twice the limit passes, at the border of two lives. Refusals
end by themselves unless an EXPIRE was lost.

### Disagreements with the code's own words

Two runs are expected to fail; each finding in `PROJECT.json` quotes the line.

* `chat_overlap`: "Same entity always gets the same placeholder within a session"
  (mapper.py:7, README.md:87).
* `hooks_disabled`: disabling a webhook does not reach the bus before a restart.

Three more can be seen with a configuration kept here and no run of their own:

* `tlc -config RedactionDropped.cfg MCRedaction`: "every occurrence is replaced"
  (README.md:87). Overlaps are resolved within a detector and then across them
  (regex_detector.py:958), so a finding may lose to one that is itself dropped
  (`OccurrencesReplaced`).
* `tlc -config RateLimitExpiry.cfg MCRateLimit`: refusals say "Retry-After: 60"
  (rate_limit.py:177, 183), but when the EXPIRE after the first INCR is lost
  (rate_limit.py:121) the bucket is refused for good (`RetryAfterHonoured`).
* `tlc -config OrganizationSettings.cfg MCOrganization`: "Update only provided fields"
  (settings.py:178). The text is written whole, so an update undoes what another has
  committed since it read it, a licence's key included (`OnlyProvidedFieldsChange`).

Others, met while reading and not worth a run of their own:

* CHANGELOG.md:23 says "retry 3 times (1s/2s/4s)"; there are three attempts and so two
  pauses (events.py:193).
* `update_webhook` stores event types it does not validate (webhooks.py:173); at the next
  start the load ends at that row (webhooks.py:276). The test of a webhook says
  "delivered successfully" after a 4xx or three failures (webhooks.py:255).
* A rule may name a type in small letters or with other characters, and a type may pass
  999 numbers: such placeholders are not found again by the rehydrator's pattern, nor
  are those glued to word characters. Text of the form `HTTP_404` in an answer becomes
  `[REDACTED]`.
* Where a name is found over several lines, the entity of an indented one covers its
  indent and not the end of the name (presidio_detector.py:234-262): the end is sent in
  the clear, and the answer shows it twice. base.py:12 does not say that value and span
  agree.
* Where a chunk ends after the third digit of a placeholder with four, the stream takes
  the three for a placeholder and shows that number's value followed by the fourth
  digit (rehydrator.py:50).
* The gateway leaves its buffer as it is after the finish reason (gateway.py:300-306), the
  chat empties it (chat.py:446).
* A rule of the organization may match the empty text. Where it does so at the place another
  finding begins, the later of the two in the list is replaced last and at a position
  that has moved: `sorted(reverse=True)` (sanitizer.py:82) keeps the order of equal
  starts, and the second splice cuts into the placeholder of the first. The properties
  of replaced text are of messages without such matches (`NoneEmpty`).
* A stream that closes without a finish reason drops what was held back (chat.py:440); an
  image overtakes held text.
* rate_limit.py:1 says "sliding window" of both stores; in Redis it is fixed (113-127).
  The auth paths of a caller with a token count in the organization's API bucket under
  the limit of ten, whatever its tier.
* state_store.py:3 says it holds reset tokens, lockout and OAuth states; auth.py keeps them
  in dictionaries of the process.
* An admin may demote or deactivate the only owner and invite an owner
  (admin.py:390-503), while admin.py:415 says that only owners promote.
* Outside cloud mode a request without credentials acts for some account even if it is
  inactive (auth.py:142-147).
* A licence's `max_users` is stored in the organization (licensing.py:145) and shown, while
  invitations are held to the tier's (admin.py:466).
* The policy action "allow" (policy_engine.py:4) has no effect: `entities_to_redact` (41)
  is never used.
* The CSV export writes `original_content` as it is stored, the JSON export decrypts it
  (conversations.py:308-311).
* Closing the session of a streaming call (gateway.py:246) rolls back the time of its
  key's use, so a key only used for streaming is shown as used "Never"
  (Settings.tsx:590).
* usage.py:3 says it tracks every request; a blocking call whose provider failed is not
  recorded (gateway.py:371-379), and once two rows of a day exist the rest of the day's
  calls are not either.
* The audit row of a failed sign-in is rolled back with the request (auth.py:276), while
  CHANGELOG.md:33 speaks of comprehensive audit logging across auth.
* An activation committed over a concurrent deactivation, which had read another tier,
  may leave a licence in the settings and the free tier beside it; a licence that expires
  does not lower the tier.
* The free tier has a `max_custom_rules` of 5 and not the feature of custom rules.
* `sanitization_enabled` and `min_confidence` of the settings are stored and shown, and
  read by nothing that sanitizes.
* An archived conversation can still be chatted with.

## 5. Proofs

Eight modules hold theorems, each for every value of the constants that its named
assumption allows. `PROJECT.json` lists them with the properties they state.

`ChatPipelineProofs` proves for any sets of requests, keys and types, from
`ChatAssumption` alone, by the inductive invariant `Bookkeeping` (with `TypeOK`): where
a request is in its handler tells what it has written, what its mapper knows and what
it may hold. None of `StoredEntitiesKept`, `BlockedNeverSent`, `AnswerFollowsQuestion` is
inductive by itself: that the rows of a message are there after its commit follows from
what its mapper held before. `RowsPermanent` is proved of each step. Under the further
assumption `Client # "any"` it proves `MappingInvariant`: the one request that sends
works on the current table and extends it, and every other mapper is a part of it;
`SameEntitySamePlaceholder`, `Reversible`, `CountersMatchRows`, `HistoryRehydrates` and
the refinement `PromisedTable` follow, the last step by step: a commit is entries of
the table, everything else a stutter.

It proves `MessagesNumberedInOrder` by `Turns`: while turns do not overlap,
one request is active at most, and the total it has read is the total until it stores its
question under the next number; the stored questions and answers are as many as the
total.

`WebhooksProofs` first proves of the bus alone, from `BusAssumption`, for any numbers of
events, registrations and restarts: types, `WorkerState` with `Accounted`, then with
them `PostsSoFar` (hence `PostsInOrder` and `RetriesAsStated`) and `DeliverySoFar` (hence `ServedInFull`). The
strengthenings say where the worker stands: what is posted precedes the attempt in
flight, and the delivery under way has passed no webhook that wants its event.

It then proves that every step of `Webhooks` is a step of the bus or leaves it
alone (`UsesBus`), so that the theorems about the bus hold of the composition. It needs
`RowsKept`: a webhook has one row, so a start registers no more than `MaxRegistered`, which
is assumed to be at least the number of webhooks, as the code has no such bound at all.
`BusAgreesWithTable` needs besides (`Agrees`) that no webhook is registered whose insert is
still to come; `LimitKept` needs that the request whose count was below the limit is the
only one in progress (`Serial`), and that nothing is pending beside it.

`AccountsProofs` proves by `Knowing`, for requests that overlap at will, that the accounts a
request is about are of its own organization, which an account never leaves;
`ChangesAuthorized` follows of each step. For requests that do not overlap it proves
`Serial`: what the one request has read is still so (`Fresh`), from which the emails are
distinct, the limit kept, and an administrator stays. That there is one is no more
than the handlers' refusal to demote or deactivate oneself: whoever changes another
is an active owner or admin, still is one when it commits, and stays.

`GatewayProofs` proves by `Recording` that what a call has read is no more than the calls
recorded in the row, and by `Exactness` that while no race has happened every reader has
read the count as it is; that no race can happen under `CountsUnderLock` is that two calls
which have counted would both hold the lock.

`OrganizationProofs` proves `RulesBounded` by counting with every rule the requests that have
passed the limit (`Bounded`), and `TierOfLicense`, which is inductive: a commit of a row as
it was read sets tier and licence together, or neither.

`SignInProofs` proves `TokensTakenOnce` by `Taken`: a token is with one worker at most and
with none once it was used, and its uses and the requests that still have it are
together no more than it may let through. `FailuresBounded` and `LockedAfterFailures` follow
from `FailuresCounted`: the failures of a worker within the time of a lockout, with the requests
that are past the check and may still fail, are no more than the bound, and what the
entry holds agrees with that history (`Consistent`).

`RateLimitProofs` proves types and `LimitInv`, one part for each store. In memory
(`Listed`) the list of times is the history of grants within the window (`Recorded`), and
its length is at most a limit of the bucket. In Redis (`Shared`) the grants of a window
are those of the counter's life and those of the life before, each at most a limit, and what is
left of the life tells which of them the window still holds. `WorkerWindow`,
`RedisWindow` and `RefusalsEnd` are read off it; the last holds of counters whose EXPIRE
was not lost.

`RedactionProofs` assumes `RedactionAssumption` and nothing more: any text, any findings,
any cutting of any answer. The algorithms are folds over texts and findings, so it begins with
what the prover has no rule for. Induction up to a bound is taken from the library's theorems on
well-founded sets of naturals, for sets of numbers; a recursive function on `0..N` is shown
to exist and to satisfy its equation (`Recursion`); the lemmas about `FlattenSeq` and about
kept and sorted sets, by induction on their size, rest on these. Then

* `PriorityRespected`: `Kept` exists for a strict total order, so that what is dropped has a kept,
  overlapping finding before it, and `Sorted` exists and only puts in order;
* `ReplacedInPlace`: after the k last entities are replaced, the text is the rest of the
  message as it was and the parts behind it as they should be;
* `StreamedAsWhole`: a text divides where no placeholder can go across the cut, and is then
  rehydrated part by part. What `Held` keeps back leaves such a cut (`KeptBack`): a word
  that ends at the end or before the last newline, which is no part of a word
  (`HeldIs`). `StreamInv` says so of what is shown and what is in the buffer, and that the
  buffer is the beginning of a placeholder, perhaps with the newline (`TypeOK`);
* `RoundTrip`: numerals are injective, every placeholder of a restorable entity is found
  again as a word, and nothing else is. `Parted` is the message in parts, each a symbol
  that no entity covers or the text put in place of one (`PartsInPlace`: together they are
  `InPlace`); with placeholders in place it is what is sent, with first spellings what is
  shown, and `RestoredFrom` rehydrates one into the other from the end, symbol by symbol
  and without regard to normalization (`Restores`). Values and what is covered need not agree;
* `NoPlaceholderShown`: by `SealedInv`, what is shown has no placeholder and its end begins
  none, which each rehydrated part keeps when it is appended: its last symbol, or the
  last original put in, decides.

`Inv` joins these with the types and with what the request has fixed (`Sent`), which the
stream's part needs.

Only model-checked is liveness (`EveryRequestEnds`, `EventsHandled`, `EveryCallEnds`,
`TierReachesLimiter`), which is out of the prover's reach, as is ENABLED. Every invariant
and action property that a passing run checks is stated by a theorem. The properties of
the runs that are expected to fail are false.

## 6. Plan

Done: chat, bus, webhooks, redaction, accounts, rate limits, calls and usage,
organization, sign-in, each with its proofs.

Next, in this order:

1. `ChatPipeline`, with its proofs: rename and archive; the title that the first
   message sets while a rename commits.
2. `Redaction`: the shared mapper of a batch; country codes and trailing slashes of the
   normalizer; what a provider sends after the finish reason.
3. `Organization`: updates of rules and policies beside a conversation that reads them.

### Not modelled

The patterns of the detectors and the language model (data and a library), encryption
and licence signatures, text extraction, health checks, migrations, logging, the
filter of outgoing addresses, and the pages of the web client, which show what the API
returns. Conversations (`backend/api/conversations.py`) are read, renamed and archived by
statements that set one column no modelled step reads. The stateless endpoints
(`backend/api/sanitize.py`, `documents.py`) keep nothing between requests.
