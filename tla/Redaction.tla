----------------------------- MODULE Redaction ------------------------------
(***************************************************************************)
(* One message on its way through the proxy: the detectors' findings are   *)
(* resolved (backend/detectors), each entity that is left is replaced by a *)
(* placeholder (sanitizer.py, mapper.py), the model's answer arrives in    *)
(* chunks and its placeholders are replaced by the originals while it is   *)
(* streamed to the user (rehydrator.py and the generators of chat.py and   *)
(* gateway.py).                                                            *)
(*                                                                         *)
(* A text is a sequence of symbols. A symbol is a character or a part of a *)
(* word that the rehydrator reads alike wherever a chunk splits it, as the *)
(* name of an entity type (EMAIL, IP_ADDRESS). The detectors' patterns are *)
(* left open: they may find anything anywhere.                             *)
(***************************************************************************)
EXTENDS Integers, FiniteSets, SequencesExt

CONSTANTS
    Names,          \* type names in capitals, as the built-in types have them
    Letters,        \* other parts of words, not all in capitals
    Gaps,           \* characters between words
    Spaces,         \* those that separate the words of a name
    Newline,        \* one of them
    Base, Width,    \* placeholders are numbered in base 10 with 3 digits
    Digit,          \* number below Base |-> its symbol
    Types,          \* entity types, a rule may name one in small letters
    Persons,        \* those of them that are normalized as names are
    Particles,      \* words left out of a name: particles and titles
    Spelling,       \* type |-> symbol |-> its normal spelling
    LeftOut,        \* type |-> symbols left out of what is normalized
    Earlier,        \* type |-> originals that earlier messages gave numbers
    Asks,           \* bound: messages with what the detectors find in them
    ReplySymbols,   \* bound: what a model's own answer consists of
    MaxReply,       \* bound: its length
    MaxChunk,       \* bound: the length of a chunk
    MaxImages       \* bound: images in an answer

Digits == Range(Digit)
Words == Names \cup Letters \cup Digits \cup {"_"}
Unknown == "[REDACTED]"
Image == "IMAGE"
Symbols == Words \cup Gaps \cup {Unknown}
Shown == Symbols \cup {Image}

Detectors == {"regex", "fqdn", "ner", "custom"}

Providers == {"anthropic", "openai_compatible", "openai_responses"}

\* A detection covers the symbols start + 1 to end of the text; a custom rule may
\* match the empty text. Its value is a field of its own.
Detection ==
    [detector : Detectors, type : Types, value : Seq(Symbols),
     start : Nat, end : Nat, confidence : Nat]

ASSUME RedactionAssumption ==
    /\ Types \subseteq Names \cup Letters
    /\ DOMAIN Digit = 0..(Base - 1)
    /\ \A d, e \in DOMAIN Digit : Digit[d] = Digit[e] => d = e
    /\ Digits \cap (Names \cup {"_"}) = {}
    /\ (Gaps \cup {Unknown}) \cap Words = {}
    /\ Image \notin Symbols
    /\ Newline \in Spaces /\ Spaces \subseteq Gaps
    /\ Persons \subseteq Types
    /\ Spelling \in [Types -> [Symbols -> Symbols]]
    /\ LeftOut \in [Types -> SUBSET Symbols]
    /\ {Base, Width} \subseteq Nat \ {0, 1}
    /\ Earlier \in [Types -> Seq(Seq(Symbols))]
    /\ \A ask \in Asks :
          /\ ask.text \in Seq(Symbols)
          /\ ask.found \in Seq(Detection)
          /\ \A i \in DOMAIN ask.found :
                ask.found[i].start <= ask.found[i].end /\ ask.found[i].end <= Len(ask.text)
    /\ ReplySymbols \subseteq Symbols
    /\ {MaxReply, MaxChunk, MaxImages} \subseteq Nat

VARIABLES
    pc,         \* "ready", "streaming", "finished", "ended" or "failed"
    text,       \* the message
    found,      \* what each detector finds, in the order they run
    entities,   \* what the registry leaves, by position
    mapper,     \* type |-> originals, in the order of their numbers
    sanitized,  \* what is sent to the model
    provider,   \* of the model
    echo,       \* whether the model repeats the message or answers freely
    full,       \* full_response: the chunks received
    buffer,     \* received and not yet shown
    shown,      \* sent to the user
    overtaken,  \* an image was shown before text received earlier
    images      \* images received

request == <<text, found, entities, mapper, sanitized, provider, echo>>
stream == <<full, buffer, shown, overtaken, images>>
vars == <<pc, request, stream>>

(***************************************************************************)
(* What the detectors find may overlap.                                    *)
(***************************************************************************)

Overlap(d, e) == d.start < e.end /\ d.end > e.start

Length(d) == d.end - d.start

Order == [regex |-> 1, fqdn |-> 2, ner |-> 3, custom |-> 4]

InOrder(f) == \A i, j \in DOMAIN f : i < j => Order[f[i].detector] <= Order[f[j].detector]

\* The value of what an expression, a word list or a pattern matches is the text
\* that is covered.
Matched(t, d) == d.value = SubSeq(t, d.start + 1, d.end)

\* Where the recognizer of names finds several lines at once, each is a detection of
\* its own that has the line without its indent for its value and covers as many
\* symbols from before the indent.
Indented(t, d) ==
    /\ d.detector = "ner"
    /\ Length(d) > 0
    /\ \E indent \in 1..(Len(t) - d.end) :
          /\ d.value = SubSeq(t, d.start + 1 + indent, d.end + indent)
          /\ \A i \in 1..indent : t[d.start + i] \in Spaces \ {Newline}
          /\ t[d.start + 1 + indent] \notin Spaces

Detected(t, d) == Matched(t, d) \/ Indented(t, d)

\* Variant: the named entities go before the patterns.
NamesFirst == [custom |-> 0, ner |-> 1, regex |-> 2, fqdn |-> 2]

Priority == [custom |-> 0, regex |-> 1, fqdn |-> 1, ner |-> 2]

\* The sort of RegexDetector, which is stable: the pairs of findings in order.
LongerFirst(f) ==
    {p \in (DOMAIN f) \X (DOMAIN f) :
        LET d == f[p[1]]  e == f[p[2]] IN
        \/ Length(d) > Length(e)
        \/ Length(d) = Length(e) /\ d.confidence > e.confidence
        \/ Length(d) = Length(e) /\ d.confidence = e.confidence /\ p[1] < p[2]}

\* The sort of DetectorRegistry.
PriorityFirst(f) ==
    {p \in (DOMAIN f) \X (DOMAIN f) :
        LET before == Priority[f[p[1]].detector]  after == Priority[f[p[2]].detector] IN
        before < after \/ (before = after /\ p \in LongerFirst(f))}

\* The sort of what is kept.
ByPosition(f) ==
    {p \in (DOMAIN f) \X (DOMAIN f) :
        \/ f[p[1]].start < f[p[2]].start
        \/ f[p[1]].start = f[p[2]].start /\ p \in PriorityFirst(f)}

\* Taken in order, a detection is kept unless one that is kept overlaps it.
Kept(f, S, before) ==
    CHOOSE K \in SUBSET S :
        \A i \in S : i \in K <=> ~\E k \in K : <<k, i>> \in before /\ Overlap(f[k], f[i])

Sorted(S, before) ==
    CHOOSE s \in [1..Cardinality(S) -> S] :
        /\ Range(s) = S
        /\ \A i, j \in DOMAIN s : i < j => <<s[i], s[j]>> \in before

\* The findings that the registry leaves: RegexDetector resolves its own, the
\* registry then all of them.
Resolved(f) ==
    LET regex == {i \in DOMAIN f : f[i].detector = "regex"}
        left == (DOMAIN f \ regex) \cup Kept(f, regex, LongerFirst(f))
    IN  Kept(f, left, PriorityFirst(f))

Resolve(f) ==
    LET order == Sorted(Resolved(f), ByPosition(f))
    IN  [k \in DOMAIN order |-> f[order[k]]]

(***************************************************************************)
(* Placeholders.                                                           *)
(***************************************************************************)
WithoutMargins(s) ==
    LET inside == {i \in DOMAIN s : s[i] \notin Spaces}
    IN  IF inside = {} THEN <<>> ELSE SubSeq(s, Min(inside), Max(inside))

\* The words of s, each with how often it occurs.
BagOfWords(s) ==
    LET words == {p \in (DOMAIN s) \X (DOMAIN s) :
                     /\ p[1] <= p[2]
                     /\ \A i \in p[1]..p[2] : s[i] \notin Spaces
                     /\ p[1] = 1 \/ s[p[1] - 1] \in Spaces
                     /\ p[2] = Len(s) \/ s[p[2] + 1] \in Spaces}
        At(p) == SubSeq(s, p[1], p[2])
    IN  [w \in {At(p) : p \in words} \ Particles |-> Cardinality({p \in words : At(p) = w})]

\* normalize_entity: lower case where the type's normalizer has it, without the
\* symbols it leaves out; the words of a name in any order.
Normal(type, value) ==
    LET kept == SelectSeq(WithoutMargins(value), LAMBDA x : x \notin LeftOut[type])
        spelled == [i \in DOMAIN kept |-> Spelling[type][kept[i]]]
    IN  IF type \in Persons THEN BagOfWords(spelled) ELSE spelled

HasNumber(m, type, value, n) ==
    n \in DOMAIN m[type] /\ Normal(type, m[type][n]) = Normal(type, value)

Numbered(m, type, value) == \E n \in DOMAIN m[type] : HasNumber(m, type, value, n)

\* get_or_create_placeholder.
WithNumber(m, type, value) ==
    IF Numbered(m, type, value) THEN m ELSE [m EXCEPT ![type] = Append(@, value)]

\* For each entity, from the first to the last.
Assign(m, ds) ==
    LET after[k \in 0..Len(ds)] ==
            IF k = 0 THEN m ELSE WithNumber(after[k - 1], ds[k].type, ds[k].value)
    IN  after[Len(ds)]

\* At least Width digits, more for a number that needs them.
Numeral(n) ==
    LET without[k \in 0..(Width + n)] ==
            IF k = 0 THEN n ELSE without[k - 1] \div Base
        w == CHOOSE k \in Width..(Width + n) :
                 without[k] = 0 /\ (k = Width \/ without[k - 1] # 0)
    IN  [i \in 1..w |-> Digit[without[w - i] % Base]]

Placeholder(type, n) == <<type, "_">> \o Numeral(n)

NumberOf(m, d) == CHOOSE n \in DOMAIN m[d.type] : HasNumber(m, d.type, d.value, n)

PlaceholderOf(m, d) == Placeholder(d.type, NumberOf(m, d))

\* What the placeholder stands for: the value as it was spelled first.
FirstSpelling(m, d) == m[d.type][NumberOf(m, d)]

Spliced(s, d, p) == SubSeq(s, 1, d.start) \o p \o SubSeq(s, d.end + 1, Len(s))

\* Variant: from the first entity to the last, while the positions move.
FromTheStart(ds) == {p \in (DOMAIN ds) \X (DOMAIN ds) : p[1] < p[2]}

\* From the last entity to the first, so that the positions stay valid.
FromTheEnd(ds) ==
    {p \in (DOMAIN ds) \X (DOMAIN ds) :
        \/ ds[p[1]].start > ds[p[2]].start
        \/ ds[p[1]].start = ds[p[2]].start /\ p[1] < p[2]}

Replace(m, t, ds) ==
    LET order == Sorted(DOMAIN ds, FromTheEnd(ds))
        after[k \in 0..Len(ds)] ==
            IF k = 0 THEN t
            ELSE Spliced(after[k - 1], ds[order[k]], PlaceholderOf(m, ds[order[k]]))
    IN  after[Len(ds)]

(***************************************************************************)
(* Rehydration. PLACEHOLDER_PATTERN matches whole words only, so a text is *)
(* rehydrated word by word.                                                *)
(***************************************************************************)
NamePart(w, k) == w[1] \in Names /\ \A i \in 1..k : w[i] \in Names \cup {"_"}

\* A name, "_" and three digits.
IsPlaceholder(w) ==
    \E k \in 1..(Len(w) - Width - 1) :
        /\ Len(w) = k + 1 + Width
        /\ NamePart(w, k)
        /\ w[k + 1] = "_"
        /\ \A i \in (k + 2)..Len(w) : w[i] \in Digits

\* Variant: one digit less.
NotYetPlaceholderShort(w) ==
    \E k \in 1..Len(w) :
        /\ NamePart(w, k)
        /\ \/ Len(w) = k
           \/ /\ Len(w) \in (k + 1)..(k + Width - 1)
              /\ w[k + 1] = "_"
              /\ \A i \in (k + 2)..Len(w) : w[i] \in Digits

\* A name, perhaps "_", perhaps up to two digits: what chunks still to come
\* can make a placeholder.
NotYetPlaceholder(w) ==
    \E k \in 1..Len(w) :
        /\ NamePart(w, k)
        /\ \/ Len(w) = k
           \/ /\ Len(w) \in (k + 1)..(k + Width)
              /\ w[k + 1] = "_"
              /\ \A i \in (k + 2)..Len(w) : w[i] \in Digits

WordStarts(s, i) == s[i] \in Words /\ (i = 1 \/ s[i - 1] \notin Words)
WordEnds(s, j) == s[j] \in Words /\ (j = Len(s) \/ s[j + 1] \notin Words)

\* A word of s is from position i to position j.
IsWord(s, i, j) ==
    i <= j /\ WordStarts(s, i) /\ WordEnds(s, j) /\ \A k \in i..j : s[k] \in Words

PlaceholderAt(s, i, j) == IsWord(s, i, j) /\ IsPlaceholder(SubSeq(s, i, j))

\* lookup_placeholder, and what is shown for a placeholder it does not know.
Original(m, w) ==
    LET numbered == UNION {{type} \X (DOMAIN m[type]) : type \in Types}
        owners == {o \in numbered : Placeholder(o[1], o[2]) = w}
    IN  IF owners = {} THEN <<Unknown>>
        ELSE LET o == CHOOSE o \in owners : TRUE IN m[o[1]][o[2]]

\* What is shown for the symbol at position i.
RehydratedAt(m, s, i) ==
    LET ends == {j \in DOMAIN s : PlaceholderAt(s, i, j)}
    IN  IF ends # {} THEN Original(m, SubSeq(s, i, CHOOSE j \in ends : TRUE))
        ELSE IF \E h \in 1..i, j \in i..Len(s) : PlaceholderAt(s, h, j) THEN <<>>
        ELSE <<s[i]>>

Rehydrate(m, s) == FlattenSeq([i \in DOMAIN s |-> RehydratedAt(m, s, i)])

\* Where a word starts that ends at position end and may become a placeholder.
Unfinished(s, end) == {i \in 1..end : IsWord(s, i, end) /\ NotYetPlaceholder(SubSeq(s, i, end))}

HeldFrom(starts, s) == IF starts = {} THEN 0 ELSE Len(s) + 1 - (CHOOSE i \in starts : TRUE)

\* Variant: every last word is kept back.
HeldWord(s) == HeldFrom({i \in DOMAIN s : IsWord(s, i, Len(s))}, s)

\* The length of what rehydrate_streaming keeps back. The pattern's "$" matches
\* before a newline at the very end too.
Held(s) ==
    LET end == IF s # <<>> /\ s[Len(s)] = Newline THEN Len(s) - 1 ELSE Len(s)
    IN  HeldFrom(Unfinished(s, end), s)

(***************************************************************************)
(* The request.                                                            *)
(***************************************************************************)
TypeOK ==
    /\ pc \in {"ready", "streaming", "finished", "ended", "failed"}
    /\ {text, sanitized, buffer} \subseteq Seq(Symbols)
    /\ {full, shown} \subseteq Seq(Shown)
    /\ {found, entities} \subseteq Seq(Detection)
    /\ mapper \in [Types -> Seq(Seq(Symbols))]
    /\ provider \in Providers
    /\ {echo, overtaken} \subseteq BOOLEAN
    /\ \/ buffer = <<>>
       \/ NotYetPlaceholder(buffer)
       \/ buffer[Len(buffer)] = Newline /\ NotYetPlaceholder(SubSeq(buffer, 1, Len(buffer) - 1))
    /\ images \in 0..MaxImages

Init ==
    /\ pc = "ready"
    /\ text = <<>> /\ found = <<>> /\ entities = <<>> /\ sanitized = <<>>
    /\ mapper = Earlier
    /\ provider \in Providers
    /\ echo = FALSE
    /\ full = <<>> /\ buffer = <<>> /\ shown = <<>>
    /\ overtaken = FALSE
    /\ images = 0

\* The model may repeat what it is sent; an answer of its own is explored for
\* the empty message.
Ask ==
    /\ pc = "ready"
    /\ \E ask \in Asks :
          /\ InOrder(ask.found)
          /\ \A i \in DOMAIN ask.found : Detected(ask.text, ask.found[i])
          /\ text' = ask.text
          /\ found' = ask.found
          /\ entities' = Resolve(ask.found)
          /\ mapper' = Assign(mapper, entities')
          /\ sanitized' = Replace(mapper', ask.text, entities')
          /\ echo' = (ask.text # <<>>)
    /\ pc' = "streaming"
    /\ UNCHANGED <<provider, stream>>

\* What the chunks said, without the images.
TextOf(s) == FlattenSeq([i \in DOMAIN s |-> IF s[i] = Image THEN <<>> ELSE <<s[i]>>])

Said == TextOf(full)

\* What a chunk may be: the text c or an image, with the finish reason or not. Two
\* of the providers send the finish reason alone, the third it may come with text.
AnthropicYields(c, image, last) == IF image THEN ~last ELSE last <=> c = <<>>

CompatibleYields(c, image, last) == ~image /\ (last \/ c # <<>>)

ResponsesYields(c, image, last) == IF image THEN ~last ELSE last <=> c = <<>>

Yields(c, image, last) ==
    \/ provider = "anthropic" /\ AnthropicYields(c, image, last)
    \/ provider = "openai_compatible" /\ CompatibleYields(c, image, last)
    \/ provider = "openai_responses" /\ ResponsesYields(c, image, last)

MaySay(c) ==
    IF echo THEN IsPrefix(Said \o c, sanitized) ELSE Len(Said \o c) <= MaxReply

\* Variant: the last chunk is handled like the others.
ReceiveOnly(c, last) ==
    LET b == buffer \o c
    IN  /\ shown' = shown \o Rehydrate(mapper, SubSeq(b, 1, Len(b) - Held(b)))
        /\ buffer' = SubSeq(b, Len(b) - Held(b) + 1, Len(b))

\* The part of the buffer that cannot become a placeholder is rehydrated and
\* sent; with finish_reason, the rest of it too.
Receive(c, last) ==
    LET b == buffer \o c
        safe == SubSeq(b, 1, Len(b) - Held(b))
        rest == SubSeq(b, Len(b) - Held(b) + 1, Len(b))
    IN  IF last
        THEN /\ shown' = shown \o Rehydrate(mapper, safe) \o Rehydrate(mapper, rest)
             /\ buffer' = <<>>
        ELSE /\ shown' = shown \o Rehydrate(mapper, safe)
             /\ buffer' = rest

Chunk(c) ==
    /\ pc = "streaming"
    /\ Yields(c, FALSE, FALSE)
    /\ MaySay(c)
    /\ full' = full \o c
    /\ Receive(c, FALSE)
    /\ UNCHANGED <<pc, request, overtaken, images>>

\* The chunk that carries finish_reason is the last that says anything.
FinishChunk(c) ==
    /\ pc = "streaming"
    /\ Yields(c, FALSE, TRUE)
    /\ MaySay(c)
    /\ echo => Said \o c = sanitized
    /\ full' = full \o c
    /\ Receive(c, TRUE)
    /\ pc' = "finished"
    /\ UNCHANGED <<request, overtaken, images>>

\* An image is passed on at once, whatever the buffer holds.
ImageChunk ==
    /\ pc = "streaming"
    /\ Yields(<<>>, TRUE, FALSE)
    /\ images < MaxImages
    /\ images' = images + 1
    /\ full' = Append(full, Image)
    /\ shown' = Append(shown, Image)
    /\ overtaken' = (overtaken \/ buffer # <<>>)
    /\ UNCHANGED <<pc, request, buffer>>

\* The provider's stream closes without a finish_reason, which the generators
\* take for the end of the answer.
CloseEarly ==
    /\ pc = "streaming"
    /\ pc' = "ended"
    /\ UNCHANGED <<request, stream>>

\* An error event; the buffer is dropped and nothing is stored.
Fail ==
    /\ pc = "streaming"
    /\ pc' = "failed"
    /\ UNCHANGED <<request, stream>>

\* What the next chunk can be: the next symbols of the message that is
\* repeated, or any.
Chunks ==
    IF echo
    THEN {SubSeq(sanitized, Len(Said) + 1, j) :
            j \in {k \in Len(Said)..Len(sanitized) : k <= Len(Said) + MaxChunk}}
    ELSE SeqOf(ReplySymbols, MaxChunk)

Next ==
    \/ Ask
    \/ \E c \in Chunks : Chunk(c)
    \/ \E c \in Chunks : FinishChunk(c)
    \/ ImageChunk
    \/ CloseEarly
    \/ Fail

Spec == Init /\ [][Next]_vars

(***************************************************************************)
(* Properties.                                                             *)
(***************************************************************************)

\* What a finding may be dropped for: rules of the organization prevail, and
\* the patterns prevail over the recognizer of names.
MayDisplace ==
    [custom |-> {"custom"},
     regex |-> {"custom", "regex", "fqdn"},
     fqdn |-> {"custom", "regex", "fqdn"},
     ner |-> Detectors]

\* The registry drops a finding only where an entity it keeps overlaps it and is
\* of a detector with as high a priority. A pattern's may also have lost to
\* another pattern's, before the registry saw it.
PriorityRespected ==
    \A i \in DOMAIN found :
        \/ \E k \in DOMAIN entities : entities[k] = found[i]
        \/ \E k \in DOMAIN entities :
              /\ Overlap(found[i], entities[k])
              /\ entities[k].detector \in MayDisplace[found[i].detector]
        \/ /\ found[i].detector = "regex"
           /\ \E j \in DOMAIN found \ {i} :
                 found[j].detector = "regex" /\ Overlap(found[i], found[j])

NoneEmpty == \A k \in DOMAIN entities : Length(entities[k]) > 0

Covering(ds, i) == {k \in DOMAIN ds : i \in (ds[k].start + 1)..ds[k].end}

\* The text t with w[k] in place of what the k-th detection covers.
InPlace(t, ds, w) ==
    FlattenSeq([i \in DOMAIN t |->
                   IF Covering(ds, i) = {} THEN <<t[i]>>
                   ELSE LET k == CHOOSE k \in Covering(ds, i) : TRUE
                        IN  IF i = ds[k].start + 1 THEN w[k] ELSE <<>>])

\* The text sent has, in place of what each entity covers, its placeholder and
\* nothing else, and every other symbol of the message unchanged, although
\* placeholders and what they replace differ in length; unless a rule has matched
\* the empty text.
ReplacedInPlace ==
    /\ \A i \in DOMAIN text : Cardinality(Covering(entities, i)) <= 1
    /\ NoneEmpty =>
          sanitized =
              InPlace(text, entities, [k \in DOMAIN entities |-> PlaceholderOf(mapper, entities[k])])

\* Whatever in s has the form of a placeholder is one or part of one, and not of
\* another word, so that it does not matter where the chunks that end inside a
\* word split it.
WordsWhole(s) ==
    \A i, j \in DOMAIN s :
        i <= j /\ IsPlaceholder(SubSeq(s, i, j)) =>
            \E h \in 1..i, k \in j..Len(s) : PlaceholderAt(s, h, k)

\* However the answer is cut into chunks, what was shown and what is kept back
\* make the answer as it is rehydrated in one piece, the form in which it is
\* stored; so an early end loses at most the beginning of a placeholder. An answer
\* that finished is stored as the user saw it, images in their places, unless an
\* image came in the middle of a placeholder.
StreamedAsWhole ==
    /\ WordsWhole(Said) =>
          TextOf(shown) \o Rehydrate(mapper, buffer) = Rehydrate(mapper, Said)
    /\ pc = "finished" /\ ~overtaken /\ WordsWhole(full) =>
          shown = Rehydrate(mapper, full)

\* Nothing in s looks like a placeholder, and its end not like the beginning of one.
Inert(s) == Unfinished(s, Len(s)) = {} /\ \A i, j \in DOMAIN s : ~PlaceholderAt(s, i, j)

\* Whatever the model says and wherever it is cut, no placeholder is shown: each
\* that the stream completes is replaced. The user may have written an original that
\* looks like one, or like the beginning of one.
NoPlaceholderShown ==
    (\A type \in Types : \A n \in DOMAIN mapper[type] : Inert(mapper[type][n])) =>
        \A i, j \in DOMAIN shown : ~PlaceholderAt(shown, i, j)

\* The entities whose placeholders the pattern finds again: of a type in
\* capitals, numbered with three digits, and not part of a longer word, nor next
\* to another entity.
Restorable(d) ==
    /\ d.type \in Names
    /\ Len(PlaceholderOf(mapper, d)) = 2 + Width
    /\ d.start = 0 \/ text[d.start] \in Gaps
    /\ d.end = Len(text) \/ text[d.end + 1] \in Gaps
    /\ \A k \in DOMAIN entities : entities[k].start # d.end

\* Where a model repeats the message, the user is shown the message with, in place
\* of what each entity covers, the value its number stands for in its first
\* spelling, and every other symbol unchanged, wherever the chunks are cut, if the
\* message itself has nothing of the form of a placeholder, not within a word
\* either. So the message comes back where the values are what their entities cover,
\* spelled as at first.
RoundTrip ==
    /\ pc = "finished" /\ echo
    /\ NoneEmpty /\ \A k \in DOMAIN entities : Restorable(entities[k])
    /\ \A i, j \in DOMAIN text : i <= j => ~IsPlaceholder(SubSeq(text, i, j))
    => TextOf(shown) =
           InPlace(text, entities, [k \in DOMAIN entities |-> FirstSpelling(mapper, entities[k])])

SameEntity(d, e) == d.type = e.type /\ Normal(d.type, d.value) = Normal(e.type, e.value)

\* README.md:87: if a value maps to a placeholder, "every occurrence is replaced":
\* each finding of it is, at least in part.
OccurrencesReplaced ==
    \A i \in DOMAIN found, k \in DOMAIN entities :
        SameEntity(found[i], entities[k]) =>
            \E l \in DOMAIN entities : Overlap(found[i], entities[l])
=============================================================================
