---------------------------- MODULE Organization ----------------------------
(***************************************************************************)
(* What an organization stores about itself: its tier and the settings,    *)
(* one JSON text that holds the licence among other fields                 *)
(* (backend/api/settings.py, backend/api/licensing.py), and its detection  *)
(* rules, as many as the tier allows (backend/api/rules.py). Each handler  *)
(* reads the organization in one await and commits in a later one; the     *)
(* rate limiter reads the tier on its own and keeps it for a while         *)
(* (_get_org_tier in backend/middleware/rate_limit.py, by way of           *)
(* backend/core/state_store.py).                                           *)
(***************************************************************************)
EXTENDS Naturals, FiniteSets

CONSTANTS
    Requests,       \* bound: requests of administrators in flight at once
    Tiers,
    Free,           \* the tier without a licence
    Licences,       \* the keys the validator accepts for the organization
    TierOf,         \* the tier each licence is for
    Fields, Values, \* the other fields of the settings
    Featured,       \* the tiers with the feature custom_rules
    MaxRules,       \* max_custom_rules of each tier
    Rules,          \* bound: the ids rules may get
    Workers,        \* the processes that limit rates
    TierTTL,        \* how long a tier is kept
    None

ASSUME OrganizationAssumption ==
    /\ IsFiniteSet(Requests) /\ IsFiniteSet(Rules)
    /\ Featured \subseteq Tiers /\ Free \in Tiers
    /\ TierOf \in [Licences -> Tiers]
    /\ MaxRules \in [Tiers -> Nat]
    /\ TierTTL \in Nat \ {0}
    /\ None \notin Licences \cup Values \cup Tiers

VARIABLES
    tier, settings, \* the organization's row
    rules,          \* the custom rules stored
    req,            \* the requests in flight, with what they have read
    fetched,        \* the tier each worker has read and not yet kept
    cache,          \* the tier kept for all workers, with what is left of its life
    stale           \* history: a commit replaced settings or tier it had not read

vars == <<tier, settings, rules, req, fetched, cache, stale>>

Settings == [license : Licences \cup {None}, other : [Fields -> Values \cup {None}]]

Blank == [license |-> None, other |-> [f \in Fields |-> None]]

\* A request keeps the row as it read it, and the rule it is about.
Request == [step : {"idle", "settings", "license", "create", "counted", "delete"},
            tier : Tiers \cup {None}, settings : Settings, rule : Rules \cup {None}]

Idle == [step |-> "idle", tier |-> None, settings |-> Blank, rule |-> None]

TypeOK ==
    /\ tier \in Tiers
    /\ settings \in Settings
    /\ rules \subseteq Rules
    /\ req \in [Requests -> Request]
    /\ \A r \in Requests : req[r].tier = None <=> req[r].step \in {"idle", "settings"}
    /\ fetched \in [Workers -> Tiers \cup {None}]
    /\ cache \in [tier : Tiers, left : 0 .. TierTTL]
    /\ stale \in BOOLEAN

Init ==
    /\ tier = Free
    /\ settings = Blank
    /\ rules = {}
    /\ req = [r \in Requests |-> Idle]
    /\ fetched = [w \in Workers |-> None]
    /\ cache = [tier |-> Free, left |-> 0]
    /\ stale = FALSE

Await(r, next) ==
    /\ req' = [req EXCEPT ![r] = next]
    /\ UNCHANGED <<tier, settings, rules, fetched, cache, stale>>

\* A refusal, an error or a crash: get_db rolls back.
Fail(r) ==
    /\ req[r] # Idle
    /\ Await(r, Idle)

\* The ORM writes the attributes that are not what it read.
Written(old, new, now) == IF new = old THEN now ELSE new

\* The commit of a row in which the request r has set the tier and the settings.
CommitRow(r, newTier, newSettings) ==
    /\ tier' = IF req[r].tier = None THEN tier ELSE Written(req[r].tier, newTier, tier)
    /\ settings' = Written(req[r].settings, newSettings, settings)
    /\ stale' = (\/ stale
                 \/ req[r].settings # settings
                 \/ req[r].tier \notin {None, tier})
    /\ req' = [req EXCEPT ![r] = Idle]
    /\ UNCHANGED <<rules, fetched, cache>>

CommitRules(r, set) ==
    /\ rules' = set
    /\ req' = [req EXCEPT ![r] = Idle]
    /\ UNCHANGED <<tier, settings, fetched, cache, stale>>

(***************************************************************************)
(* Settings and licences                                                   *)
(***************************************************************************)
ReadSettings(r) ==
    /\ req[r] = Idle
    /\ Await(r, [Idle EXCEPT !.step = "settings", !.settings = settings])

\* Variant: the fields of the request make the settings.
AsGiven(was, f, v) == [Blank EXCEPT !.other[f] = v]

\* The fields the request gives are put into the settings as they were read.
Merged(was, f, v) == [was EXCEPT !.other[f] = v]

UpdateSettings(r) ==
    /\ req[r].step = "settings"
    /\ \E f \in Fields, v \in Values :
          CommitRow(r, None, Merged(req[r].settings, f, v))

ReadLicense(r) ==
    /\ req[r] = Idle
    /\ Await(r, [Idle EXCEPT !.step = "license", !.tier = tier, !.settings = settings])

Activate(r) ==
    /\ req[r].step = "license"
    /\ \E l \in Licences :
          CommitRow(r, TierOf[l], [req[r].settings EXCEPT !.license = l])

Deactivate(r) ==
    /\ req[r].step = "license"
    /\ CommitRow(r, Free, [req[r].settings EXCEPT !.license = None])

(***************************************************************************)
(* Rules. The session reads the tier once, for the feature and the limit.  *)
(***************************************************************************)
RequireFeature(r, step, rule) ==
    /\ req[r] = Idle
    /\ tier \in Featured
    /\ Await(r, [Idle EXCEPT !.step = step, !.tier = tier, !.rule = rule])

ReadForRule(r) == RequireFeature(r, "create", None)

\* Variant: the limit is compared with "more than".
BelowLimitOrAt(t) == Cardinality(rules) <= MaxRules[t]

BelowLimit(t) == Cardinality(rules) < MaxRules[t]

CountRules(r) ==
    /\ req[r].step = "create"
    /\ BelowLimit(req[r].tier)
    /\ Await(r, [req[r] EXCEPT !.step = "counted"])

CreateRule(r) ==
    /\ req[r].step = "counted"
    /\ \E rule \in Rules \ rules : CommitRules(r, rules \cup {rule})

ReadRule(r) == \E rule \in rules : RequireFeature(r, "delete", rule)

DeleteRule(r) ==
    /\ req[r].step = "delete"
    /\ CommitRules(r, rules \ {req[r].rule})

(***************************************************************************)
(* The rate limiter's tier. Two workers may both find none kept, and what  *)
(* one has read may be kept long after the row has changed.                *)
(***************************************************************************)
FetchTier(w) ==
    /\ cache.left = 0
    /\ fetched[w] = None
    /\ fetched' = [fetched EXCEPT ![w] = tier]
    /\ UNCHANGED <<tier, settings, rules, req, cache, stale>>

KeepTier(w) ==
    /\ fetched[w] # None
    /\ cache' = [tier |-> fetched[w], left |-> TierTTL]
    /\ fetched' = [fetched EXCEPT ![w] = None]
    /\ UNCHANGED <<tier, settings, rules, req, stale>>

\* An error after the query: the request is limited as in the free tier.
DropTier(w) ==
    /\ fetched[w] # None
    /\ fetched' = [fetched EXCEPT ![w] = None]
    /\ UNCHANGED <<tier, settings, rules, req, cache, stale>>

\* Variant: the value is stored without an expiry.
AgedNever(n) == n

Aged(n) == n - 1

Tick ==
    /\ cache.left > 0
    /\ cache' = [cache EXCEPT !.left = Aged(@)]
    /\ UNCHANGED <<tier, settings, rules, req, fetched, stale>>

(***************************************************************************)
(* Specification                                                           *)
(***************************************************************************)
Next ==
    \/ \E r \in Requests :
          \/ ReadSettings(r) \/ UpdateSettings(r)
          \/ ReadLicense(r) \/ Activate(r) \/ Deactivate(r)
          \/ ReadForRule(r) \/ CountRules(r) \/ CreateRule(r)
          \/ ReadRule(r) \/ DeleteRule(r)
          \/ Fail(r)
    \/ \E w \in Workers : FetchTier(w) \/ KeepTier(w) \/ DropTier(w)
    \/ Tick

Spec == Init /\ [][Next]_vars

\* Time passes, and a worker that has read a tier keeps it or fails.
FairSpec ==
    /\ Spec
    /\ WF_vars(Tick)
    /\ \A w \in Workers : WF_vars(KeepTier(w) \/ DropTier(w))

(***************************************************************************)
(* Properties                                                              *)
(***************************************************************************)

\* As long as no commit has replaced a row it had not read, the organization has
\* the tier of the licence in its settings, whatever settings are updated between
\* activations, and the free tier without one.
TierOfLicense ==
    ~stale => tier = IF settings.license = None THEN Free ELSE TierOf[settings.license]

Allowed == {MaxRules[t] : t \in Featured}

Counted == {r \in Requests : req[r].step = "counted"}

\* However requests overlap, and whatever licence ends between a count and its
\* insert, an organization passes the largest limit it may ever have had by fewer
\* rules than requests were in flight at once.
RulesBounded ==
    rules # {} =>
        \E most \in Allowed : Cardinality(rules) + Cardinality(Counted) < most + Cardinality(Requests)

\* Once the organization stays in a tier, its requests come to be limited by that
\* tier or by one read anew, although reads of the tier before may still be kept.
TierReachesLimiter ==
    \A t \in Tiers :
        <>[](tier = t) => <>[](cache.left = 0 \/ cache.tier = t)

\* An update of the settings changes only the fields it was given (settings.py:178).
OnlyProvidedFieldsChange ==
    [][\A r \in Requests :
          req[r].step = "settings" /\ settings' # settings /\ req'[r] # req[r] =>
              \E f \in Fields : \E v \in Values : settings' = Merged(settings, f, v)]_vars
=============================================================================
