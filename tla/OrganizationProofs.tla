-------------------------- MODULE OrganizationProofs --------------------------
(***************************************************************************)
(* The organization keeps the tier of its licence, and its rules keep to a *)
(* bound, for any tiers and licences and any number of requests.           *)
(***************************************************************************)
EXTENDS Organization, FiniteSetTheorems, TLAPS

(***************************************************************************)
(* The steps, by what they write.                                          *)
(***************************************************************************)

\* A request that leaves the organization as it is: it has read, counted or failed.
Reads(r) ==
    \/ ReadSettings(r) \/ ReadLicense(r) \/ Fail(r)
    \/ ReadForRule(r) \/ ReadRule(r) \/ CountRules(r)

CommitsRow(r) == UpdateSettings(r) \/ Activate(r) \/ Deactivate(r)

CommitsRules(r) == CreateRule(r) \/ DeleteRule(r)

Limits == (\E w \in Workers : FetchTier(w) \/ KeepTier(w) \/ DropTier(w)) \/ Tick

LEMMA NextCases ==
    ASSUME Next
    PROVE  (\E r \in Requests : Reads(r) \/ CommitsRow(r) \/ CommitsRules(r)) \/ Limits
  BY DEF Next, Reads, CommitsRow, CommitsRules, Limits

LEMMA BlankTyped == Blank \in Settings /\ Idle \in Request
  BY DEF Blank, Settings, Idle, Request

(***************************************************************************)
(* Type correctness.                                                       *)
(***************************************************************************)

\* A request's own record: its step, and the tier it has read.
Paired(next) ==
    next \in Request /\ (next.tier = None <=> next.step \in {"idle", "settings"})

LEMMA IdlePaired == Paired(Idle)
  BY BlankTyped DEF Paired, Idle

LEMMA ReadsAwait ==
    ASSUME TypeOK, NEW r \in Requests, Reads(r)
    PROVE  \E next : Paired(next) /\ Await(r, next)
  <1> /\ tier \in Tiers /\ tier # None /\ settings \in Settings /\ rules \subseteq Rules
      /\ Blank \in Settings
    BY OrganizationAssumption, BlankTyped DEF TypeOK
  <1>1. CASE Fail(r)
    BY <1>1, IdlePaired DEF Fail
  <1>2. CASE ReadSettings(r)
    BY <1>2 DEF ReadSettings, Paired, Idle, Request
  <1>3. CASE ReadLicense(r)
    BY <1>3 DEF ReadLicense, Paired, Idle, Request
  <1>4. CASE ReadForRule(r)
    BY <1>4 DEF ReadForRule, RequireFeature, Paired, Idle, Request
  <1>5. CASE ReadRule(r)
    BY <1>5 DEF ReadRule, RequireFeature, Paired, Idle, Request
  <1>6. CASE CountRules(r)
    <2>1. req[r] \in Request /\ (req[r].tier = None <=> req[r].step \in {"idle", "settings"})
      BY DEF TypeOK
    <2>2. Paired([req[r] EXCEPT !.step = "counted"])
      BY <1>6, <2>1 DEF CountRules, Paired, Request
    <2> QED
      BY <1>6, <2>2 DEF CountRules
  <1> QED
    BY <1>1, <1>2, <1>3, <1>4, <1>5, <1>6 DEF Reads

\* What a commit makes of the organization's row.
LEMMA CommitWrites ==
    ASSUME TypeOK, NEW r \in Requests, CommitsRow(r)
    PROVE  \E newTier \in Tiers \cup {None}, newSettings \in Settings :
              /\ CommitRow(r, newTier, newSettings)
              /\ req[r].step \in {"settings", "license"}
              /\ req[r].step = "settings" =>
                    newTier = None /\ newSettings.license = req[r].settings.license
              /\ req[r].step = "license" =>
                    newTier = IF newSettings.license = None THEN Free
                              ELSE TierOf[newSettings.license]
  <1>1. req[r].settings \in Settings
    BY DEF TypeOK, Request
  <1>2. ASSUME NEW f \in Fields, NEW v \in Values
        PROVE  /\ Merged(req[r].settings, f, v) \in Settings
               /\ Merged(req[r].settings, f, v).license = req[r].settings.license
    BY <1>1 DEF Merged, Settings
  <1>3. ASSUME NEW l \in Licences \cup {None}
        PROVE  /\ [req[r].settings EXCEPT !.license = l] \in Settings
               /\ [req[r].settings EXCEPT !.license = l].license = l
    BY <1>1 DEF Settings
  <1>4. CASE UpdateSettings(r)
    BY <1>2, <1>4 DEF UpdateSettings
  <1>5. CASE Activate(r)
    <2>1. PICK l \in Licences : CommitRow(r, TierOf[l], [req[r].settings EXCEPT !.license = l])
      BY <1>5 DEF Activate
    <2>2. TierOf[l] \in Tiers /\ l # None /\ req[r].step = "license"
      BY <1>5, OrganizationAssumption DEF Activate
    <2> DEFINE new == [req[r].settings EXCEPT !.license = l]
    <2>3. new \in Settings /\ new.license = l
      BY <1>3
    <2>4. CommitRow(r, TierOf[l], new)
      BY <2>1
    <2> HIDE DEF new
    <2> QED
      BY <2>2, <2>3, <2>4
  <1>6. CASE Deactivate(r)
    <2>1. CommitRow(r, Free, [req[r].settings EXCEPT !.license = None])
      BY <1>6 DEF Deactivate
    <2>2. Free \in Tiers /\ req[r].step = "license"
      BY <1>6, OrganizationAssumption DEF Deactivate
    <2> QED
      BY <1>3, <2>1, <2>2
  <1> QED
    BY <1>4, <1>5, <1>6 DEF CommitsRow

\* What a step does to the requests keeps their type.
LEMMA RequestsTyped ==
    ASSUME TypeOK, NEW r \in Requests, NEW next, Paired(next),
           req' = [req EXCEPT ![r] = next]
    PROVE  /\ req' \in [Requests -> Request]
           /\ \A q \in Requests : (req[q].tier = None <=> req[q].step \in {"idle", "settings"})'
  BY DEF TypeOK, Paired

LEMMA TypeStep ==
    ASSUME TypeOK, [Next]_vars
    PROVE  TypeOK'
  <1>1. CASE UNCHANGED vars
    BY <1>1 DEF vars, TypeOK
  <1>2. ASSUME NEW r \in Requests, Reads(r)
        PROVE  TypeOK'
    <2>1. PICK next : Paired(next) /\ Await(r, next)
      BY <1>2, ReadsAwait
    <2> QED
      BY <2>1, RequestsTyped DEF Await, TypeOK
  <1>3. ASSUME NEW r \in Requests, CommitsRow(r)
        PROVE  TypeOK'
    <2>1. PICK newTier \in Tiers \cup {None}, newSettings \in Settings :
             CommitRow(r, newTier, newSettings) /\ (req[r].step = "license" => newTier \in Tiers)
                /\ req[r].step \in {"settings", "license"}
      <3>1. TierOf \in [Licences -> Tiers] /\ Free \in Tiers
        BY OrganizationAssumption
      <3>2. \A s \in Settings : s.license # None => s.license \in Licences
        BY DEF Settings
      <3> QED
        BY <1>3, <3>1, <3>2, CommitWrites
    <2>2. req[r].tier # None => newTier \in Tiers
      BY <2>1 DEF TypeOK
    <2>3. tier' \in Tiers /\ settings' \in Settings /\ stale' \in BOOLEAN
      BY <2>1, <2>2 DEF CommitRow, Written, TypeOK
    <2> QED
      BY <2>1, <2>3, RequestsTyped, IdlePaired DEF CommitRow, TypeOK
  <1>4. ASSUME NEW r \in Requests, CommitsRules(r)
        PROVE  TypeOK'
    <2>1. PICK set \in SUBSET Rules : CommitRules(r, set)
      BY <1>4 DEF CommitsRules, CreateRule, DeleteRule, TypeOK
    <2> QED
      BY <2>1, RequestsTyped, IdlePaired DEF CommitRules, TypeOK
  <1>5. CASE Limits
    <2>1. ASSUME NEW w \in Workers, FetchTier(w)
          PROVE  TypeOK'
      BY <2>1 DEF FetchTier, TypeOK
    <2>2. ASSUME NEW w \in Workers, KeepTier(w)
          PROVE  TypeOK'
      <3>1. fetched[w] \in Tiers /\ TierTTL \in 0 .. TierTTL
        BY <2>2, OrganizationAssumption DEF KeepTier, TypeOK
      <3> QED
        BY <2>2, <3>1 DEF KeepTier, TypeOK
    <2>3. ASSUME NEW w \in Workers, DropTier(w)
          PROVE  TypeOK'
      BY <2>3 DEF DropTier, TypeOK
    <2>4. CASE Tick
      <3>1. cache.left \in 0 .. TierTTL /\ cache.left > 0 /\ TierTTL \in Nat
        BY <2>4, OrganizationAssumption DEF Tick, TypeOK
      <3>2. cache.left - 1 \in 0 .. TierTTL
        BY <3>1
      <3> QED
        BY <2>4, <3>2 DEF Tick, Aged, TypeOK
    <2> QED
      BY <1>5, <2>1, <2>2, <2>3, <2>4 DEF Limits
  <1> QED
    BY <1>1, <1>2, <1>3, <1>4, <1>5, NextCases

LEMMA TypeInit ==
    ASSUME Init
    PROVE  TypeOK
  <1>1. TierTTL \in Nat /\ 0 \in 0 .. TierTTL /\ Free \in Tiers
    BY OrganizationAssumption
  <1>2. /\ req \in [Requests -> Request]
        /\ \A r \in Requests : req[r].tier = None <=> req[r].step \in {"idle", "settings"}
    BY IdlePaired DEF Init, Paired
  <1> QED
    BY <1>1, <1>2, BlankTyped DEF Init, TypeOK

\* Every variable of the organization keeps to its type.
THEOREM TypeCorrect == Spec => []TypeOK
  BY TypeInit, TypeStep, PTL DEF Spec

(***************************************************************************)
(* The tier of the licence.                                                *)
(***************************************************************************)

\* A commit that replaces only what it has read leaves the tier and the licence
\* matched: an update touches neither, a licence is stored with its tier.
LEMMA MatchedStep ==
    ASSUME TypeOK, TierOfLicense, [Next]_vars
    PROVE  TierOfLicense'
  <1>1. CASE UNCHANGED <<tier, settings, stale>>
    BY <1>1 DEF TierOfLicense
  <1>2. ASSUME NEW r \in Requests, CommitsRow(r)
        PROVE  TierOfLicense'
    <2> SUFFICES ASSUME ~stale'
                 PROVE  tier' = IF settings'.license = None THEN Free ELSE TierOf[settings'.license]
      BY DEF TierOfLicense
    <2>1. PICK newTier \in Tiers \cup {None}, newSettings \in Settings :
             /\ CommitRow(r, newTier, newSettings)
             /\ req[r].step \in {"settings", "license"}
             /\ req[r].step = "settings" =>
                   newTier = None /\ newSettings.license = req[r].settings.license
             /\ req[r].step = "license" =>
                   newTier = IF newSettings.license = None THEN Free
                             ELSE TierOf[newSettings.license]
      BY <1>2, CommitWrites
    <2>2. ~stale /\ req[r].settings = settings /\ req[r].tier \in {None, tier}
      BY <2>1 DEF CommitRow
    <2>3. settings' = newSettings
      BY <2>1, <2>2 DEF CommitRow, Written
    <2>4. CASE req[r].step = "settings"
      <3>1. req[r].tier = None
        BY <2>4 DEF TypeOK
      <3>2. tier' = tier
        BY <2>1, <3>1 DEF CommitRow
      <3> QED
        BY <2>1, <2>2, <2>3, <2>4, <3>2 DEF TierOfLicense
    <2>5. CASE req[r].step = "license"
      <3>1. req[r].tier # None
        BY <2>5 DEF TypeOK
      <3>2. tier' = newTier
        BY <2>1, <2>2, <3>1 DEF CommitRow, Written
      <3> QED
        BY <2>1, <2>3, <2>5, <3>2
    <2> QED
      BY <2>1, <2>4, <2>5
  <1>3. ASSUME NEW r \in Requests, Reads(r)
        PROVE  UNCHANGED <<tier, settings, stale>>
    BY <1>3, ReadsAwait DEF Await
  <1>4. ASSUME NEW r \in Requests, CommitsRules(r)
        PROVE  UNCHANGED <<tier, settings, stale>>
    BY <1>4 DEF CommitsRules, CreateRule, DeleteRule, CommitRules
  <1>5. Limits => UNCHANGED <<tier, settings, stale>>
    BY DEF Limits, FetchTier, KeepTier, DropTier, Tick
  <1>6. UNCHANGED vars => UNCHANGED <<tier, settings, stale>>
    BY DEF vars
  <1> QED
    BY <1>1, <1>2, <1>3, <1>4, <1>5, <1>6, NextCases

\* As long as no commit has replaced a row it had not read, the organization has
\* the tier of its licence.
THEOREM TierMatchesLicense == Spec => []TierOfLicense
  <1>1. Init => TierOfLicense
    BY DEF Init, TierOfLicense, Blank
  <1> QED
    BY <1>1, MatchedStep, TypeCorrect, PTL DEF Spec

(***************************************************************************)
(* The bound on rules.                                                     *)
(***************************************************************************)

Within(n, m) == \E most \in Allowed : n + m < most + Cardinality(Requests)

\* Requests about rules were let in by a tier with the feature, and those that
\* have counted are bounded together with what they will insert.
Bounded ==
    /\ \A r \in Requests :
          req[r].step \in {"create", "counted", "delete"} => req[r].tier \in Featured
    /\ rules # {} \/ Counted # {} => Within(Cardinality(rules), Cardinality(Counted))

LEMMA CountedFinite ==
    ASSUME TypeOK
    PROVE  /\ IsFiniteSet(Requests) /\ Cardinality(Requests) \in Nat
           /\ IsFiniteSet(rules) /\ Cardinality(rules) \in Nat
           /\ IsFiniteSet(Counted) /\ Cardinality(Counted) \in Nat
           /\ Cardinality(Counted) <= Cardinality(Requests)
  <1>1. IsFiniteSet(Requests) /\ IsFiniteSet(Rules)
    BY OrganizationAssumption
  <1>2. Counted \subseteq Requests /\ rules \subseteq Rules
    BY DEF Counted, TypeOK
  <1> QED
    BY <1>1, <1>2, FS_Subset, FS_CardinalityType

LEMMA AllowedNat ==
    ASSUME NEW most \in Allowed
    PROVE  most \in Nat
  BY OrganizationAssumption DEF Allowed

\* Fewer rules or fewer counted requests stay within the bound.
LEMMA WithinLess ==
    ASSUME NEW n \in Nat, NEW m \in Nat, NEW i \in Nat, NEW j \in Nat, Within(n, m), i + j <= n + m
    PROVE  Within(i, j)
  <1>1. PICK most \in Allowed : n + m < most + Cardinality(Requests)
    BY DEF Within
  <1>2. most \in Nat /\ Cardinality(Requests) \in Nat
    BY AllowedNat, OrganizationAssumption, FS_CardinalityType
  <1>3. i + j < most + Cardinality(Requests)
    BY <1>1, <1>2
  <1> QED
    BY <1>3 DEF Within

\* A step that makes neither the rules nor the counted requests more.
LEMMA BoundedKept ==
    ASSUME TypeOK, TypeOK', Bounded, NEW r \in Requests, NEW next,
           req' = [req EXCEPT ![r] = next],
           next.step # "counted",
           next.step \in {"create", "delete"} => next.tier \in Featured,
           rules' \subseteq rules
    PROVE  Bounded'
  <1>1. req \in [Requests -> Request]
    BY DEF TypeOK
  <1>2. \A q \in Requests :
           req'[q].step \in {"create", "counted", "delete"} => req'[q].tier \in Featured
    BY <1>1 DEF Bounded
  <1>3. Counted' \subseteq Counted
    BY <1>1 DEF Counted
  <1>4. /\ Cardinality(rules') <= Cardinality(rules) /\ Cardinality(rules') \in Nat
        /\ Cardinality(Counted') <= Cardinality(Counted) /\ Cardinality(Counted') \in Nat
        /\ Cardinality(rules) \in Nat /\ Cardinality(Counted) \in Nat
    BY <1>3, CountedFinite, FS_Subset, FS_CardinalityType
  <1>5. Cardinality(rules') + Cardinality(Counted') <= Cardinality(rules) + Cardinality(Counted)
    BY <1>4
  <1>6. ASSUME rules' # {} \/ Counted' # {}
        PROVE  Within(Cardinality(rules'), Cardinality(Counted'))
    <2>1. Within(Cardinality(rules), Cardinality(Counted))
      BY <1>3, <1>6 DEF Bounded
    <2> QED
      BY <1>4, <1>5, <2>1, WithinLess
  <1> QED
    BY <1>2, <1>6 DEF Bounded, Within

LEMMA BoundedStep ==
    ASSUME TypeOK, TypeOK', Bounded, [Next]_vars
    PROVE  Bounded'
  <1>1. CASE UNCHANGED <<req, rules>>
    BY <1>1 DEF Bounded, Within, Counted
  <1>2. ASSUME NEW r \in Requests, CommitsRow(r)
        PROVE  Bounded'
    <2>1. req' = [req EXCEPT ![r] = Idle] /\ rules' = rules
      BY <1>2, CommitWrites DEF CommitRow
    <2>2. Idle.step = "idle"
      BY DEF Idle
    <2> QED
      BY <2>1, <2>2, BoundedKept
  <1>3. ASSUME NEW r \in Requests, DeleteRule(r)
        PROVE  Bounded'
    <2>1. req' = [req EXCEPT ![r] = Idle] /\ rules' \subseteq rules
      BY <1>3 DEF DeleteRule, CommitRules
    <2>2. Idle.step = "idle"
      BY DEF Idle
    <2> QED
      BY <2>1, <2>2, BoundedKept
  <1>4. ASSUME NEW r \in Requests, Reads(r), ~CountRules(r)
        PROVE  Bounded'
    <2> DEFINE Fits(next) ==
                  /\ Await(r, next)
                  /\ next.step # "counted"
                  /\ next.step \in {"create", "delete"} => next.tier \in Featured
    <2>1. \E next : Fits(next)
      <3>1. CASE Fail(r)
        <4>1. Fits(Idle)
          BY <3>1 DEF Fail, Idle
        <4> QED
          BY <4>1
      <3>2. CASE ReadSettings(r)
        <4>1. Fits([Idle EXCEPT !.step = "settings", !.settings = settings])
          BY <3>2 DEF ReadSettings, Idle
        <4> QED
          BY <4>1
      <3>3. CASE ReadLicense(r)
        <4>1. Fits([Idle EXCEPT !.step = "license", !.tier = tier, !.settings = settings])
          BY <3>3 DEF ReadLicense, Idle
        <4> QED
          BY <4>1
      <3>4. ASSUME NEW asks \in {"create", "delete"}, NEW rule, RequireFeature(r, asks, rule)
            PROVE  \E next : Fits(next)
        <4>1. Fits([Idle EXCEPT !.step = asks, !.tier = tier, !.rule = rule])
          BY <3>4 DEF RequireFeature, Idle
        <4> QED
          BY <4>1
      <3> HIDE DEF Fits
      <3> QED
        BY <1>4, <3>1, <3>2, <3>3, <3>4 DEF Reads, ReadForRule, ReadRule
    <2>2. \A next : Await(r, next) => req' = [req EXCEPT ![r] = next] /\ rules' = rules
      BY DEF Await
    <2> QED
      BY <2>1, <2>2, BoundedKept
  <1>5. ASSUME NEW r \in Requests, CountRules(r)
        PROVE  Bounded'
    <2>1. /\ req' = [req EXCEPT ![r].step = "counted"] /\ rules' = rules
          /\ req \in [Requests -> Request]
          /\ req[r].step = "create" /\ Cardinality(rules) < MaxRules[req[r].tier]
      BY <1>5 DEF CountRules, Await, BelowLimit, TypeOK
    <2>2. req[r].tier \in Featured
      BY <2>1 DEF Bounded
    <2>3. MaxRules[req[r].tier] \in Allowed
      BY <2>2 DEF Allowed
    <2>4. \A q \in Requests :
             req'[q].step \in {"create", "counted", "delete"} => req'[q].tier \in Featured
      BY <2>1, <2>2 DEF Bounded, Request
    <2>5. /\ Cardinality(Counted') <= Cardinality(Requests) /\ Cardinality(Counted') \in Nat
          /\ Cardinality(Requests) \in Nat /\ Cardinality(rules) \in Nat
      BY CountedFinite, FS_Subset, FS_CardinalityType DEF Counted
    <2>6. MaxRules[req[r].tier] \in Nat
      BY <2>3, AllowedNat
    <2>7. Cardinality(rules) + Cardinality(Counted') < MaxRules[req[r].tier] + Cardinality(Requests)
      BY <2>1, <2>5, <2>6
    <2>8. Within(Cardinality(rules'), Cardinality(Counted'))
      BY <2>1, <2>3, <2>7 DEF Within
    <2> QED
      BY <2>4, <2>8 DEF Bounded, Within
  <1>6. ASSUME NEW r \in Requests, CreateRule(r)
        PROVE  Bounded'
    <2>1. PICK rule \in Rules \ rules : rules' = rules \cup {rule}
      BY <1>6 DEF CreateRule, CommitRules
    <2>2. /\ req' = [req EXCEPT ![r] = Idle] /\ req \in [Requests -> Request]
          /\ req[r].step = "counted"
      BY <1>6 DEF CreateRule, CommitRules, TypeOK
    <2>3. Counted' = Counted \ {r} /\ r \in Counted
      BY <2>2 DEF Counted, Idle
    <2>4. /\ Cardinality(rules') = Cardinality(rules) + 1
          /\ Cardinality(Counted') = Cardinality(Counted) - 1
          /\ Cardinality(rules) \in Nat /\ Cardinality(Counted) \in Nat
          /\ Cardinality(Counted') \in Nat /\ Cardinality(rules') \in Nat
      BY <2>1, <2>3, CountedFinite, FS_AddElement, FS_RemoveElement, FS_CardinalityType
    <2>5. Within(Cardinality(rules), Cardinality(Counted))
      BY <2>3 DEF Bounded
    <2>6. Cardinality(rules') + Cardinality(Counted') <= Cardinality(rules) + Cardinality(Counted)
      BY <2>4
    <2>7. Within(Cardinality(rules'), Cardinality(Counted'))
      BY <2>4, <2>5, <2>6, WithinLess
    <2>8. \A q \in Requests :
             req'[q].step \in {"create", "counted", "delete"} => req'[q].tier \in Featured
      BY <2>2 DEF Bounded, Idle
    <2> QED
      BY <2>7, <2>8 DEF Bounded, Within
  <1>7. Limits => UNCHANGED <<req, rules>>
    BY DEF Limits, FetchTier, KeepTier, DropTier, Tick
  <1>8. UNCHANGED vars => UNCHANGED <<req, rules>>
    BY DEF vars
  <1> QED
    BY <1>1, <1>2, <1>3, <1>4, <1>5, <1>6, <1>7, <1>8, NextCases DEF CommitsRules

\* An organization passes the largest limit it may have had by fewer rules than
\* requests were in flight at once.
THEOREM RulesKeepToBound == Spec => []RulesBounded
  <1>1. Init => Bounded
    BY DEF Init, Bounded, Counted, Idle
  <1>2. Bounded => RulesBounded
    BY DEF Bounded, Within, RulesBounded
  <1> QED
    BY <1>1, <1>2, BoundedStep, TypeCorrect, PTL DEF Spec
=============================================================================
