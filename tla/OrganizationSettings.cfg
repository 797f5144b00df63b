SPECIFICATION Spec
CONSTANTS
    Requests = {r1, r2}
    Free = free  solo = solo  team = team
    Tiers = {free, solo, team}
    l1 = l1  l2 = l2
    Licences = {l1, l2}
    TierOf <- MCTierOf
    Fields = {f}
    Values = {v, w}
    Featured = {solo, team}
    MaxRules <- MCMaxRules
    Rules = {a, b, c}
    Workers = {p}
    TierTTL = 1
    None = None
PROPERTIES
    OnlyProvidedFieldsChange
CHECK_DEADLOCK FALSE
