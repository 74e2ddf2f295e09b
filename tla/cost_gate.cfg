SPECIFICATION CostSpec
CONSTANTS
    d1 = d1
    t1 = t1
    g1 = g1
    Calls = {d1, t1, g1}
    Deferred = {t1, g1}
    Geocoders = {g1}
    Cost <- MCCost
    Addresses = 1
    MaxRuns <- MCMaxRuns
    MaxPeriod = 2
    Plans = {1, 3}
INVARIANTS
    CostTypeOK
    BalanceCapped
    LedgerRowsEarned
    SumsUnlessRerun
    ProviderPays
