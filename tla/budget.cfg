SPECIFICATION BudgetSpec
CONSTANTS
    c1 = c1
    c2 = c2
    c3 = c3
    t1 = t1
    t2 = t2
    u1 = u1
    g1 = g1
    Calls = {c1, c2, c3}
    Tasks = {t1, t2}
    TaskOf <- MCTaskOf
    Users = {u1}
    PayerOf <- MCPayerOf
    Campaigns = {g1}
    CampaignOf <- MCCampaignOf
    Handlers = {h1, h2}
    Nobody = Nobody
    NoRequest = NoRequest
    Worst <- MCWorst
    MaxCost = 2
    TaskBudget = 1
    Limits = {1, 2}
    MaxChanges = 2
SYMMETRY Shells
INVARIANTS
    OneOpenAttempt
    RecordsAgree
    AdmissionStillFits
