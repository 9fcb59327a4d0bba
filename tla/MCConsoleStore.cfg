CONSTANTS
    alice = alice
    bob = bob
    reports = reports
    runs = runs
    rules = rules
    o1 = o1
    o2 = o2
    None = None
    Users = {alice, bob}
    Custom = {alice}
    Exempt = {bob}
    Parts = {reports, runs, rules}
    Optional = {runs}
    Foundation = {rules}
    Derived = {reports}
    Keys = {"accessRequest", "simulation"}
    Ops = {o1, o2}
    MaxActs = 5
    MaxWrites = 1
SYMMETRY Interchangeable
SPECIFICATION StoreSpec
INVARIANTS
    IndicatorsEnd
    ApiModeShowsServerData
    DataBelongToUser
    SavedIsShown
CHECK_DEADLOCK FALSE
