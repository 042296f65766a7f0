SPECIFICATION SystemsSpec
CONSTANTS
    p1 = p1 p2 = p2 s1 = s1 s2 = s2 s3 = s3 k1 = k1 k2 = k2
    x1 = x1 x2 = x2 x3 = x3 low = low high = high odd = odd key = key
    None = None
    Procs = {c1, c2, c3}
    Publishers = {c1}
    Cleaners = {c2}
    Requests <- AllRequests
    Products = {p1, p2}
    Skus = {s1, s2, s3}
    Codes = {k1, k2}
    Sids = {x1, x2, x3}
    Prices = {low, high, odd}
    Rounded <- HighOrLow
    EqualPrices = {high}
    Keys = {key}
    InitProd <- OneProduct
    InitSku <- OneSku
    Daemons = {e1, e2}
    Records = {a, b}
    Unresolved = {b}
    Altered = {b}
    Overlap = 1
    Delay = 1
    Cadence = 1
    Lookback = 1
    LastTime = 3
    MaxChanges = 2
    Unset = Unset
    MaxCount = 3
    LastDay = 2
    MaxTries = 2
    Windows <- WindowDays
    Reasons <- ItemReasons
    Couriers = {"disputed", "other"}
    Missing = Missing
    d1 = d1 d2 = d2
    Capabilities = {"balance", "ledger", "ndr"}
    Provides <- Identities
    Supports <- Constraints
    Certified = {"balance"}
    Required <- Needs
    Descriptions = {d1, d2}
    ConceptsOf <- Concepts
    Warehouse = "warehouse"
    Balance = "balance"
    Sku = "sku"
    MaxIterations = 3
    v1 = v1 v2 = v2 other = other broken = broken
    m1 = m1 m2 = m2 a1 = a1 a2 = a2 i1 = i1 i2 = i2
    Ingesters <- TwoIngesters
    Contracts = {v1, v2, other, broken}
    SemanticKeys = {m1, m2}
    Terms = {a1, a2}
    Namespaces = {"catalog", "inventory"}
    NamespaceOf <- Space
    Declares <- Declared
    AliasesOf <- DeclaredAliases
    Relations <- DeclaredRelations
    MappedFields <- DeclaredFields
    NativeKeys <- NativeLinks
    Bootstrap = {m2}
    Absent = Absent
SYMMETRY SameIngesters
INVARIANTS
    KeyRunsOnce
    LedgerIsThePrice
    NoFalsePublished
    IssuedKeepsItsFile
    ReadyIsComplete
    NobodyIsStuck
    NothingIsMissed
    OneCopy
    CallHasGrounds
    ToldHangsTogether
    AnswersRestOnEvidence
    OnlyWholeIngestions
PROPERTIES
    NeverBack
    KeysAreKept
CHECK_DEADLOCK FALSE
