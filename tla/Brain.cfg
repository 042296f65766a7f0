SPECIFICATION BrainSpec
CONSTANTS
    famA = famA famB = famB big = big onePack = onePack low = low high = high
    r1 = r1 r2 = r2
    Chats = {m1, m2}
    Codes = {famA, famB}
    Sizes = {big}
    Packs = {onePack}
    Numbers = {low, high}
    InBounds = {low}
    Refs = {r1, r2}
    Contents <- Versions
    OnRecord <- Both
    Proposals <- Answers
    UniformMrp = TRUE
    NoValue = NoValue
    Turns = {t1, t2, t3}
    Sessions = {a, b}
    Nonces = {n1}
    Candidates = 2
    None = None
SYMMETRY Interchangeable
INVARIANTS
    ReusedIsBacked
    NoBareProposal
    OneFamilyPerRequest
    ExecutedWasConfirmed
PROPERTIES
    KeepsConsent
CHECK_DEADLOCK FALSE
