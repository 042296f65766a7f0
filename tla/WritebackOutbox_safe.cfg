SPECIFICATION Spec
CONSTANTS
    r1 = r1 r2 = r2 e1 = e1
    None = None
    Results = {r1, r2}
    Engagements = {e1}
    EngOf <- SameEngagement
    Workers = {w1, w2}
    MaxAttempts = 2
SYMMETRY Symmetry
INVARIANTS
    DeliveredIsAnswered
PROPERTIES
    KeepsPromise
