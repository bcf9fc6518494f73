SPECIFICATION StockSpec
CONSTANTS
    Items = {i1}
    Quantities = {1, 2}
    Threshold = 1
    LeadTime = 14
    Cycles = {c1, c2}
    NoRow = NoRow
    MaxEvents = 3
    MaxMishaps = 1
INVARIANTS
    CaughtUp
    OneAlertPerSpell
CHECK_DEADLOCK FALSE
PROPERTY
    LowIsAlerted
