CONSTANTS
    a = a
    b = b
    Orders = {1, 2}
    Side <- EntryAndClose
    Size <- TwoAndOne
    Price <- Paid
    Scale = 216
    Reporters = {a, b}
    Null = Null
SPECIFICATION Spec
SYMMETRY Recorders
CHECK_DEADLOCK FALSE
INVARIANTS TypeOK  PlacedWhenReported BookAddsUp
PROPERTY SettledHistoryStands
