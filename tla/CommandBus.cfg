SPECIFICATION FairSpec
CONSTANTS
    a = a  b = b  d = d  w1 = w1  p1 = p1  x1 = x1  x2 = x2
    WebThreads = {w1}
    Sessions = {x1, x2}
    Takers = {p1}
    Commands <- MCCommands
    Instrument = "vna"
    Values = {a, b, d}
    InitialValue = a
    Refused = {d}
    Capacity = 2
    MaxAnswers = 4
    NoEntry = NoEntry
INVARIANTS TypeOK LeaseUntilDetach
PROPERTIES AtMostOnce SameAnswer ExpectedIsActual
CHECK_DEADLOCK FALSE
