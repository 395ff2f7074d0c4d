SPECIFICATION Spec
CONSTANTS
    c1 = c1  c2 = c2  ch1 = ch1  ch2 = ch2
    Commands = {c1, c2}
    Changes = {ch1, ch2}
    MaxStarts = 3
    MaxFaults = 1
SYMMETRY Symmetry
INVARIANTS TypeOK PromotesAccepted CompletedIsShipped
PROPERTY ReleasesItsSlot
CHECK_DEADLOCK FALSE
