\* Halving, dividing by four and stepping down by one all differ.
CONSTANTS
    MaxN = 5
    StallTicks = 2
    StallHold = 2
    HoldOff = 1
    Divisor = 4
SPECIFICATION Spec
PROPERTIES FreezeNeverShortened ThrottleHolds RampsBack
