SPECIFICATION Spec
CONSTANTS
    Objs = {o1, o2}
    Funs = {f1}
    CycleSize = 2
    Interval = 2
    MaxDelay = 4
    MaxCalls = 3
    MaxLag = 1
    MaxPeriod = 1
    None = None
INVARIANTS TypeOK HeartListSound FindsPending
PROPERTIES ImplementsTimers ImplementsBeats RoundsEnd 
