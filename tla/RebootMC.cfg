SPECIFICATION Spec
CONSTANTS
    None = None
    MaxLag = 1
    MaxDown = 1
    Minute = 2
    Delays = {2}
    Order <- MCOrder
    Period <- MCPeriod
    Events = {"loop", "reboot"}
    What <- MCWhat
    Interval = 2
    Ignore = 2
    Plans = {5}
    MaxCrashes = 1
INVARIANTS TypeOK CountdownArmed
PROPERTIES OnTime  NotAgain DueEventsEnd
