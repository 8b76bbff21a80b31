SPECIFICATION BreakpointsSpec
CONSTANTS
    MaxLines = 3
    MaxAdds = 2
    MaxMarkers = 2
    MaxCommands = 1
    MaxScripts = 0
INVARIANT
    BreakpointsFollowMarkers
CHECK_DEADLOCK FALSE
