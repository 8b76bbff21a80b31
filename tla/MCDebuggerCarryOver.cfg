SPECIFICATION Spec
CONSTANTS
    Engine = {e1, e2}
    NoEngine = NoEngine
    Closer = Closer
    MaxServers = 1
    MaxStops = 0
    MaxUserCommands = 0
    Faults = {"bind", "accept", "drop", "error"}
    MaxFaults = 0
INVARIANT
    NoCarryOver
CHECK_DEADLOCK FALSE
