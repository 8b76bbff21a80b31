SPECIFICATION LiveSpec
CONSTANTS
    Engine = {e1, e2}
    NoEngine = NoEngine
    Closer = Closer
    MaxServers = 2
    MaxStops = 1
    MaxUserCommands = 0
    Faults = {"bind", "accept", "drop", "error"}
    MaxFaults = 1
PROPERTIES
    ScriptsAreRun
    StopReturns
CHECK_DEADLOCK FALSE
