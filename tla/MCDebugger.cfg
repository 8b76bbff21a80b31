SPECIFICATION Spec
CONSTANTS
    Engine = {e1, e2}
    NoEngine = NoEngine
    Closer = Closer
    MaxServers = 2
    MaxStops = 1
    MaxUserCommands = 1
    Faults = {"bind", "accept", "drop", "error"}
    MaxFaults = 1
SYMMETRY Symmetry
INVARIANTS
    CommandsInOrder
    AnswersMatchCommands
    SinkForgetsEnded
    FlagsAreTrue
CHECK_DEADLOCK FALSE
