SPECIFICATION Spec
CONSTANTS
    Runs = {1, 2}
    Calls = {1, 2}
    MaxTurns = 1
    MaxActivations = 2
    MaxFaults = 1
    Faults = {"save", "extra", "summary", "model", "conflict"}
INVARIANT ObserversAgree
INVARIANT TracesEnd
PROPERTY LostOnlyAfterSilence
CHECK_DEADLOCK FALSE
