\* Three options set on the way to a config, two more on a request.
SPECIFICATION Spec
CONSTANTS
    Presets <- OptionPresets
    MaxSettings = 3
    MaxCalls = 2
    Absent = Absent
INVARIANTS
    LastWordWins
    SyncAsAsked
    BuiltIsGood
CHECK_DEADLOCK FALSE
