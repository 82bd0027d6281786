\* A host without authority.
SPECIFICATION Spec
CONSTANTS
    Presets <- OptionPresets
    MaxSettings = 1
    MaxCalls = 1
    Absent = Absent
INVARIANTS
    BodyIsCloneable
CHECK_DEADLOCK FALSE
