\* Up to three points, in batches of one (batch_size 0 is read as 1) or two, under
\* every sampled pair of default tags and tag order; timestamps around 0.
SPECIFICATION Spec
CONSTANTS
    TagKey <- Keys12
    FieldKey <- Keys12
    Nanos <- Times
    NanosPerUnit = 3
    MaxPoints = 3
    Chains <- PointChains
    BatchSize = {0, 2}
    DefaultTags <- TagSets
    TagOrder <- Orders
    None = None
INVARIANTS
    TagsOfThePoint
    FieldsOfThePoint
    OneTagOrder
    BatchesCutTheInput
CHECK_DEADLOCK FALSE
