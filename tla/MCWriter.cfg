\* Five results through a channel of three and batches of two: full channels,
\* half batches, and ticks in between.
CONSTANTS
    Capacity = 3
    BatchSize = 2
    MaxResults = 5
SPECIFICATION Spec
PROPERTIES
    SavesAPrefix
    SavedInTime
