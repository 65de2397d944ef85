SPECIFICATION Spec
CONSTANTS
    s1 = s1  s2 = s2  s3 = s3  bad = bad
    Sweeps = {s1, s2, s3, bad}
    ValidSweeps = {s1, s2, s3}
    FactorySweep = s1
    Narrowed <- NarrowedTwo
    Formats = {"LogMagnitude", "Phase"}
    Scales = {"default", "other", "wrong"}
    ValidScales = {"default", "other"}
    DefaultScale = "default"
    Counts = {0, 1}
    ValidCounts = {1}
    MaxRevision = 3
INVARIANTS ReferencesHold AllSShowsAll GenerationNamesOneIdentity
CHECK_DEADLOCK FALSE
