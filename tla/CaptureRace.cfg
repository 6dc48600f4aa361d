SPECIFICATION Spec
CONSTANTS
    Robots = {}
    Pages = {"page"}
    Changing = {}
    MaxConcurrency = 1
    Retention = 1
    Authority = 3
    Grace = 1
    Duration = 1
    MaxCrashes = 0
    None = None
INVARIANTS
    LiveEvidenceKept
