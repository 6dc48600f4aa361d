SPECIFICATION Spec
CONSTANTS
    Robots = {}
    Pages = {"page"}
    Changing = {"terms"}
    MaxConcurrency = 1
    Retention = 1
    Authority = 2
    Grace = 1
    Duration = 1
    MaxCrashes = 1
    None = None
INVARIANTS
    TypeOK
PROPERTIES
    DeletesOnlyExpired
    Purged
    CrawlsResume
