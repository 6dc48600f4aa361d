SPECIFICATION Spec
CONSTANTS
    ana = ana
    impression = impression
    built = built
    gone = gone
    share = share
    w1 = w1
    w2 = w2
    None = None
    Workers = {w1, w2}
    Requests <- TheRequests
    Displays <- TheDisplays
    Impressions = {impression}
    Saved = {built}
    Shares = {share}
    Development = TRUE
    ImpressionTtl = 1
    ShareTtl = 1
    MaxClock = 1
    MaxOperations = 3
    MaxRestarts = 1
INVARIANT
    ExactRetriesIdempotent
SYMMETRY Threads
CHECK_DEADLOCK FALSE
