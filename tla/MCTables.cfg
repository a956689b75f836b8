SPECIFICATION MCSpec
CONSTANTS
    Sides = {"backfill", "export", "sources"}
    f1 = f1
    f2 = f2
    feed1 = feed1
    feed2 = feed2
    other = other
    p1 = p1
    p2 = p2
    Fillers = {f1, f2}
    PageSize = 1
    MaxExportRows = 2
    Limit = 2
    BatchSize = 1
    Days = 1
    MaxExports = 1
    MaxId = 3
    Ranks = {0, 1, 2}
    Batches <- MCBatches
    MaxNow = 2
    Null = Null
    Urls = {feed1, feed2, other}
    Feeds <- MCFeeds
    Procs = {p1, p2}
    MaxSourceId = 4
    MaxChanges = 4
SYMMETRY MCSymmetry
INVARIANTS
    LibraryTypeOK
    TypeOK
    GoneStaysGone
PROPERTIES
    BackfillReportIsTrue
    ExportIsExact
    RunsFollowTheUser
CHECK_DEADLOCK FALSE
