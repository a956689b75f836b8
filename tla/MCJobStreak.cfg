SPECIFICATION MCSpec
CONSTANTS
    Sides = {"schedule"}
    sched = sched
    chat = chat
    feed = feed
    business = business
    tech = tech
    noUrl = noUrl
    a = a
    b = b
    p1 = p1
    p2 = p2
    Callers = {sched, chat}
    Sched = sched
    Jobs = {feed, business, tech}
    Keys = {feed, noUrl}
    KeyOf <- MCKeyOf
    Plans <- MCPlans
    ItemUrls = {a, b}
    MaxFailures = 2
    TTL = 1
    MaxTime = 1
    MaxRestarts = 1
    SaveResults = {"ok", "kept", "torn"}
    Runs = {p1, p2}
    Senders = 2
    Threshold = 2
    MinExpected = 2
    MaxFetched = 2
    MaxAge = 1
    MaxRuns = 3
    MaxNow = 2
    Shared = Shared
    Absent = Absent
    Torn = Torn
SYMMETRY MCSymmetry
INVARIANT StreakSurvives
CHECK_DEADLOCK FALSE
