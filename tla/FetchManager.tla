---------------------------- MODULE FetchManager ----------------------------
(***************************************************************************)
(* The fetcher Manager (src/internal/fetcher/manager.go): one scheduled    *)
(* caller runs FetchAll and then reads RunFailures; chat callers run       *)
(* FetchForTopic at the same time.  They share the per-source health map   *)
(* and the last-run counters; only the scheduled caller uses the URL       *)
(* fingerprint cache, which outlives the process in a file.                *)
(* A source is named by a config ("job"); its health is kept under the     *)
(* config's URL, which several configs may share (every NewsAPI category   *)
(* has the empty URL).                                                     *)
(***************************************************************************)
EXTENDS Integers, FiniteSets

CONSTANTS
    Callers,         \* goroutines that call the manager
    Sched,           \* the scheduled pipeline, the only FetchAll caller
    Jobs,            \* fetch configs
    Keys,            \* health-map keys
    KeyOf,           \* KeyOf[j]: the URL of config j
    Plans,           \* Plans[c]: the config lists caller c may ask for
    ItemUrls,            \* item URLs, up to their fingerprint
    MaxFailures,     \* maxConsecutiveFailures
    TTL,             \* the seven-day window, in ticks
    MaxTime,         \* bound: last tick of the clock
    MaxRestarts,     \* bound: process restarts
    SaveResults      \* outcomes of writing the cache file that may happen

ASSUME CallersAssumption   == IsFiniteSet(Callers) /\ Sched \in Callers
ASSUME JobsAssumption      == IsFiniteSet(Jobs) /\ KeyOf \in [Jobs -> Keys]
ASSUME PlansAssumption     == Plans \in [Callers -> SUBSET SUBSET Jobs]
ASSUME FailuresAssumption  == MaxFailures \in Nat \ {0}
ASSUME TimeAssumption      == TTL \in Nat \ {0} /\ MaxTime \in Nat /\ MaxRestarts \in Nat
ASSUME SaveAssumption      == SaveResults \subseteq {"ok", "kept", "torn"}

None  == -1
Time  == 0 .. MaxTime
Marks == [ItemUrls -> Time \cup {None}]
Blank == [u \in ItemUrls |-> None]

VARIABLES
    clock,        \* the clock
    cache,        \* dedupCache.Entries in memory: URL -> first seen
    disk,         \* the entries the cache file would load
    fails,        \* sourceHealth[k].consecutiveFailures
    skipped,      \* sourceHealth[k].skipped
    lastRun,      \* lastRunAttempted, lastRunFailures
    phase,        \* where each caller is
    unchecked,    \* configs whose health the caller has not looked at yet
    pending,      \* jobs whose goroutine has not reported yet
    asked,        \* number of jobs of the caller's call
    errs,         \* errCount of the caller's call
    got,          \* items of the scheduled call (chat items go to the prompt)
    restarts,     \* restarts so far
    first,        \* history: when FetchAll first marked a URL it returned
    onDisk        \* history: URLs some successful save wrote and no torn one lost

health      == <<fails, skipped>>
call        == <<unchecked, pending, asked, errs, got>>
history     == <<first, onDisk>>
file        == <<cache, disk, history>>
managerVars == <<clock, file, health, lastRun, phase, call, restarts>>

ManagerInit ==
    /\ clock = 0
    /\ cache = Blank /\ disk = Blank
    /\ fails = [k \in Keys |-> 0] /\ skipped = [k \in Keys |-> FALSE]
    /\ lastRun = [attempted |-> 0, failed |-> 0]
    /\ phase = [c \in Callers |-> "idle"]
    /\ unchecked = [c \in Callers |-> {}] /\ pending = [c \in Callers |-> {}]
    /\ asked = [c \in Callers |-> 0] /\ errs = [c \in Callers |-> 0]
    /\ got = {}
    /\ restarts = 0
    /\ first = Blank /\ onDisk = {}

(* Entries are used, and survive a save, while younger than the window. *)
Fresh(t) == t # None /\ clock - t < TTL
Has(u)   == Fresh(cache[u])

InFlight(k) == {cj \in Callers \X Jobs : cj[2] \in pending[cj[1]] /\ KeyOf[cj[2]] = k}

(* Which sources the loop over the configs lets through. *)
AskableByTopic(c, j) == c # Sched \/ ~skipped[KeyOf[j]]        \* mutant: chat does not look
Askable(c, j) == ~skipped[KeyOf[j]]

(* The failure count recordSuccess leaves, and the one that disables. *)
CountDecays(n) == n - 1                                        \* mutant
CountAfterSuccess(n) == 0
DisablesLate(n) == n > MaxFailures                             \* mutant
Disables(n) == n >= MaxFailures

(* fetchConcurrent begins.  With no configs it returns at once and leaves *)
(* the last-run counters as they were; the scheduler reads them anyway.   *)
Begin(c, cfgs) ==
    /\ phase[c] = "idle"
    /\ cfgs \in Plans[c]
    /\ phase' = [phase EXCEPT ![c] =
           IF cfgs # {} THEN "building" ELSE IF c = Sched THEN "reporting" ELSE "idle"]
    /\ unchecked' = [unchecked EXCEPT ![c] = cfgs]
    /\ asked' = [asked EXCEPT ![c] = 0]
    /\ errs' = [errs EXCEPT ![c] = 0]
    /\ UNCHANGED <<clock, file, health, lastRun, pending, got, restarts>>

(* One turn of the loop that builds the jobs: isSkipped takes the health *)
(* lock for this source alone.                                           *)
ConsiderSource(c, j) ==
    /\ phase[c] = "building"
    /\ j \in unchecked[c]
    /\ unchecked' = [unchecked EXCEPT ![c] = @ \ {j}]
    /\ pending' = [pending EXCEPT ![c] = IF Askable(c, j) THEN @ \cup {j} ELSE @]
    /\ UNCHANGED <<clock, file, health, lastRun, phase, asked, errs, got, restarts>>

Launch(c) ==
    /\ phase[c] = "building"
    /\ unchecked[c] = {}
    /\ phase' = [phase EXCEPT ![c] = "fetching"]
    /\ asked' = [asked EXCEPT ![c] = Cardinality(pending[c])]
    /\ UNCHANGED <<clock, file, health, lastRun, unchecked, pending, errs, got, restarts>>

(* Fetch returned items: recordSuccess. *)
FetchOK(c, j, items) ==
    /\ phase[c] = "fetching"
    /\ j \in pending[c]
    /\ pending' = [pending EXCEPT ![c] = @ \ {j}]
    /\ got' = got \cup items
    /\ fails' = [fails EXCEPT ![KeyOf[j]] = CountAfterSuccess(@)]
    /\ skipped' = [skipped EXCEPT ![KeyOf[j]] = FALSE]
    /\ UNCHANGED <<clock, file, lastRun, phase, unchecked, asked, errs, restarts>>

(* Fetch returned an error -- the source's own, a timeout, or the caller's *)
(* cancelled context: recordFailure.                                       *)
FetchFailed(c, j) ==
    LET k == KeyOf[j]
    IN  /\ phase[c] = "fetching"
        /\ j \in pending[c]
        /\ pending' = [pending EXCEPT ![c] = @ \ {j}]
        /\ errs' = [errs EXCEPT ![c] = @ + 1]
        /\ fails' = [fails EXCEPT ![k] = @ + 1]
        /\ skipped' = [skipped EXCEPT ![k] = @ \/ Disables(fails[k] + 1)]
        /\ UNCHANGED <<clock, file, lastRun, phase, unchecked, asked, got, restarts>>

Gathered(c) == phase[c] = "fetching" /\ pending[c] = {}
AllFailed(c) == errs[c] > 0 /\ errs[c] = asked[c]     \* then there are no items

(* The call returns to its caller and its locals are gone. *)
Return(c) ==
    /\ phase' = [phase EXCEPT ![c] = "idle"]
    /\ asked' = [asked EXCEPT ![c] = 0]
    /\ errs' = [errs EXCEPT ![c] = 0]
    /\ got' = IF c = Sched THEN {} ELSE got
    /\ UNCHANGED <<unchecked, pending>>

(* "all sources failed": an error, and the counters are not touched. *)
GiveUp(c) ==
    /\ Gathered(c) /\ AllFailed(c)
    /\ Return(c)
    /\ UNCHANGED <<clock, file, health, lastRun, restarts>>

(* setRunOutcome; a scheduled call keeps the items the cache does not know. *)
Gather(c) ==
    /\ Gathered(c) /\ ~AllFailed(c)
    /\ lastRun' = [attempted |-> asked[c], failed |-> errs[c]]
    /\ \/ c # Sched /\ Return(c)
       \/ /\ c = Sched
          /\ phase' = [phase EXCEPT ![c] = "marking"]
          /\ got' = {u \in got : ~Has(u)}
          /\ UNCHANGED <<unchecked, pending, asked, errs>>
    /\ UNCHANGED <<clock, file, health, restarts>>

(* add keeps the time of an entry that is there, expired or not. *)
Added == [u \in ItemUrls |-> IF u \in got /\ cache[u] = None THEN clock ELSE cache[u]]
(* save drops expired entries from memory before it writes. *)
PrunedEarly(m) ==                                              \* mutant: a day short
    [u \in ItemUrls |-> IF m[u] # None /\ clock - m[u] < TTL - 1 THEN m[u] ELSE None]
Pruned(m) == [u \in ItemUrls |-> IF Fresh(m[u]) THEN m[u] ELSE None]
Written(m, res) == CASE res = "ok"   -> m         \* the file holds the cache
                     [] res = "kept" -> disk      \* the file could not be opened
                     [] res = "torn" -> Blank     \* cut short: it no longer parses

(* FetchAll marks what it returns, and saves only when an entry is new. *)
MarkSeen(res) ==
    /\ phase[Sched] = "marking"
    /\ first' = [u \in ItemUrls |-> IF u \in got /\ first[u] = None THEN clock ELSE first[u]]
    /\ IF Added = cache
       THEN UNCHANGED <<cache, disk, onDisk>>
       ELSE /\ cache' = Pruned(Added)
            /\ disk' = Written(cache', res)
            /\ onDisk' = CASE res = "ok"   -> {u \in ItemUrls : first'[u] # None}
                           [] res = "kept" -> onDisk
                           [] res = "torn" -> {}
    /\ phase' = [phase EXCEPT ![Sched] = "reporting"]
    /\ UNCHANGED <<clock, health, lastRun, call, restarts>>

(* RunFailures: the scheduler adds these counters to its run's TotalFailed. *)
ReadRunFailures ==
    /\ phase[Sched] = "reporting"
    /\ Return(Sched)
    /\ UNCHANGED <<clock, file, health, lastRun, restarts>>

(* The process dies anywhere and starts again: loadDedupCache.  A URL whose *)
(* mark never reached the file has no history left.                         *)
Restart ==
    /\ restarts < MaxRestarts
    /\ restarts' = restarts + 1
    /\ cache' = disk
    /\ fails' = [k \in Keys |-> 0] /\ skipped' = [k \in Keys |-> FALSE]
    /\ lastRun' = [attempted |-> 0, failed |-> 0]
    /\ phase' = [c \in Callers |-> "idle"]
    /\ unchecked' = [c \in Callers |-> {}] /\ pending' = [c \in Callers |-> {}]
    /\ asked' = [c \in Callers |-> 0] /\ errs' = [c \in Callers |-> 0]
    /\ got' = {}
    /\ first' = [u \in ItemUrls |-> IF u \in onDisk THEN first[u] ELSE None]
    /\ UNCHANGED <<clock, disk, onDisk>>

ManagerTick ==
    /\ clock < MaxTime
    /\ clock' = clock + 1
    /\ UNCHANGED <<file, health, lastRun, phase, call, restarts>>

(* What a source may list; what a chat call reads is not tracked. *)
Offers(c) == IF c = Sched THEN SUBSET ItemUrls ELSE {{}}

Step(c) ==
    \/ \E j \in Jobs : ConsiderSource(c, j)
    \/ Launch(c)
    \/ \E j \in Jobs : FetchFailed(c, j) \/ \E items \in Offers(c) : FetchOK(c, j, items)
    \/ GiveUp(c)
    \/ Gather(c)

ManagerNext ==
    \/ \E c \in Callers : (\E cfgs \in Plans[c] : Begin(c, cfgs)) \/ Step(c)
    \/ \E res \in SaveResults : MarkSeen(res)
    \/ ReadRunFailures
    \/ Restart
    \/ ManagerTick

ManagerSpec == ManagerInit /\ [][ManagerNext]_managerVars

(* Time passes, every call goes on and ends, and each is made again and *)
(* again with every config list it may have.                            *)
ManagerFairness ==
    /\ WF_managerVars(ManagerTick)
    /\ \A c \in Callers : WF_managerVars(Step(c)) /\ \A cfgs \in Plans[c] : SF_managerVars(Begin(c, cfgs))
    /\ WF_managerVars(\E res \in SaveResults : MarkSeen(res)) /\ WF_managerVars(ReadRunFailures)

-----------------------------------------------------------------------------
(* Every variable has its type. *)
ManagerTypeOK ==
    /\ clock \in Time
    /\ cache \in Marks /\ disk \in Marks /\ first \in Marks
    /\ onDisk \subseteq ItemUrls
    /\ fails \in [Keys -> Nat] /\ skipped \in [Keys -> BOOLEAN]
    /\ lastRun \in [attempted : Nat, failed : Nat]
    /\ phase \in [Callers -> {"idle", "building", "fetching", "marking", "reporting"}]
    /\ unchecked \in [Callers -> SUBSET Jobs] /\ pending \in [Callers -> SUBSET Jobs]
    /\ asked \in [Callers -> Nat] /\ errs \in [Callers -> Nat]
    /\ got \subseteq ItemUrls /\ restarts \in 0 .. MaxRestarts

(* The (caller, config) pairs that can have a request to source k under way. *)
Slots(k) == {cj \in Callers \X Jobs : KeyOf[cj[2]] = k /\ cj[2] \in UNION Plans[cj[1]]}

(* The threshold really limits how often a source that only fails is asked: *)
(* its failures and the requests still under way exceed MaxFailures - 1 by  *)
(* no more than the requests that can be under way at once, however the     *)
(* health checks of one caller fall between the failures of another.        *)
FailingSourceIsLeftAlone ==
    \A k \in Keys : fails[k] + Cardinality(InFlight(k)) <= MaxFailures - 1 + Cardinality(Slots(k))

(* A skipped source that no request is under way to stays skipped, and no   *)
(* caller asks it again, for as long as the process lives: recordSuccess is *)
(* the only code that re-enables it, and only a request reaches it.         *)
SkipIsFinal ==
    [][\A k \in Keys : skipped[k] /\ InFlight(k) = {} /\ restarts' = restarts
                          => skipped'[k] /\ InFlight(k)' = {}]_managerVars

(* "The number of consecutive fetch failures after which a source is        *)
(* temporarily skipped" (maxConsecutiveFailures), "temporarily disabled      *)
(* after too many failures" (sourceHealth.skipped): a skipped source is      *)
(* asked again some time, in a process that goes on calling.  It is not:     *)
(* only a success re-enables it and only a request could succeed.            *)
SkipIsTemporary == \A k \in Keys : skipped[k] ~> InFlight(k) # {}

(* FetchAll returns u in this step. *)
Returns(u) == phase[Sched] = "fetching" /\ phase'[Sched] = "marking" /\ u \in got'

(* In the seven days after it first returned a URL FetchAll never returns   *)
(* it again, across restarts, failed saves and saves that prune, unless the *)
(* mark was lost with the process or with the file.                         *)
FirstWindowKept == [][\A u \in ItemUrls : Returns(u) => ~Fresh(first[u])]_managerVars
=============================================================================
