------------------------------ MODULE Pipeline ------------------------------
(***************************************************************************)
(* One process running the pipeline again and again (runPipeline of        *)
(* src/internal/scheduler/scheduler.go): fetch, process, verify, persist,  *)
(* publish, log.  FetchAll marks an item as seen before any later stage    *)
(* has touched it, so what becomes of it afterwards is decided by one run; *)
(* that run's context may end, its database and website calls may fail,    *)
(* and the process may die between two steps.                              *)
(* Seven days later a mark counts no more, and the item may be fetched     *)
(* again.  The health of sources is FetchManager's, the retries of one     *)
(* publish and later requests on its row are Publication's.                *)
(* The website is external: it keeps one article per source URL.           *)
(***************************************************************************)
EXTENDS Integers, FiniteSets

CONSTANTS
    Items,        \* items the sources may list
    Trusted,      \* those whose domain is in TRUSTED_DOMAINS
    BatchSize,    \* maxBatchSize
    Configs       \* deployments: which of store, publisher, skipVerification are on

ASSUME ItemsAssumption   == IsFiniteSet(Items) /\ Trusted \subseteq Items
ASSUME BatchAssumption   == BatchSize \in Nat \ {0}
ASSUME ConfigsAssumption ==
    Configs \subseteq [store : BOOLEAN, publisher : BOOLEAN, skipVerification : BOOLEAN]

VARIABLES
    config,      \* the deployment
    stage,       \* next stage of the run, or "idle"
    cancelled,   \* the run's context is done
    todo,        \* fetched items ProcessBatch has not come to
    articles,    \* processed articles
    llmSkipped,  \* articles without an AI result
    verified,    \* articles with Verification.Pass
    unsent,      \* passing articles publishStage has not come to
    result,      \* the counters of RunResult
    sourceFails, \* failures that RunFailures reported to this run
    seen,        \* the fingerprint cache in memory: marks less than seven days old
    file,        \* the same of its file
    stale,       \* older marks in memory and in the file, which has() ignores and
    staleFile,   \* add() takes for marks, until a save prunes them
    table,       \* status of each item's row
    site,        \* items the website has an article for
    dropped,     \* history: fetched items removed by title dedup or keyword filter
    excused,     \* history: fetched items whose run met a fault, or has no database
    forgotten    \* history: items whose mark was lost in a restart or expired

run     == <<cancelled, todo, articles, llmSkipped, verified, unsent, result, sourceFails>>
cache   == <<seen, file, stale, staleFile>>
history == <<dropped, excused, forgotten>>
vars    == <<config, stage, run, cache, table, site, history>>

NoCounts == [fetched |-> 0, processed |-> 0, saved |-> 0, published |-> 0,
             skipped |-> 0, failed |-> 0, llmSkipped |-> 0]

Init ==
    /\ config \in Configs
    /\ stage = "idle" /\ cancelled = FALSE
    /\ todo = {} /\ articles = {} /\ llmSkipped = {} /\ verified = {} /\ unsent = {}
    /\ result = NoCounts /\ sourceFails = 0
    /\ seen = {} /\ file = {} /\ stale = {} /\ staleFile = {}
    /\ table = [i \in Items |-> "none"]
    /\ site = {}
    /\ dropped = {} /\ excused = {} /\ forgotten = {}

Stored(i) == table[i] # "none"

(* The run is over: its result is returned and its locals are gone. *)
EndRun ==
    /\ stage' = "idle" /\ cancelled' = FALSE
    /\ todo' = {} /\ articles' = {} /\ llmSkipped' = {} /\ verified' = {} /\ unsent' = {}
    /\ result' = NoCounts /\ sourceFails' = 0

-----------------------------------------------------------------------------
(* FetchAll marks the items it returns, those without an expired mark, and  *)
(* if there are any, prunes and saves the cache, which may fail or leave a  *)
(* file that does not load.                                                 *)
Marked(found) == found \ stale

Mark(found, saved) ==
    /\ seen' = seen \cup Marked(found)
    /\ IF Marked(found) = {}
       THEN UNCHANGED <<file, stale, staleFile>>
       ELSE /\ stale' = {}
            /\ file' = CASE saved = "ok" -> seen' [] saved = "kept" -> file [] saved = "torn" -> {}
            /\ staleFile' = IF saved = "kept" THEN staleFile ELSE {}

(* fetchStage.  FetchAll returns items it has not seen for seven days and   *)
(* marks them; then title dedup and the keyword filter keep some.  With     *)
(* nothing left, or with every source failed, the run is over and writes no *)
(* log.                                                                     *)
Fetch(found, kept, failures, saved) ==
    /\ stage = "idle"
    /\ found \cap seen = {}
    /\ kept \subseteq found
    /\ Mark(found, saved)
    /\ dropped' = (dropped \ found) \cup (found \ kept)
    /\ excused' = excused \ found
    /\ IF kept = {}
       THEN EndRun
       ELSE /\ stage' = "process"
            /\ todo' = kept
            /\ result' = [NoCounts EXCEPT !.fetched = Cardinality(kept), !.failed = failures]
            /\ sourceFails' = failures
            /\ UNCHANGED <<cancelled, articles, llmSkipped, verified, unsent>>
    /\ UNCHANGED <<config, table, site, forgotten>>

-----------------------------------------------------------------------------
(* Processor.ProcessBatch *)

Batches == {b \in SUBSET todo :
               Cardinality(b) = IF Cardinality(todo) < BatchSize THEN Cardinality(todo) ELSE BatchSize}

ProcessDone(arts) ==
    /\ stage' = "verify"
    /\ result' = [result EXCEPT !.processed = Cardinality(arts)]

(* One batch.  Whatever the calls, the retry, the local fallback and the    *)
(* item-by-item fallback come to, it yields AI results for some of its      *)
(* items -- none once the context is done -- and the others are degraded.   *)
ProcessBatch(b, ai) ==
    /\ stage = "process" /\ b \in Batches /\ ai \subseteq b
    /\ cancelled => articles = {} /\ ai = {}
    /\ articles' = articles \cup b
    /\ llmSkipped' = llmSkipped \cup (b \ ai)
    /\ todo' = todo \ b
    /\ IF todo' = {} THEN ProcessDone(articles') ELSE UNCHANGED <<stage, result>>
    /\ UNCHANGED <<config, cancelled, verified, unsent, sourceFails, cache, table, site, history>>

(* The context is done before the next batch: the rest is not processed. *)
ProcessCutShort ==
    /\ stage = "process" /\ cancelled /\ articles # {}
    /\ ProcessDone(articles)
    /\ excused' = excused \cup todo
    /\ todo' = {}
    /\ UNCHANGED <<config, cancelled, articles, llmSkipped, verified, unsent, sourceFails,
                   cache, table, site, dropped, forgotten>>

-----------------------------------------------------------------------------
(* verifyStage.  An untrusted article passes on its credibility score,      *)
(* which is zero without an AI result.                                      *)
ScoreMayPass == articles \ (Trusted \cup llmSkipped)

PassingOfVerified(v) == v                            \* mutant: LLMSkipped not looked at
Passing(v) == v \ llmSkipped
SkippedTwice(v) ==                                   \* mutant: no continue when LLMSkipped
    Cardinality(llmSkipped) + Cardinality(articles \ Passing(v))
Skipped(v) == Cardinality(articles \ Passing(v))

Verify(scored) ==
    /\ stage = "verify" /\ scored \subseteq ScoreMayPass
    /\ verified' = IF config.skipVerification THEN articles ELSE (articles \cap Trusted) \cup scored
    /\ unsent' = Passing(verified')
    /\ result' = [result EXCEPT !.llmSkipped = Cardinality(llmSkipped),
                                !.skipped = Skipped(verified')]
    /\ stage' = "persist"
    /\ UNCHANGED <<config, cancelled, todo, articles, llmSkipped, sourceFails,
                   cache, table, site, history>>

-----------------------------------------------------------------------------
(* persistStage: SaveArticles sends one batch of INSERT ... ON CONFLICT DO  *)
(* NOTHING, which the database runs as one transaction.                     *)
StatusOf(i) == IF i \in llmSkipped \/ i \notin verified THEN "skipped" ELSE "pending"

SavedOnlyPassing == Passing(verified)                \* mutant: the passing articles alone
Saved == articles
TableAfterSave == [i \in Items |-> IF i \in Saved /\ ~Stored(i) THEN StatusOf(i) ELSE table[i]]

PersistOff ==
    /\ stage = "persist" /\ ~config.store
    /\ stage' = "publish"
    /\ excused' = excused \cup articles
    /\ UNCHANGED <<config, run, cache, table, site, dropped, forgotten>>

Persist ==
    /\ stage = "persist" /\ config.store /\ ~cancelled
    /\ stage' = "publish"
    /\ result' = [result EXCEPT !.saved = Cardinality({i \in Saved : ~Stored(i)})]
    /\ table' = TableAfterSave
    /\ UNCHANGED <<config, cancelled, todo, articles, llmSkipped, verified, unsent, sourceFails,
                   cache, site, history>>

(* An insert fails and no row stays, or the reply is lost after the commit; *)
(* what was counted before the error is reported as saved all the same.     *)
(* The error is logged and the run goes on.                                 *)
PersistFailed(counted, committed) ==
    /\ stage = "persist" /\ config.store
    /\ counted < Cardinality(articles)
    /\ counted <= Cardinality({i \in articles : ~Stored(i)})
    /\ stage' = "publish"
    /\ result' = [result EXCEPT !.saved = counted]
    /\ table' = IF committed THEN TableAfterSave ELSE table
    /\ excused' = IF committed THEN excused ELSE excused \cup {i \in articles : ~Stored(i)}
    /\ UNCHANGED <<config, cancelled, todo, articles, llmSkipped, verified, unsent, sourceFails,
                   cache, site, dropped, forgotten>>

-----------------------------------------------------------------------------
(* publishStage, one article: 2xx; 409, which a retry also gets after a     *)
(* reply that was lost; or a failure, before or after the website stored    *)
(* it.  Once the context is done there is no reply to wait for.             *)
CountPublished == [result EXCEPT !.published = @ + 1]
CountDuplicateNot == result                          \* mutant
CountDuplicate == [result EXCEPT !.skipped = @ + 1]
CountFailed == [result EXCEPT !.failed = @ + 1]

Publish(i) ==
    /\ stage = "publish" /\ config.publisher /\ i \in unsent
    /\ unsent' = unsent \ {i}
    /\ \/ ~cancelled /\ i \notin site /\ result' = CountPublished /\ site' = site \cup {i}
       \/ ~cancelled /\ result' = CountDuplicate /\ site' = site \cup {i}
       \/ result' = CountFailed /\ site' \in {site, site \cup {i}}
    /\ UNCHANGED <<config, stage, cancelled, todo, articles, llmSkipped, verified, sourceFails,
                   cache, table, history>>

PublishDrained ==                                    \* mutant: nil publisher not looked at
    /\ stage = "publish" /\ unsent = {}
    /\ stage' = "log"
    /\ UNCHANGED <<config, run, cache, table, site, history>>
PublishDone ==
    /\ stage = "publish" /\ (unsent = {} \/ ~config.publisher)
    /\ stage' = "log"
    /\ UNCHANGED <<config, run, cache, table, site, history>>

(* logRunSummary, notifyStage and trackFailure; FetchApi keeps the log.     *)
Finish ==
    /\ stage = "log"
    /\ EndRun
    /\ UNCHANGED <<config, cache, table, site, history>>

-----------------------------------------------------------------------------
(* The deadline, or the client of a streamed run goes away. *)
Cancel ==
    /\ stage # "idle" /\ ~cancelled
    /\ cancelled' = TRUE
    /\ UNCHANGED <<config, stage, todo, articles, llmSkipped, verified, unsent, result, sourceFails,
                   cache, table, site, history>>

(* The process dies and starts again with the marks in the file. *)
Restart ==
    /\ EndRun
    /\ seen' = file /\ stale' = staleFile
    /\ excused' = excused \cup {i \in todo \cup articles : ~Stored(i)}
    /\ forgotten' = forgotten \cup (seen \ file)
    /\ UNCHANGED <<config, file, staleFile, table, site, dropped>>

(* A mark is seven days old, in memory and in the file, which has it from   *)
(* the same run.  No run takes that long.                                   *)
Expire(i) ==
    /\ i \in seen \ (todo \cup articles)
    /\ seen' = seen \ {i} /\ stale' = stale \cup {i}
    /\ file' = file \ {i}
    /\ staleFile' = IF i \in file THEN staleFile \cup {i} ELSE staleFile
    /\ forgotten' = forgotten \cup {i}
    /\ UNCHANGED <<config, stage, run, table, site, dropped, excused>>

Step ==
    \/ \E b \in SUBSET Items : \E ai \in SUBSET b : ProcessBatch(b, ai)
    \/ ProcessCutShort
    \/ \E scored \in SUBSET Items : Verify(scored)
    \/ PersistOff
    \/ Persist
    \/ \E counted \in 0 .. Cardinality(Items), committed \in BOOLEAN : PersistFailed(counted, committed)
    \/ \E i \in Items : Publish(i)
    \/ PublishDone
    \/ Finish

Next ==
    \/ \E found \in SUBSET Items : \E kept \in SUBSET found, failures \in {0, 1},
                                      saved \in {"ok", "kept", "torn"} :
           Fetch(found, kept, failures, saved)
    \/ Step
    \/ Cancel
    \/ Restart
    \/ \E i \in Items : Expire(i)

Spec == Init /\ [][Next]_vars

(* Every call a stage makes has a timeout, so a run that is under way goes on. *)
Fairness == WF_vars(Step)

-----------------------------------------------------------------------------
Count == 0 .. Cardinality(Items)

(* Every variable has its type. *)
TypeOK ==
    /\ config \in Configs
    /\ stage \in {"idle", "process", "verify", "persist", "publish", "log"}
    /\ cancelled \in BOOLEAN
    /\ \A s \in {todo, articles, llmSkipped, verified, unsent, seen, file, stale,
                 staleFile, site, dropped, excused, forgotten} : s \subseteq Items
    /\ result \in [fetched : Count, processed : Count, saved : Count, published : Count,
                   skipped : Count, failed : 0 .. Cardinality(Items) + 1, llmSkipped : Count]
    /\ sourceFails \in {0, 1}
    /\ table \in [Items -> {"none", "pending", "skipped"}]

(* The counters of a finished run account for every processed article once: *)
(* published, skipped or failed -- a source's failure counted apart, and a  *)
(* passing article not at all when nothing is published -- and all fetched  *)
(* articles were processed unless the run was cut short.                    *)
EveryArticleCounted ==
    stage = "log" =>
        /\ result.processed = result.published + result.skipped + (result.failed - sourceFails)
                              + (IF config.publisher THEN 0 ELSE Cardinality(unsent))
        /\ result.fetched = result.processed \/ cancelled

(* Between runs, an item marked as seen, which no run will look at until    *)
(* the mark expires, has a row or was filtered out on purpose, unless the   *)
(* run that fetched it met a fault.                                         *)
LossNeedsFault ==
    stage = "idle" => \A i \in seen : Stored(i) \/ i \in dropped \cup excused

(* verifyStage chooses what is published and articleStatus what a row says, *)
(* by two computations, and a row keeps the status of its first run: an     *)
(* item the website has is not "skipped" in the table, unless a second run  *)
(* could fetch it because its mark was lost or has expired.                 *)
SiteAgreesWithTable ==
    \A i \in site : table[i] = "skipped" => i \in forgotten

(* A run that began ends. *)
RunsEnd == stage # "idle" ~> stage = "idle"
=============================================================================
