--------------------------- MODULE Pipeline_proofs ---------------------------
(***************************************************************************)
(* What becomes of an item once FetchAll has marked it as seen, for any     *)
(* set of items, any deployment and any number of runs, faults and crashes; *)
(* and what the counters of a finished run say of its articles. At the end *)
(* there is what the run does with its items before: the merge, the filter *)
(* and the pages of Intake.                                                *)
(***************************************************************************)
EXTENDS Pipeline, Intake, FiniteSetTheorems, WellFoundedInduction, SequenceTheorems, TLAPS

(* The types of everything but the counters. *)
Shape ==
    /\ stage \in {"idle", "process", "verify", "persist", "publish", "log"}
    /\ todo \subseteq Items /\ articles \subseteq Items
    /\ seen \subseteq Items /\ file \subseteq seen
    /\ stale \subseteq Items /\ staleFile \subseteq Items
    /\ site \subseteq Items
    /\ table \in [Items -> {"none", "pending", "skipped"}]
    /\ stage \in {"verify", "persist"} => todo = {}
    /\ stage = "idle" => todo = {} /\ articles = {}
    /\ unsent \subseteq articles
    /\ stage \in {"persist", "publish"} => unsent \subseteq verified \ llmSkipped

(* The run that has the item has not come to the point of saving it. *)
BeforeSave == stage \in {"process", "verify", "persist"}
Underway(i) == BeforeSave /\ i \in todo \cup articles

(* An item marked as seen has a row, was filtered, met a fault, or is still *)
(* on its way to be saved.                                                  *)
SeenIsAccounted == \A i \in seen : Stored(i) \/ i \in dropped \cup excused \/ Underway(i)

(* An item that has a row or is on the website is marked as seen, or its    *)
(* mark was lost or has expired, as all marks did that are too old.         *)
KnownIsSeen ==
    /\ \A i \in Items : Stored(i) \/ i \in site => i \in seen \cup forgotten
    /\ stale \cup staleFile \subseteq forgotten

(* A run's items are marked, or an expired mark keeps them from it, and     *)
(* those with a row or on the website before the run saves them are there   *)
(* because an earlier mark was lost or has expired.                         *)
RunIsFresh ==
    /\ todo \cup articles \subseteq seen \cup forgotten
    /\ \A i \in Items : Underway(i) /\ (Stored(i) \/ i \in site) => i \in forgotten
    /\ stage = "publish" => \A i \in unsent : table[i] = "skipped" => i \in forgotten

(* The inductive invariant. *)
IInv == Shape /\ SeenIsAccounted /\ KnownIsSeen /\ RunIsFresh /\ SiteAgreesWithTable

LEMMA InitIInv == Init => IInv
  BY DEF Init, IInv, Shape, SeenIsAccounted, KnownIsSeen, RunIsFresh, SiteAgreesWithTable,
         Underway, BeforeSave, Stored

(* Stages that touch neither the marks nor the rows nor the website. *)
LEMMA QuietStep ==
  ASSUME IInv, Shape', UNCHANGED <<cache, table, site, dropped, forgotten>>,
         excused \subseteq excused',
         todo' \cup articles' \subseteq todo \cup articles,
         \A i \in todo \cup articles :
            Underway(i) => Underway(i)' \/ Stored(i) \/ i \in excused',
         \A i \in todo' \cup articles' : Underway(i)' => Underway(i),
         stage' = "publish" => \A i \in unsent' : table[i] = "skipped" => i \in forgotten
  PROVE  IInv'
<1> USE DEF IInv, cache, Stored
<1>1. SeenIsAccounted'
  BY DEF SeenIsAccounted, Underway
<1>2. KnownIsSeen' /\ SiteAgreesWithTable'
  BY DEF KnownIsSeen, SiteAgreesWithTable
<1>3. RunIsFresh'
  BY DEF RunIsFresh, Underway
<1>. QED BY <1>1, <1>2, <1>3

(* A fetch takes only items without a mark that counts, and marks those *)
(* without an expired one.                                              *)
LEMMA FetchKeeps ==
  ASSUME IInv, NEW found \in SUBSET Items, NEW kept \in SUBSET found, NEW failures,
         NEW saved \in {"ok", "kept", "torn"}, Fetch(found, kept, failures, saved)
  PROVE  IInv'
<1> USE DEF IInv, Stored
<1>1. /\ found \cap seen = {} /\ kept \subseteq found
      /\ seen' = seen \cup (found \ stale) /\ file' \subseteq seen'
      /\ stale' \subseteq stale /\ staleFile' \subseteq staleFile
      /\ dropped' = (dropped \ found) \cup (found \ kept) /\ excused' = excused \ found
      /\ table' = table /\ site' = site /\ forgotten' = forgotten
      /\ stage = "idle" /\ todo = {} /\ articles = {} /\ unsent = {}
  BY DEF Fetch, Mark, Marked, Shape
<1>2. todo' \cup articles' = kept /\ articles' = {} /\ unsent' = {}
  BY <1>1 DEF Fetch, EndRun
<1>3. IF kept = {} THEN stage' = "idle" ELSE stage' = "process"
  BY DEF Fetch, EndRun
<1>4. Shape'
  BY <1>1, <1>2, <1>3 DEF Shape
<1>5. SeenIsAccounted'
  <2>1. ~BeforeSave
    BY <1>1 DEF BeforeSave
  <2>2. \A i \in seen : Stored(i) \/ i \in dropped \cup excused
    BY <2>1 DEF SeenIsAccounted, Underway
  <2>3. \A i \in kept : Underway(i)'
    BY <1>2, <1>3 DEF Underway, BeforeSave
  <2>4. \A i \in found : i \in kept \/ i \in dropped'
    BY <1>1
  <2>. QED BY <1>1, <2>2, <2>3, <2>4 DEF SeenIsAccounted
<1>6. KnownIsSeen' /\ SiteAgreesWithTable'
  BY <1>1 DEF KnownIsSeen, SiteAgreesWithTable
<1>7. RunIsFresh'
  BY <1>1, <1>2, <1>3 DEF RunIsFresh, Underway, KnownIsSeen
<1>. QED BY <1>4, <1>5, <1>6, <1>7

(* Saving: what has no row yet gets the status of this run. *)
LEMMA SaveKeeps ==
  ASSUME IInv, stage = "persist", stage' = "publish", table' = TableAfterSave,
         UNCHANGED <<cache, site, dropped, forgotten, excused, todo, articles, llmSkipped,
                     verified, unsent>>
  PROVE  IInv'
<1> USE DEF IInv, Stored, cache
<1>1. /\ todo = {} /\ articles \subseteq Items
      /\ table' = [i \in Items |-> IF i \in articles /\ ~Stored(i) THEN StatusOf(i) ELSE table[i]]
      /\ \A i \in Items : StatusOf(i) \in {"pending", "skipped"}
  BY DEF Shape, TableAfterSave, Saved, StatusOf
<1>2. Shape'
  BY <1>1 DEF Shape
<1>3. /\ \A i \in Items : Stored(i) \/ i \notin articles => table'[i] = table[i]
      /\ \A i \in articles : table'[i] # "none"
  BY <1>1 DEF Shape
<1>4. \A i \in articles : Underway(i)
  BY DEF Underway, BeforeSave
<1>5. SeenIsAccounted'
  BY <1>1, <1>3 DEF SeenIsAccounted, Underway, Shape
<1>6. KnownIsSeen' /\ SiteAgreesWithTable'
  BY <1>1, <1>3, <1>4 DEF KnownIsSeen, SiteAgreesWithTable, RunIsFresh, Shape
<1>7. RunIsFresh'
  <2>1. \A i \in unsent : StatusOf(i) = "pending"
    BY DEF Shape, StatusOf
  <2>2. \A i \in unsent : table'[i] = "skipped" => i \in forgotten
    BY <1>1, <1>4, <2>1 DEF Shape, RunIsFresh
  <2>3. \A i \in Items : ~Underway(i)'
    BY DEF Underway, BeforeSave
  <2>. QED BY <2>2, <2>3 DEF RunIsFresh
<1>. QED BY <1>2, <1>5, <1>6, <1>7

(* Publishing: an article the run passed has a pending row, or none. *)
LEMMA PublishKeeps == ASSUME IInv, NEW i \in Items, Publish(i) PROVE IInv'
<1> USE DEF IInv, Stored
<1>1. /\ stage = "publish" /\ stage' = stage /\ i \in unsent /\ unsent' = unsent \ {i}
      /\ site \subseteq site' /\ site' \subseteq site \cup {i}
      /\ UNCHANGED <<cache, table, history, todo, articles, llmSkipped, verified>>
  BY DEF Publish
<1>2. Shape' /\ ~BeforeSave /\ ~BeforeSave'
  BY <1>1 DEF Shape, cache, BeforeSave
<1>3. i \in seen \cup forgotten /\ (table[i] = "skipped" => i \in forgotten)
  BY <1>1 DEF RunIsFresh, Shape
<1>4. SeenIsAccounted' /\ KnownIsSeen' /\ SiteAgreesWithTable'
  BY <1>1, <1>2, <1>3
  DEF SeenIsAccounted, KnownIsSeen, SiteAgreesWithTable, Underway, cache, history
<1>5. RunIsFresh'
  BY <1>1, <1>2 DEF RunIsFresh, Underway, cache, history
<1>. QED BY <1>2, <1>4, <1>5

(* A crash: what was not saved met a fault, what only memory knew is gone. *)
LEMMA RestartKeeps == ASSUME IInv, Restart PROVE IInv'
<1> USE DEF IInv, Stored
<1>1. /\ stage' = "idle" /\ todo' = {} /\ articles' = {} /\ unsent' = {}
      /\ seen' = file /\ file' = file /\ stale' = staleFile /\ staleFile' = staleFile
      /\ table' = table /\ site' = site /\ dropped' = dropped
      /\ excused' = excused \cup {i \in todo \cup articles : ~Stored(i)}
      /\ forgotten' = forgotten \cup (seen \ file)
  BY DEF Restart, EndRun
<1>2. Shape'
  BY <1>1 DEF Shape
<1>3. SeenIsAccounted'
  BY <1>1 DEF SeenIsAccounted, Underway, Shape
<1>4. KnownIsSeen' /\ SiteAgreesWithTable'
  BY <1>1 DEF KnownIsSeen, SiteAgreesWithTable
<1>5. RunIsFresh'
  BY <1>1 DEF RunIsFresh, Underway, BeforeSave
<1>. QED BY <1>2, <1>3, <1>4, <1>5

(* A mark expires: none of a run that is under way. *)
LEMMA ExpireKeeps == ASSUME IInv, NEW i \in Items, Expire(i) PROVE IInv'
<1> USE DEF IInv, Stored
<1>1. /\ i \notin todo \cup articles /\ seen' = seen \ {i} /\ file' = file \ {i}
      /\ stale' = stale \cup {i} /\ staleFile' \subseteq staleFile \cup {i}
      /\ forgotten' = forgotten \cup {i}
      /\ UNCHANGED <<stage, todo, articles, llmSkipped, verified, unsent, table, site,
                     dropped, excused>>
  BY DEF Expire, run
<1>2. Shape'
  BY <1>1 DEF Shape
<1>3. SeenIsAccounted'
  BY <1>1 DEF SeenIsAccounted, Underway, BeforeSave
<1>4. KnownIsSeen' /\ SiteAgreesWithTable'
  BY <1>1 DEF KnownIsSeen, SiteAgreesWithTable
<1>5. RunIsFresh'
  BY <1>1 DEF RunIsFresh, Underway, BeforeSave
<1>. QED BY <1>2, <1>3, <1>4, <1>5

(* Every step keeps the invariant. *)
LEMMA NextIInv == IInv /\ [Next]_vars => IInv'
<1> SUFFICES ASSUME IInv, [Next]_vars PROVE IInv'
  OBVIOUS
<1>0. Shape /\ RunIsFresh
  BY DEF IInv
<1> USE DEF Underway, BeforeSave
<1>1. ASSUME NEW found \in SUBSET Items, NEW kept \in SUBSET found, NEW failures \in {0, 1},
             NEW saved \in {"ok", "kept", "torn"}, Fetch(found, kept, failures, saved)
      PROVE  IInv'
  BY <1>1, FetchKeeps
<1>2. ASSUME NEW b \in SUBSET Items, NEW ai \in SUBSET b, ProcessBatch(b, ai) PROVE IInv'
  <2>1. /\ stage = "process" /\ b \subseteq todo /\ articles' = articles \cup b /\ todo' = todo \ b
        /\ UNCHANGED <<verified, unsent, cache, table, site, history>>
        /\ IF todo' = {} THEN stage' = "verify" ELSE stage' = stage
    BY <1>2 DEF ProcessBatch, Batches, ProcessDone
  <2>2. Shape'
    BY <1>0, <2>1 DEF Shape, cache
  <2>. QED BY <2>1, <2>2, QuietStep DEF history
<1>3. ASSUME ProcessCutShort PROVE IInv'
  <2>1. /\ stage = "process" /\ stage' = "verify" /\ todo' = {} /\ excused' = excused \cup todo
        /\ UNCHANGED <<articles, llmSkipped, verified, unsent, cache, table, site, dropped, forgotten>>
    BY <1>3 DEF ProcessCutShort, ProcessDone
  <2>2. Shape'
    BY <1>0, <2>1 DEF Shape, cache
  <2>. QED BY <2>1, <2>2, QuietStep
<1>4. ASSUME NEW scored \in SUBSET Items, Verify(scored) PROVE IInv'
  <2>1. /\ stage = "verify" /\ stage' = "persist" /\ verified' \subseteq articles
        /\ unsent' = verified' \ llmSkipped
        /\ UNCHANGED <<todo, articles, llmSkipped, cache, table, site, history>>
    BY <1>4 DEF Verify, ScoreMayPass, Passing
  <2>2. Shape'
    BY <1>0, <2>1 DEF Shape, cache
  <2>. QED BY <2>1, <2>2, QuietStep DEF history
<1>5. ASSUME PersistOff PROVE IInv'
  <2>1. /\ stage = "persist" /\ stage' = "publish" /\ excused' = excused \cup articles
        /\ UNCHANGED <<run, cache, table, site, dropped, forgotten>>
    BY <1>5 DEF PersistOff
  <2>2. Shape'
    BY <1>0, <2>1 DEF Shape, cache, run
  <2>3. todo = {} /\ \A i \in unsent : table[i] = "skipped" => i \in forgotten
    BY <1>0, <2>1 DEF Shape, RunIsFresh, Stored
  <2>. QED BY <2>1, <2>2, <2>3, QuietStep DEF run
<1>6. ASSUME Persist PROVE IInv'
  BY <1>6, SaveKeeps DEF Persist, history
<1>7. ASSUME NEW counted \in 0 .. Cardinality(Items), NEW committed \in BOOLEAN,
             PersistFailed(counted, committed)
      PROVE  IInv'
  <2>1. CASE committed
    BY <1>7, <2>1, SaveKeeps DEF PersistFailed
  <2>2. CASE ~committed
    <3>1. /\ stage = "persist" /\ stage' = "publish" /\ table' = table
          /\ excused' = excused \cup {i \in articles : ~Stored(i)}
          /\ UNCHANGED <<todo, articles, llmSkipped, verified, unsent, cache, site, dropped, forgotten>>
      BY <1>7, <2>2 DEF PersistFailed
    <3>2. Shape'
      BY <1>0, <3>1 DEF Shape, cache
    <3>3. todo = {} /\ \A i \in unsent : table[i] = "skipped" => i \in forgotten
      BY <1>0, <3>1 DEF Shape, RunIsFresh, Stored
    <3>. QED BY <3>1, <3>2, <3>3, QuietStep
  <2>. QED BY <2>1, <2>2
<1>8. ASSUME NEW i \in Items, Publish(i) PROVE IInv'
  BY <1>8, PublishKeeps
<1>9. ASSUME PublishDone \/ Finish PROVE IInv'
  <2>1. /\ stage \in {"publish", "log"} /\ stage' \in {"log", "idle"}
        /\ todo' \cup articles' \subseteq todo \cup articles
        /\ UNCHANGED <<cache, table, site, history>>
    BY <1>9 DEF PublishDone, Finish, EndRun, run
  <2>2. Shape'
    BY <1>0, <1>9, <2>1 DEF Shape, PublishDone, Finish, EndRun, run, cache
  <2>. QED BY <2>1, <2>2, QuietStep DEF history
<1>10. ASSUME Cancel \/ UNCHANGED vars PROVE IInv'
  <2>1. UNCHANGED <<stage, todo, articles, llmSkipped, verified, unsent, cache, table, site, history>>
    BY <1>10 DEF Cancel, vars, run
  <2>2. Shape'
    BY <1>0, <2>1 DEF Shape, cache
  <2>. QED BY <1>0, <2>1, <2>2, QuietStep DEF history, RunIsFresh
<1>11. ASSUME Restart PROVE IInv'
  BY <1>11, RestartKeeps
<1>12. ASSUME NEW i \in Items, Expire(i) PROVE IInv'
  BY <1>12, ExpireKeeps
<1>. QED
  BY <1>1, <1>2, <1>3, <1>4, <1>5, <1>6, <1>7, <1>8, <1>9, <1>10, <1>11, <1>12 DEF Next, Step

(* The inductive invariant holds in every reachable state. *)
THEOREM Invariance == Spec => []IInv
  BY InitIInv, NextIInv, PTL DEF Spec

(* An item marked as seen whose run is over has a row, was filtered out, or *)
(* met a fault: marking before processing loses nothing else.               *)
THEOREM NothingIsLost == Spec => []LossNeedsFault
<1>1. IInv => LossNeedsFault
  BY DEF IInv, SeenIsAccounted, Underway, BeforeSave, LossNeedsFault
<1>. QED BY <1>1, Invariance, PTL

(* The website holds no article whose row says it was skipped, unless the   *)
(* mark that keeps an item from a second run was lost or has expired.       *)
THEOREM SiteAgrees == Spec => []SiteAgreesWithTable
<1>1. IInv => SiteAgreesWithTable
  BY DEF IInv
<1>. QED BY <1>1, Invariance, PTL
-----------------------------------------------------------------------------
(* The counters of a run *)

N == Cardinality(Items)

LEMMA Sizes ==
  ASSUME NEW S \in SUBSET Items
  PROVE  /\ IsFiniteSet(S) /\ Cardinality(S) \in 0 .. N /\ N \in Nat
         /\ Cardinality(S) = 0 <=> S = {}
  BY ItemsAssumption, FS_Subset, FS_CardinalityType, FS_EmptySet DEF N

(* A part of a set and the rest of it. *)
LEMMA Parts ==
  ASSUME NEW S \in SUBSET Items, NEW T \in SUBSET S
  PROVE  Cardinality(S \ T) = Cardinality(S) - Cardinality(T)
<1>1. S \cap T = T /\ IsFiniteSet(S)
  BY Sizes
<1>2. Cardinality(S \ T) = Cardinality(S) - Cardinality(S \cap T)
  BY <1>1, FS_Difference
<1>. QED BY <1>1, <1>2

(* Two sets that have nothing in common. *)
LEMMA Joined ==
  ASSUME NEW S \in SUBSET Items, NEW T \in SUBSET Items, S \cap T = {}
  PROVE  Cardinality(S \cup T) = Cardinality(S) + Cardinality(T)
<1>1. IsFiniteSet(S) /\ IsFiniteSet(T) /\ Cardinality(S) \in Nat /\ Cardinality(T) \in Nat
  BY Sizes
<1>2. Cardinality(S \cap T) = 0
  BY FS_EmptySet
<1>3. Cardinality(S \cup T) = Cardinality(S) + Cardinality(T) - Cardinality(S \cap T)
  BY <1>1, FS_Union
<1>. QED BY <1>1, <1>2, <1>3

(* The types that Shape leaves out, but for the counters. *)
Rest ==
    /\ config \in Configs /\ cancelled \in BOOLEAN /\ sourceFails \in {0, 1}
    /\ llmSkipped \subseteq Items /\ verified \subseteq Items
    /\ dropped \subseteq Items /\ excused \subseteq Items /\ forgotten \subseteq Items

Results == [fetched : Count, processed : Count, saved : Count, published : Count,
            skipped : Count, failed : 0 .. N + 1, llmSkipped : Count]

(* What each stage has counted.  Before the publish stage only failures of  *)
(* sources have; from the persist stage on, an article that is not counted  *)
(* as published, skipped or failed is one the publish stage has to come to. *)
Unpublished == result.published = 0 /\ result.failed = sourceFails
ProcessLedger ==
    stage = "process" =>
        /\ todo \cap articles = {} /\ todo # {}
        /\ result.fetched = Cardinality(todo) + Cardinality(articles)
        /\ result.skipped = 0
ArticleLedger ==
    stage \in {"verify", "persist", "publish", "log"} =>
        /\ result.processed = Cardinality(articles)
        /\ result.fetched = result.processed \/ cancelled
UnsentLedger ==
    stage \in {"persist", "publish", "log"} =>
        /\ result.failed >= sourceFails
        /\ Cardinality(articles) = result.published + result.skipped
                                       + (result.failed - sourceFails) + Cardinality(unsent)
Ledger ==
    /\ result \in Results
    /\ stage \in {"process", "verify", "persist"} => Unpublished
    /\ ProcessLedger /\ ArticleLedger /\ UnsentLedger
    /\ stage = "log" /\ config.publisher => unsent = {}

LEMMA NoCountsType == NoCounts \in Results /\ \A n \in Count, f \in {0, 1} :
                          [NoCounts EXCEPT !.fetched = n, !.failed = f] \in Results
<1>1. 0 \in Count /\ 0 \in 0 .. N + 1 /\ 1 \in 0 .. N + 1
  BY Sizes DEF Count, N
<1>2. NoCounts \in Results
  BY <1>1 DEF NoCounts, Results
<1>3. ASSUME NEW n \in Count, NEW f \in {0, 1}
      PROVE  [NoCounts EXCEPT !.fetched = n, !.failed = f] \in Results
  <2>1. f \in 0 .. N + 1
    BY <1>1
  <2> DEFINE after == [NoCounts EXCEPT !.fetched = n]
  <2>2. after \in Results
    BY <1>2 DEF Results
  <2>3. [after EXCEPT !.failed = f] \in Results
    BY <2>1, <2>2 DEF Results
  <2>4. [NoCounts EXCEPT !.fetched = n, !.failed = f] = [after EXCEPT !.failed = f]
    OBVIOUS
  <2>. QED BY <2>3, <2>4
<1>. QED BY <1>2, <1>3

LEMMA InitLedger == Init => Rest /\ Ledger
<1> SUFFICES ASSUME Init PROVE Rest /\ Ledger
  OBVIOUS
<1>1. result \in Results
  BY NoCountsType DEF Init
<1>. QED
  BY <1>1 DEF Init, Rest, Ledger, ProcessLedger, ArticleLedger, UnsentLedger

(* A run that is over has no counters. *)
LEMMA EndKeeps ==
  ASSUME Rest, EndRun, UNCHANGED config,
         dropped' \subseteq Items, excused' \subseteq Items, forgotten' \subseteq Items
  PROVE  Rest' /\ Ledger'
<1>1. Rest'
  BY DEF Rest, EndRun
<1>2. result' \in Results
  BY NoCountsType DEF EndRun
<1>. QED BY <1>1, <1>2 DEF EndRun, Ledger, ProcessLedger, ArticleLedger, UnsentLedger

LEMMA FetchCounts ==
  ASSUME Shape, Rest, NEW found \in SUBSET Items, NEW kept \in SUBSET found,
         NEW failures \in {0, 1}, NEW saved, Fetch(found, kept, failures, saved)
  PROVE  Rest' /\ Ledger'
<1>1. /\ dropped' \subseteq Items /\ excused' \subseteq Items /\ forgotten' \subseteq Items
      /\ config' = config
  BY DEF Fetch, Rest
<1>2. CASE kept = {}
  BY <1>1, <1>2, EndKeeps DEF Fetch
<1>3. CASE kept # {}
  <2>1. /\ stage' = "process" /\ todo' = kept /\ articles' = {}
        /\ result' = [NoCounts EXCEPT !.fetched = Cardinality(kept), !.failed = failures]
        /\ sourceFails' = failures /\ UNCHANGED <<cancelled, llmSkipped, verified>>
    BY <1>3 DEF Fetch, Shape
  <2>2. Cardinality(kept) \in Count /\ Cardinality(kept) \in Nat /\ Cardinality({}) = 0
    BY Sizes DEF Count, N
  <2>3. /\ result'.fetched = Cardinality(kept) /\ result'.failed = failures
        /\ result'.published = 0 /\ result'.skipped = 0
    BY <2>1 DEF NoCounts
  <2>4. result' \in Results
    BY <2>1, <2>2, NoCountsType
  <2>5. Rest'
    BY <1>1, <2>1 DEF Rest
  <2>. QED BY <1>3, <2>1, <2>2, <2>3, <2>5, <2>4
       DEF Ledger, Unpublished, ProcessLedger, ArticleLedger, UnsentLedger
<1>. QED BY <1>2, <1>3

LEMMA ProcessCounts ==
  ASSUME Shape, Rest, Ledger, NEW b \in SUBSET Items, NEW ai \in SUBSET b, ProcessBatch(b, ai)
  PROVE  Rest' /\ Ledger'
<1>1. /\ stage = "process" /\ b \subseteq todo /\ articles' = articles \cup b /\ todo' = todo \ b
      /\ llmSkipped' = llmSkipped \cup (b \ ai)
      /\ UNCHANGED <<config, cancelled, verified, unsent, sourceFails, history>>
      /\ IF todo' = {} THEN ProcessDone(articles') ELSE UNCHANGED <<stage, result>>
  BY DEF ProcessBatch, Batches
<1>2. todo \subseteq Items /\ articles \subseteq Items /\ articles' \subseteq Items
  BY <1>1 DEF Shape
<1>3. /\ todo \cap articles = {} /\ result.fetched = Cardinality(todo) + Cardinality(articles)
      /\ result.skipped = 0 /\ result.published = 0 /\ result.failed = sourceFails
      /\ result \in Results
  BY <1>1 DEF Ledger, ProcessLedger, Unpublished
<1>4. /\ Cardinality(articles') = Cardinality(articles) + Cardinality(b)
      /\ Cardinality(todo') = Cardinality(todo) - Cardinality(b)
      /\ todo' \cap articles' = {}
  BY <1>1, <1>2, <1>3, Joined, Parts
<1>5. /\ Cardinality(todo) \in Nat /\ Cardinality(articles) \in Nat /\ Cardinality(b) \in Nat
      /\ Cardinality(articles') \in Count /\ Cardinality({}) = 0
  BY <1>2, Sizes DEF Count, N
<1>6. Rest'
  BY <1>1 DEF Rest, history
<1>7. CASE todo' = {}
  <2>1. stage' = "verify" /\ result' = [result EXCEPT !.processed = Cardinality(articles')]
    BY <1>1, <1>7 DEF ProcessDone
  <2>2. /\ result' \in Results /\ result'.processed = Cardinality(articles')
        /\ result'.fetched = result.fetched /\ result'.published = 0
        /\ result'.failed = sourceFails'
    BY <1>1, <1>3, <1>5, <2>1 DEF Results
  <2>3. result'.fetched = result'.processed
    BY <1>3, <1>4, <1>5, <1>7, <2>2
  <2>. QED BY <1>6, <2>1, <2>2, <2>3
       DEF Ledger, Unpublished, ProcessLedger, ArticleLedger, UnsentLedger
<1>8. CASE todo' # {}
  <2>1. stage' = "process" /\ result' = result /\ sourceFails' = sourceFails
    BY <1>1, <1>8
  <2>2. result.fetched = Cardinality(todo') + Cardinality(articles')
    BY <1>3, <1>4, <1>5
  <2>. QED BY <1>3, <1>4, <1>6, <1>8, <2>1, <2>2
       DEF Ledger, Unpublished, ProcessLedger, ArticleLedger, UnsentLedger
<1>. QED BY <1>7, <1>8

LEMMA CutShortCounts ==
  ASSUME Shape, Rest, Ledger, ProcessCutShort PROVE Rest' /\ Ledger'
<1>1. /\ stage = "process" /\ stage' = "verify" /\ cancelled /\ cancelled'
      /\ result' = [result EXCEPT !.processed = Cardinality(articles)]
      /\ excused' = excused \cup todo
      /\ UNCHANGED <<config, cancelled, articles, llmSkipped, verified, sourceFails, dropped, forgotten>>
  BY DEF ProcessCutShort, ProcessDone
<1>2. Rest'
  BY <1>1 DEF Rest, Shape
<1>3. /\ result \in Results /\ result.published = 0 /\ result.failed = sourceFails
      /\ Cardinality(articles) \in Count
  BY <1>1, Sizes DEF Ledger, Unpublished, Shape, Count, N
<1>4. /\ result' \in Results /\ result'.processed = Cardinality(articles)
      /\ result'.published = 0 /\ result'.failed = sourceFails
  BY <1>1, <1>3 DEF Results
<1>. QED BY <1>1, <1>2, <1>4 DEF Ledger, Unpublished, ProcessLedger, ArticleLedger, UnsentLedger

LEMMA VerifyCounts ==
  ASSUME Shape, Rest, Ledger, NEW scored, Verify(scored) PROVE Rest' /\ Ledger'
<1>1. /\ stage = "verify" /\ stage' = "persist" /\ verified' \subseteq articles
      /\ unsent' = Passing(verified') /\ unsent' \subseteq articles
      /\ result' = [result EXCEPT !.llmSkipped = Cardinality(llmSkipped),
                                  !.skipped = Cardinality(articles \ Passing(verified'))]
      /\ UNCHANGED <<config, cancelled, articles, llmSkipped, sourceFails, history>>
  BY DEF Verify, ScoreMayPass, Passing, Skipped
<1>2. articles \subseteq Items /\ Rest'
  BY <1>1 DEF Rest, Shape, history
<1>3. /\ Cardinality(articles \ unsent') = Cardinality(articles) - Cardinality(unsent')
      /\ Cardinality(articles) \in Nat /\ Cardinality(unsent') \in Nat
      /\ Cardinality(articles \ unsent') \in Count /\ Cardinality(llmSkipped) \in Count
  BY <1>1, <1>2, Parts, Sizes DEF Rest, Count, N
<1>4. /\ result \in Results /\ result.published = 0 /\ result.failed = sourceFails
      /\ result.processed = Cardinality(articles) /\ (result.fetched = result.processed \/ cancelled)
  BY <1>1 DEF Ledger, Unpublished, ArticleLedger
<1>5. /\ result' \in Results /\ result'.skipped = Cardinality(articles \ unsent')
      /\ result'.published = 0 /\ result'.failed = sourceFails
      /\ result'.processed = result.processed /\ result'.fetched = result.fetched
  BY <1>1, <1>3, <1>4 DEF Results
<1>6. sourceFails \in Nat
  BY DEF Rest
<1>7. UnsentLedger'
  BY <1>1, <1>3, <1>5, <1>6 DEF UnsentLedger
<1>. QED BY <1>1, <1>2, <1>4, <1>5, <1>7 DEF Ledger, Unpublished, ProcessLedger, ArticleLedger

LEMMA PersistCounts ==
  ASSUME Shape, Rest, Ledger,
         \/ PersistOff \/ Persist
         \/ \E counted \in 0 .. Cardinality(Items), committed \in BOOLEAN :
               PersistFailed(counted, committed)
  PROVE  Rest' /\ Ledger'
<1>1. /\ stage = "persist" /\ stage' = "publish" /\ excused' \subseteq excused \cup articles
      /\ UNCHANGED <<config, cancelled, articles, llmSkipped, verified, unsent, sourceFails,
                     dropped, forgotten>>
  BY DEF PersistOff, Persist, PersistFailed, run, history
<1>2. Rest'
  BY <1>1 DEF Rest, Shape
<1>3. PICK n \in Count : result' = result \/ result' = [result EXCEPT !.saved = n]
  <2>1. Cardinality({i \in Saved : ~Stored(i)}) \in Count /\ 0 \in Count
    <3>1. {i \in Saved : ~Stored(i)} \in SUBSET Items
      BY DEF Saved, Shape
    <3>. QED BY <3>1, Sizes DEF Count, N
  <2>. QED BY <2>1 DEF PersistOff, Persist, PersistFailed, run, Count
<1>4. result \in Results
  BY DEF Ledger
<1>5. /\ result' \in Results /\ result'.skipped = result.skipped
      /\ result'.published = result.published /\ result'.failed = result.failed
      /\ result'.processed = result.processed /\ result'.fetched = result.fetched
  BY <1>3, <1>4 DEF Results
<1>6. UnsentLedger'
  BY <1>1, <1>5 DEF Ledger, UnsentLedger
<1>. QED BY <1>1, <1>2, <1>5, <1>6 DEF Ledger, ProcessLedger, ArticleLedger

LEMMA PublishCounts ==
  ASSUME Shape, Rest, Ledger, NEW i \in Items, Publish(i) PROVE Rest' /\ Ledger'
<1>1. /\ stage = "publish" /\ stage' = "publish" /\ i \in unsent /\ unsent' = unsent \ {i}
      /\ result' \in {CountPublished, CountDuplicate, CountFailed}
      /\ UNCHANGED <<config, cancelled, articles, llmSkipped, verified, sourceFails, history>>
  BY DEF Publish
<1>2. Rest' /\ unsent \subseteq Items /\ articles \subseteq Items
  BY <1>1 DEF Rest, Shape, history
<1>3. /\ Cardinality(unsent') = Cardinality(unsent) - 1
      /\ Cardinality(unsent) \in Nat /\ Cardinality(unsent') \in Nat
      /\ Cardinality(articles) \in Nat /\ Cardinality(articles) <= N /\ N \in Nat
  BY <1>1, <1>2, Sizes, FS_RemoveElement
<1>4. /\ result \in Results /\ result.failed >= sourceFails /\ sourceFails \in {0, 1}
      /\ Cardinality(articles) = result.published + result.skipped
                                     + (result.failed - sourceFails) + Cardinality(unsent)
      /\ result.processed = Cardinality(articles) /\ (result.fetched = result.processed \/ cancelled)
  BY <1>1 DEF Ledger, UnsentLedger, ArticleLedger, Rest
<1>5. result.published \in Nat /\ result.skipped \in Nat /\ result.failed \in Nat
  BY <1>3, <1>4 DEF Results, Count, N
<1>6. /\ result.published + 1 <= N /\ result.skipped + 1 <= N /\ result.failed + 1 <= N + 1
  BY <1>3, <1>4, <1>5
<1>7. /\ result' \in Results /\ result'.fetched = result.fetched
      /\ result'.processed = result.processed
      /\ \/ /\ result'.published = result.published + 1
            /\ result'.skipped = result.skipped /\ result'.failed = result.failed
         \/ /\ result'.skipped = result.skipped + 1
            /\ result'.published = result.published /\ result'.failed = result.failed
         \/ /\ result'.failed = result.failed + 1
            /\ result'.published = result.published /\ result'.skipped = result.skipped
  BY <1>1, <1>3, <1>4, <1>5, <1>6 DEF CountPublished, CountDuplicate, CountFailed, Results, Count, N
<1>8. UnsentLedger'
  <2>1. result'.failed >= sourceFails
    BY <1>4, <1>5, <1>7
  <2>2. Cardinality(articles) = result'.published + result'.skipped
                                    + (result'.failed - sourceFails) + Cardinality(unsent')
    BY <1>3, <1>4, <1>5, <1>7
  <2>. QED BY <1>1, <2>1, <2>2 DEF UnsentLedger
<1>. QED BY <1>1, <1>2, <1>4, <1>7, <1>8 DEF Ledger, ProcessLedger, ArticleLedger

LEMMA NextLedger == ASSUME Shape, Rest, Ledger, [Next]_vars PROVE Rest' /\ Ledger'
<1>1. ASSUME PublishDone PROVE Rest' /\ Ledger'
  <2>1. /\ stage = "publish" /\ stage' = "log" /\ (unsent = {} \/ ~config.publisher)
        /\ UNCHANGED <<config, run, history>>
    BY <1>1 DEF PublishDone
  <2>. QED BY <2>1
       DEF Rest, Ledger, Unpublished, ProcessLedger, ArticleLedger, UnsentLedger, run, history
<1>2. ASSUME Finish PROVE Rest' /\ Ledger'
  BY <1>2, EndKeeps DEF Finish, history, Rest
<1>3. ASSUME Restart PROVE Rest' /\ Ledger'
  <2>1. excused' \subseteq Items /\ forgotten' \subseteq Items /\ dropped' \subseteq Items
    BY <1>3 DEF Restart, Rest, Shape
  <2>. QED BY <1>3, <2>1, EndKeeps DEF Restart
<1>4. ASSUME Cancel PROVE Rest' /\ Ledger'
  <2>1. /\ cancelled' = TRUE
        /\ UNCHANGED <<config, stage, todo, articles, llmSkipped, verified, unsent, result,
                       sourceFails, history>>
    BY <1>4 DEF Cancel
  <2>. QED BY <2>1
       DEF Rest, Ledger, Unpublished, ProcessLedger, ArticleLedger, UnsentLedger, history
<1>5. ASSUME UNCHANGED vars PROVE Rest' /\ Ledger'
  BY <1>5 DEF vars, run, history, Rest, Ledger, Unpublished, ProcessLedger, ArticleLedger, UnsentLedger
<1>6. ASSUME NEW i \in Items, Expire(i) PROVE Rest' /\ Ledger'
  <2>1. /\ forgotten' = forgotten \cup {i}
        /\ UNCHANGED <<config, stage, cancelled, todo, articles, llmSkipped, verified, unsent,
                       result, sourceFails, dropped, excused>>
    BY <1>6 DEF Expire, run
  <2>. QED BY <2>1
       DEF Rest, Ledger, Unpublished, ProcessLedger, ArticleLedger, UnsentLedger
<1>. QED
  BY <1>1, <1>2, <1>3, <1>4, <1>5, <1>6, FetchCounts, ProcessCounts, CutShortCounts, VerifyCounts,
     PersistCounts, PublishCounts DEF Next, Step

LEMMA LedgerHolds == Spec => [](Shape /\ Rest /\ Ledger)
<1>1. IInv => Shape
  BY DEF IInv
<1>2. Shape /\ Rest /\ Ledger /\ [Next]_vars => (Rest /\ Ledger)'
  BY NextLedger
<1>. QED BY <1>1, <1>2, Invariance, InitLedger, PTL DEF Spec

(* Every variable has its type: no counter exceeds the number of items.     *)
THEOREM TypeCorrect == Spec => []TypeOK
<1>1. Shape /\ Rest /\ Ledger => TypeOK
  <2> SUFFICES ASSUME Shape, Rest, Ledger PROVE TypeOK
    OBVIOUS
  <2>1. \A s \in {todo, articles, llmSkipped, verified, unsent, seen, file, stale,
                  staleFile, site, dropped, excused, forgotten} : s \subseteq Items
    BY DEF Shape, Rest
  <2>. QED BY <2>1 DEF Shape, Rest, Ledger, Results, N, TypeOK
<1>. QED BY <1>1, LedgerHolds, PTL

(* The counters of a finished run account for every processed article once, *)
(* and for every fetched one unless the run was cut short (RunResult, as    *)
(* processStage, verifyStage and publishStage fill it in scheduler.go).     *)
THEOREM CountersAddUp == Spec => []EveryArticleCounted
<1>1. Shape /\ Rest /\ Ledger => EveryArticleCounted
  <2> SUFFICES ASSUME Shape, Rest, Ledger, stage = "log" PROVE EveryArticleCounted
    BY DEF EveryArticleCounted
  <2>1. /\ result.processed = Cardinality(articles) /\ (result.fetched = result.processed \/ cancelled)
        /\ Cardinality(articles) = result.published + result.skipped
                                       + (result.failed - sourceFails) + Cardinality(unsent)
        /\ config.publisher => unsent = {}
    BY DEF Ledger, ArticleLedger, UnsentLedger
  <2>2. Cardinality({}) = 0
    BY FS_EmptySet
  <2>. QED BY <2>1, <2>2 DEF EveryArticleCounted
<1>. QED BY <1>1, LedgerHolds, PTL
-----------------------------------------------------------------------------
(* Runs end *)

(* The steps a run may still take by itself, whatever fails. *)
StepsLeft ==
    CASE stage = "process" -> 5 + N + Cardinality(todo)
      [] stage = "verify"  -> 4 + N
      [] stage = "persist" -> 3 + Cardinality(unsent)
      [] stage = "publish" -> 2 + Cardinality(unsent)
      [] stage = "log"     -> 1
      [] OTHER             -> 0

(* The values this takes. *)
StepsAre ==
    /\ N \in Nat /\ Cardinality(todo) \in 0 .. N /\ Cardinality(unsent) \in 0 .. N
    /\ stage = "process" => StepsLeft = 5 + N + Cardinality(todo)
    /\ stage = "verify" => StepsLeft = 4 + N
    /\ stage = "persist" => StepsLeft = 3 + Cardinality(unsent)
    /\ stage = "publish" => StepsLeft = 2 + Cardinality(unsent)
    /\ stage = "log" => StepsLeft = 1
    /\ stage = "idle" => StepsLeft = 0

LEMMA StepsCounted == Shape => StepsAre
<1> SUFFICES ASSUME Shape PROVE StepsAre
  OBVIOUS
<1>1. todo \in SUBSET Items /\ unsent \in SUBSET Items
  BY DEF Shape
<1>2. N \in Nat /\ Cardinality(todo) \in 0 .. N /\ Cardinality(unsent) \in 0 .. N
  BY <1>1, Sizes
<1>. QED BY <1>2 DEF StepsAre, StepsLeft

(* A batch has an article while there is one. *)
LEMMA BatchesShrink ==
  ASSUME Shape, NEW b \in Batches, todo' = todo \ b, todo' # {}
  PROVE  Cardinality(todo') < Cardinality(todo)
<1>1. todo \in SUBSET Items /\ b \in SUBSET todo /\ b \in SUBSET Items
  BY DEF Shape, Batches
<1>2. Cardinality(b) \in Nat /\ Cardinality(todo) \in Nat /\ (Cardinality(todo) = 0 <=> todo = {})
  BY <1>1, Sizes
<1>3. Cardinality(b) = IF Cardinality(todo) < BatchSize THEN Cardinality(todo) ELSE BatchSize
  BY DEF Batches
<1>4. Cardinality(b) > 0
  BY <1>2, <1>3, BatchAssumption
<1>5. Cardinality(todo \ b) = Cardinality(todo) - Cardinality(b)
  BY <1>1, Parts
<1>. QED BY <1>2, <1>4, <1>5

(* A step of a run takes it to the next stage, or a batch or an article on. *)
LEMMA StepGoesOn ==
  ASSUME Shape, Step
  PROVE  \/ stage = "process" /\ stage' = "process" /\ Cardinality(todo') < Cardinality(todo)
         \/ stage = "process" /\ stage' = "verify"
         \/ stage = "verify" /\ stage' = "persist"
         \/ stage = "persist" /\ stage' = "publish" /\ unsent' = unsent
         \/ stage = "publish" /\ stage' = "publish" /\ Cardinality(unsent') < Cardinality(unsent)
         \/ stage = "publish" /\ stage' = "log"
         \/ stage = "log" /\ stage' = "idle"
<1>1. ASSUME NEW b \in SUBSET Items, NEW ai \in SUBSET b, ProcessBatch(b, ai)
      PROVE  \/ stage = "process" /\ stage' = "process" /\ Cardinality(todo') < Cardinality(todo)
             \/ stage = "process" /\ stage' = "verify"
  <2>1. stage = "process" /\ b \in Batches /\ todo' = todo \ b
    BY <1>1 DEF ProcessBatch
  <2>2. CASE todo' = {}
    BY <1>1, <2>1, <2>2 DEF ProcessBatch, ProcessDone
  <2>3. CASE todo' # {}
    BY <1>1, <2>1, <2>3, BatchesShrink DEF ProcessBatch
  <2>. QED BY <2>2, <2>3
<1>2. ASSUME ProcessCutShort PROVE stage = "process" /\ stage' = "verify"
  BY <1>2 DEF ProcessCutShort, ProcessDone
<1>3. ASSUME NEW scored \in SUBSET Items, Verify(scored)
      PROVE  stage = "verify" /\ stage' = "persist"
  BY <1>3 DEF Verify
<1>4. ASSUME \/ PersistOff \/ Persist
             \/ \E counted \in 0 .. Cardinality(Items), committed \in BOOLEAN :
                    PersistFailed(counted, committed)
      PROVE  stage = "persist" /\ stage' = "publish" /\ unsent' = unsent
  BY <1>4 DEF PersistOff, Persist, PersistFailed, run
<1>5. ASSUME NEW i \in Items, Publish(i)
      PROVE  /\ stage = "publish" /\ stage' = "publish"
             /\ Cardinality(unsent') < Cardinality(unsent)
  <2>1. stage = "publish" /\ stage' = stage /\ i \in unsent /\ unsent' = unsent \ {i}
    BY <1>5 DEF Publish
  <2>2. unsent \in SUBSET Items
    BY DEF Shape
  <2>3. IsFiniteSet(unsent) /\ Cardinality(unsent) \in Nat
    BY <2>2, Sizes
  <2>4. Cardinality(unsent \ {i}) = Cardinality(unsent) - 1
    BY <2>1, <2>3, FS_RemoveElement
  <2>. QED BY <2>1, <2>3, <2>4
<1>6. ASSUME PublishDone PROVE stage = "publish" /\ stage' = "log"
  BY <1>6 DEF PublishDone
<1>7. ASSUME Finish PROVE stage = "log" /\ stage' = "idle"
  BY <1>7 DEF Finish, EndRun
<1>. QED BY <1>1, <1>2, <1>3, <1>4, <1>5, <1>6, <1>7 DEF Step

(* A run that began ends after at most as many steps as it fetched and      *)
(* passed articles, and five more, whatever batches, inserts and publishes  *)
(* fail: each of its steps leaves it fewer, and neither the end of the      *)
(* context nor a restart gives it more. This is the part of RunsEnd that    *)
(* needs no fairness.                                                       *)
THEOREM RunsAreShort ==
    Spec => [][stage # "idle" =>
                   /\ StepsLeft \in 1 .. 5 + 2 * N
                   /\ StepsLeft' <= StepsLeft
                   /\ Step => StepsLeft' < StepsLeft]_vars
<1> DEFINE Shorter == stage # "idle" =>
                          /\ StepsLeft \in 1 .. 5 + 2 * N
                          /\ StepsLeft' <= StepsLeft
                          /\ Step => StepsLeft' < StepsLeft
<1>1. ASSUME Shape, Shape', [Next]_vars, StepsAre, StepsAre' PROVE Shorter
  <2> SUFFICES ASSUME stage # "idle"
               PROVE  /\ StepsLeft \in 1 .. 5 + 2 * N
                      /\ StepsLeft' <= StepsLeft
                      /\ Step => StepsLeft' < StepsLeft
    OBVIOUS
  <2>1. stage \in {"process", "verify", "persist", "publish", "log"}
    BY <1>1 DEF Shape
  <2>2. StepsLeft \in 1 .. 5 + 2 * N
    BY <1>1, <2>1 DEF StepsAre
  <2>3. CASE Step
    <3>1. stage' \in {"process", "verify", "persist", "publish", "log", "idle"} /\ N' = N
      BY <1>1 DEF Shape, N
    <3>2. StepsLeft' < StepsLeft /\ StepsLeft' <= StepsLeft
      BY <1>1, <2>1, <2>3, <3>1, StepGoesOn DEF StepsAre
    <3>. QED BY <2>2, <3>2
  <2>4. CASE ~Step
    <3>1. stage' = "idle" \/ UNCHANGED <<stage, todo, unsent>>
      BY <1>1, <2>1, <2>4 DEF Next, Fetch, Cancel, Restart, Expire, EndRun, vars, run
    <3>2. CASE stage' = "idle"
      BY <1>1, <2>2, <2>4, <3>2 DEF StepsAre
    <3>3. CASE UNCHANGED <<stage, todo, unsent>>
      <4>1. StepsLeft' = StepsLeft
        BY <3>3 DEF StepsLeft, N
      <4>. QED BY <1>1, <2>2, <2>4, <4>1 DEF StepsAre
    <3>. QED BY <3>1, <3>2, <3>3
  <2>. QED BY <2>2, <2>3, <2>4
<1>2. Shape /\ Shape' /\ [Next]_vars /\ StepsAre /\ StepsAre' => [Shorter]_vars
  BY <1>1
<1>3. IInv => Shape
  BY DEF IInv
<1>. QED BY <1>2, <1>3, StepsCounted, Invariance, PTL DEF Spec

-----------------------------------------------------------------------------
(***************************************************************************)
(* What a run does with its items before it processes them: Intake.         *)
(***************************************************************************)

-----------------------------------------------------------------------------
(* Recursion over the numbers *)

(* What holds of 0, and of each successor of a number it holds of, holds of *)
(* all of them: a set with a gap would have a least number missing.         *)
LEMMA Induction ==
  ASSUME NEW S, S \subseteq Nat, 0 \in S, \A n \in S : n + 1 \in S
  PROVE  S = Nat
<1> SUFFICES ASSUME Nat \ S # {} PROVE FALSE
  OBVIOUS
<1> DEFINE T == Nat \ S
<1>1. T \subseteq Nat /\ T # {}
  OBVIOUS
<1>. HIDE DEF T
<1>2. PICK x \in T : \A y \in T : ~(<<y, x>> \in OpToRel(<, Nat))
  BY <1>1, NatLessThanWellFounded, WFMin
<1>3. \A y \in T : ~(y < x)
  BY <1>1, <1>2 DEF OpToRel
<1>4. x \in Nat /\ x # 0 /\ x \notin S
  BY DEF T
<1>5. x - 1 \in Nat /\ x - 1 < x /\ (x - 1) + 1 = x
  BY <1>4
<1>6. x - 1 \in S
  BY <1>3, <1>5 DEF T
<1>. QED BY <1>4, <1>5, <1>6

(* The first n + 1 values of the function that starts with a and goes on    *)
(* with g of the argument and the value before.                             *)
Begins(h, n, a, g) ==
    /\ h \in [0 .. n -> Nat] /\ h[0] = a
    /\ \A k \in Nat : k < n => h[k + 1] = g[<<k + 1, h[k]>>]

(* Two such beginnings agree as far as the shorter one goes.                *)
LEMMA BeginsOnce ==
  ASSUME NEW a, NEW g, NEW n \in Nat, NEW m \in Nat, n <= m,
         NEW h, NEW i, Begins(h, n, a, g), Begins(i, m, a, g)
  PROVE  h[n] = i[n]
<1> DEFINE S == {k \in Nat : k <= n => h[k] = i[k]}
<1>1. S \subseteq Nat /\ 0 \in S
  BY DEF Begins
<1>2. ASSUME NEW k \in S PROVE k + 1 \in S
  <2> SUFFICES ASSUME k + 1 <= n PROVE h[k + 1] = i[k + 1]
    OBVIOUS
  <2>1. k \in Nat /\ k < n /\ k < m /\ h[k] = i[k]
    OBVIOUS
  <2>. QED BY <2>1 DEF Begins
<1>. HIDE DEF S
<1>3. S = Nat
  BY <1>1, <1>2, Induction
<1>. QED BY <1>3 DEF S

(* So there is one function on all the numbers.                             *)
LEMMA Recursion ==
  ASSUME NEW a \in Nat, NEW g \in [Nat \X Nat -> Nat]
  PROVE  \E f \in [Nat -> Nat] : f[0] = a /\ \A n \in Nat : f[n + 1] = g[<<n + 1, f[n]>>]
<1> DEFINE S == {n \in Nat : \E h : Begins(h, n, a, g)}
<1>1. S \subseteq Nat /\ 0 \in S
  <2>1. Begins([k \in 0 .. 0 |-> a], 0, a, g)
    BY DEF Begins
  <2>. QED BY <2>1
<1>2. ASSUME NEW n \in S PROVE n + 1 \in S
  <2>1. n \in Nat
    OBVIOUS
  <2>2. PICK h : Begins(h, n, a, g)
    OBVIOUS
  <2> DEFINE next == g[<<n + 1, h[n]>>]
             i    == [k \in 0 .. n + 1 |-> IF k = n + 1 THEN next ELSE h[k]]
  <2>3. h \in [0 .. n -> Nat] /\ h[n] \in Nat
    BY <2>1, <2>2 DEF Begins
  <2>4. next \in Nat
    BY <2>1, <2>3
  <2>. HIDE DEF next
  <2>5. i \in [0 .. n + 1 -> Nat] /\ i[0] = a
    BY <2>1, <2>2, <2>3, <2>4 DEF Begins
  <2>6. ASSUME NEW k \in Nat, k < n + 1 PROVE i[k + 1] = g[<<k + 1, i[k]>>]
    <3>1. CASE k = n
      <4>1. i[n + 1] = next /\ i[n] = h[n]
        BY <2>1 DEF i
      <4>. QED BY <3>1, <4>1 DEF next
    <3>2. CASE k < n
      <4>1. h[k + 1] = g[<<k + 1, h[k]>>]
        BY <2>2, <3>2 DEF Begins
      <4>2. k + 1 \in 0 .. n + 1 /\ k + 1 # n + 1 /\ k \in 0 .. n + 1 /\ k # n + 1
        BY <2>1, <3>2
      <4>. QED BY <4>1, <4>2
    <3>. QED BY <2>1, <2>6, <3>1, <3>2
  <2>. HIDE DEF i
  <2>7. Begins(i, n + 1, a, g)
    BY <2>5, <2>6 DEF Begins
  <2>. QED BY <2>1, <2>7
<1>3. S = Nat
  <2>. HIDE DEF S
  <2>. QED BY <1>1, <1>2, Induction
<1> DEFINE h(n) == CHOOSE h : Begins(h, n, a, g)
           f    == [n \in Nat |-> h(n)[n]]
<1>4. \A n \in Nat : Begins(h(n), n, a, g)
  BY <1>3
<1>. HIDE DEF h, S
<1>5. f \in [Nat -> Nat] /\ f[0] = a
  BY <1>4 DEF Begins
<1>6. ASSUME NEW n \in Nat PROVE f[n + 1] = g[<<n + 1, f[n]>>]
  <2>1. Begins(h(n), n, a, g) /\ Begins(h(n + 1), n + 1, a, g)
    BY <1>4
  <2>2. h(n)[n] = h(n + 1)[n]
    BY <2>1, BeginsOnce
  <2>3. h(n + 1)[n + 1] = g[<<n + 1, h(n + 1)[n]>>]
    BY <2>1 DEF Begins
  <2>. QED BY <2>2, <2>3
<1>. QED BY <1>5, <1>6
-----------------------------------------------------------------------------
(* The scan of a cluster *)

(* Scan is the function its definition says. *)
LEMMA ScanUnfolds ==
  ASSUME NEW members, NEW first \in Nat
  PROVE  \A m \in Nat : Scan(members, first)[m] =
             IF m <= first THEN first
             ELSE IF m \in members /\ IsBetter(items[m], items[Scan(members, first)[m - 1]])
                  THEN m ELSE Scan(members, first)[m - 1]
<1> DEFINE step(m, b) == IF m <= first THEN first
                         ELSE IF m \in members /\ IsBetter(items[m], items[b]) THEN m ELSE b
           g == [p \in Nat \X Nat |-> step(p[1], p[2])]
<1>1. g \in [Nat \X Nat -> Nat]
  OBVIOUS
<1>2. \A m, b \in Nat : g[<<m, b>>] = step(m, b)
  OBVIOUS
<1>. HIDE DEF g
<1>3. PICK f \in [Nat -> Nat] : f[0] = first /\ \A n \in Nat : f[n + 1] = g[<<n + 1, f[n]>>]
  BY <1>1, Recursion
<1>4. ASSUME NEW m \in Nat PROVE f[m] = step(m, f[m - 1])
  <2>1. CASE m = 0
    BY <1>3, <2>1
  <2>2. CASE m # 0
    <3>1. m - 1 \in Nat /\ m - 1 + 1 = m
      BY <2>2
    <3>2. f[m] = g[<<m, f[m - 1]>>] /\ f[m - 1] \in Nat
      BY <1>3, <3>1
    <3>3. g[<<m, f[m - 1]>>] = step(m, f[m - 1])
      BY <1>2, <3>2
    <3>. QED BY <3>2, <3>3
  <2>. QED BY <2>1, <2>2
<1>5. f = [m \in Nat |-> step(m, f[m - 1])]
  BY <1>4
<1>6. Scan(members, first) = [m \in Nat |-> step(m, Scan(members, first)[m - 1])]
  BY <1>5 DEF Scan
<1>. QED BY <1>6

(* Lengths are numbers, so Outranks is a total order of the items. *)
Ranked(its) == \A i \in DOMAIN its : Cardinality(its[i].desc) + its[i].content \in Int

(* Of two items one outranks the other, and a scan that meets the later one *)
(* last prefers it exactly then.                                            *)
LEMMA OutranksIsOrder ==
  ASSUME NEW its, Ranked(its), NEW i \in DOMAIN its, NEW j \in DOMAIN its, NEW k \in DOMAIN its,
         i \in Int, j \in Int, k \in Int
  PROVE  /\ Outranks(its, i, j) /\ Outranks(its, j, k) => Outranks(its, i, k)
         /\ ~(Outranks(its, i, j) /\ Outranks(its, j, i))
         /\ i < j => (IsBetter(its[j], its[i]) <=> Outranks(its, j, i))
         /\ i < j => (~IsBetter(its[j], its[i]) <=> Outranks(its, i, j))
<1> DEFINE len(x) == Cardinality(its[x].desc) + its[x].content
           ok(x)  == its[x].domain \in TrustedDomains
<1>1. len(i) \in Int /\ len(j) \in Int /\ len(k) \in Int
  BY DEF Ranked
<1>2. \A x, y : Outranks(its, x, y) <=> IF ok(x) # ok(y) THEN ok(x)
                                        ELSE len(x) > len(y) \/ (len(x) = len(y) /\ x < y)
  BY DEF Outranks
<1>3. \A x, y : IsBetter(its[x], its[y]) <=> \/ ok(x) /\ ~ok(y)
                                             \/ (ok(x) <=> ok(y)) /\ len(x) > len(y)
  BY DEF IsBetter
<1>4. ok(i) \in BOOLEAN /\ ok(j) \in BOOLEAN /\ ok(k) \in BOOLEAN
  OBVIOUS
<1>. HIDE DEF len, ok
<1>. QED BY <1>1, <1>2, <1>3, <1>4

(* Of the members up to m the scan holds the one that outranks the others. *)
LEMMA ScanPicks ==
  ASSUME items \in Seq(Fetchable), Ranked(items), NEW members \in SUBSET DOMAIN items,
         NEW first \in members,
         \A j \in members : first <= j
  PROVE  LET b == Scan(members, first)[Len(items)]
         IN  b \in members /\ \A j \in members \ {b} : Outranks(items, b, j)
<1> DEFINE best == Scan(members, first)
           n    == Len(items)
           Wins(b, m) == /\ b \in members /\ b <= m
                         /\ \A j \in members \ {b} : j <= m => Outranks(items, b, j)
           S    == {m \in Nat : first <= m => Wins(best[m], m)}
<1>1. n \in Nat /\ DOMAIN items = 1 .. n /\ members \subseteq 1 .. n /\ first \in Nat /\ first <= n
  OBVIOUS
<1>2. \A m \in Nat : best[m] = IF m <= first THEN first
                               ELSE IF m \in members /\ IsBetter(items[m], items[best[m - 1]])
                                    THEN m ELSE best[m - 1]
  BY <1>1, ScanUnfolds
<1>. HIDE DEF best, n
<1>3. S \subseteq Nat /\ 0 \in S
  BY <1>1
<1>4. ASSUME NEW m \in S PROVE m + 1 \in S
  <2> SUFFICES ASSUME first <= m + 1 PROVE Wins(best[m + 1], m + 1)
    OBVIOUS
  <2>0. m \in Nat /\ m + 1 \in Nat /\ m + 1 - 1 = m
    OBVIOUS
  <2>1. CASE first = m + 1
    <3>1. best[m + 1] = first
      BY <1>2, <2>0, <2>1
    <3>2. \A j \in members \ {first} : ~(j <= m + 1)
      BY <1>1, <2>0, <2>1
    <3>. QED BY <2>1, <3>1, <3>2
  <2>2. CASE first <= m
    <3> DEFINE b == best[m]
    <3>1. Wins(b, m)
      BY <2>2
    <3>2. best[m + 1] = IF m + 1 \in members /\ IsBetter(items[m + 1], items[b]) THEN m + 1 ELSE b
      BY <1>1, <1>2, <2>0, <2>2
    <3>. HIDE DEF b
    <3>3. b \in members /\ b \in Int /\ b < m + 1 /\ b \in DOMAIN items
      BY <1>1, <2>0, <3>1
    <3>4. \A j \in members : j \in DOMAIN items /\ j \in Int
      BY <1>1
    <3>5. \A j \in members : j <= m + 1 => j <= m \/ j = m + 1
      BY <2>0, <3>4
    <3>6. CASE m + 1 \in members /\ IsBetter(items[m + 1], items[b])
      <4>1. best[m + 1] = m + 1 /\ Outranks(items, m + 1, b)
        BY <2>0, <3>2, <3>3, <3>4, <3>6, OutranksIsOrder
      <4>2. ASSUME NEW j \in members, j # m + 1, j <= m + 1 PROVE Outranks(items, m + 1, j)
        <5>1. j = b \/ Outranks(items, b, j)
          BY <3>1, <3>5, <4>2
        <5>. QED BY <2>0, <3>3, <3>4, <3>6, <4>1, <5>1, OutranksIsOrder
      <4>. QED BY <2>0, <3>6, <4>1, <4>2
    <3>7. CASE ~(m + 1 \in members /\ IsBetter(items[m + 1], items[b]))
      <4>1. best[m + 1] = b
        BY <3>2, <3>7
      <4>2. ASSUME NEW j \in members, j # b, j <= m + 1 PROVE Outranks(items, b, j)
        <5>1. CASE j <= m
          BY <3>1, <4>2, <5>1
        <5>2. CASE j = m + 1
          BY <2>0, <3>3, <3>4, <3>7, <4>2, <5>2, OutranksIsOrder
        <5>. QED BY <3>5, <4>2, <5>1, <5>2
      <4>. QED BY <2>0, <3>3, <4>1, <4>2
    <3>. QED BY <3>6, <3>7
  <2>. QED BY <1>1, <2>0, <2>1, <2>2
<1>5. Wins(best[n], n)
  <2>1. S = Nat
    <3>. HIDE DEF S
    <3>. QED BY <1>3, <1>4, Induction
  <2>. QED BY <1>1, <2>1
<1>. QED BY <1>1, <1>5 DEF best, n
-----------------------------------------------------------------------------
(* The forest of the merge *)

(* rho gives each item its root, the only one above it. *)
Forest(D, f, rho) ==
    /\ f \in [D -> D] /\ rho \in [D -> D]
    /\ \A x \in D : f[rho[x]] = rho[x] /\ rho[f[x]] = rho[x] /\ (f[x] = x => rho[x] = x)
    /\ \A s \in SUBSET D : (\A z \in s : f[z] \in s) => \A x \in s : rho[x] \in s

(* An item's root is the one above it, for everything on the way too.       *)
LEMMA RootFound ==
  ASSUME NEW D, NEW f, NEW rho, Forest(D, f, rho), NEW x \in D
  PROVE  /\ Root(f, x) = rho[x]
         /\ x \in Above(f, x) /\ rho[x] \in Above(f, x)
         /\ \A y \in Above(f, x) : y \in D /\ rho[y] = rho[x]
<1>1. DOMAIN f = D /\ rho[x] \in D
  BY DEF Forest
<1>2. x \in Above(f, x) /\ rho[x] \in Above(f, x)
  BY <1>1 DEF Forest, Above
<1>3. ASSUME NEW y \in Above(f, x) PROVE y \in D /\ rho[y] = rho[x]
  <2> DEFINE s == {z \in D : rho[z] = rho[x]}
  <2>1. s \in SUBSET D /\ x \in s /\ \A z \in s : f[z] \in s
    BY DEF Forest
  <2>2. y \in D /\ y \in s
    BY <1>1, <2>1 DEF Above
  <2>. QED BY <2>2
<1>4. ASSUME NEW r \in Above(f, x), f[r] = r PROVE r = rho[x]
  BY <1>3, <1>4 DEF Forest
<1>5. f[rho[x]] = rho[x]
  BY DEF Forest
<1>. QED BY <1>2, <1>3, <1>4, <1>5 DEF Root

(* At first every item is a tree of its own. *)
LEMMA FirstForest == ASSUME NEW D PROVE Forest(D, [x \in D |-> x], [x \in D |-> x])
  BY DEF Forest

(* A union gives the items of one tree the root of the other, and nobody else. *)
LEMMA UnionForest ==
  ASSUME NEW D, NEW rho, Forest(D, parent, rho), NEW i \in D, NEW j \in D
  PROVE  Forest(D, Union(i, j), [x \in D |-> IF rho[x] = rho[i] THEN rho[j] ELSE rho[x]])
<1> DEFINE f    == parent
           over == rho[i]
           root == rho[j]
           g    == Union(i, j)
           new  == [x \in D |-> IF rho[x] = over THEN root ELSE rho[x]]
           A(x) == Above(f, x)
<1>1. /\ f \in [D -> D] /\ rho \in [D -> D] /\ over \in D /\ root \in D
      /\ \A x \in D : f[rho[x]] = rho[x] /\ rho[f[x]] = rho[x] /\ (f[x] = x => rho[x] = x)
  BY DEF Forest
<1>2. /\ \A x \in A(i) : x \in D /\ rho[x] = over
      /\ \A x \in A(j) : x \in D /\ rho[x] = root
      /\ root \in A(j) /\ over \in A(i)
      /\ Root(f, i) = over /\ Root(f, j) = root
  BY RootFound
<1>3. g = [x \in D |-> IF x = over \/ x \in A(j) THEN root ELSE IF x \in A(i) THEN over ELSE f[x]]
  BY <1>1, <1>2 DEF Union
<1>4. \A s \in SUBSET D : (\A z \in s : f[z] \in s) => \A x \in s : rho[x] \in s
  BY DEF Forest
<1>. HIDE DEF f, over, root, g, A
<1>5. \A x \in D : rho[rho[x]] = rho[x]
  BY <1>1
<1>6. rho[over] = over /\ rho[root] = root
  BY <1>5 DEF over, root
<1>7. g \in [D -> D] /\ new \in [D -> D]
  BY <1>1, <1>3
<1>8. ASSUME NEW x \in D PROVE g[new[x]] = new[x]
  BY <1>1, <1>2, <1>3, <1>5, <1>6
<1>9. ASSUME NEW x \in D PROVE new[g[x]] = new[x]
  BY <1>1, <1>2, <1>3, <1>5, <1>6
<1>10. ASSUME NEW x \in D, g[x] = x PROVE new[x] = x
  BY <1>1, <1>2, <1>3, <1>5, <1>6, <1>10
<1>11. ASSUME NEW s \in SUBSET D, \A z \in s : g[z] \in s, NEW x \in s PROVE new[x] \in s
  <2>1. ASSUME NEW z \in s, rho[z] \in {over, root} PROVE root \in s
    <3>1. CASE \E y \in s : y = over \/ y \in A(j)
      BY <1>3, <1>11, <3>1
    <3>2. CASE \E y \in s : y \in A(i)
      BY <1>1, <1>3, <1>11, <3>2
    <3>3. CASE \A y \in s : y # over /\ y \notin A(j) /\ y \notin A(i)
      <4>1. \A y \in s : f[y] \in s
        BY <1>3, <1>11, <3>3
      <4>2. rho[z] \in s
        BY <1>4, <4>1
      <4>. QED BY <2>1, <3>3, <4>2
    <3>. QED BY <3>1, <3>2, <3>3
  <2>2. CASE rho[x] \in {over, root}
    BY <2>1, <2>2
  <2>3. CASE rho[x] \notin {over, root}
    <3> DEFINE t == {y \in s : rho[y] = rho[x]}
    <3>1. \A y \in t : f[y] \in t
      BY <1>1, <1>2, <1>3, <1>6, <1>11, <2>3
    <3>2. rho[x] \in t
      BY <1>4, <3>1
    <3>. QED BY <2>3, <3>2
  <2>. QED BY <2>2, <2>3
<1>. QED BY <1>7, <1>8, <1>9, <1>10, <1>11 DEF Forest, f, g, over, root
-----------------------------------------------------------------------------
(* Stories *)

(* Either of two similar items may come first.                              *)
LEMMA SameStoryBothWays == ASSUME NEW a, NEW b, SameStory(a, b) PROVE SameStory(b, a)
<1>1. a.title \cap b.title = b.title \cap a.title /\ a.title \cup b.title = b.title \cup a.title
  OBVIOUS
<1>. QED BY <1>1 DEF SameStory, Similar

(* The stories part the items. *)
LEMMA StoriesPart ==
  ASSUME NEW its, NEW i \in DOMAIN its
  PROVE  /\ Story(its, i) \subseteq DOMAIN its /\ i \in Story(its, i)
         /\ \A a \in Story(its, i), b \in DOMAIN its :
               SameStory(its[a], its[b]) => b \in Story(its, i)
         /\ \A s \in SUBSET DOMAIN its :
               /\ i \in s
               /\ \A a \in s, b \in DOMAIN its : SameStory(its[a], its[b]) => b \in s
               => Story(its, i) \subseteq s
         /\ \A j \in Story(its, i) : Story(its, j) = Story(its, i)
<1> DEFINE D == DOMAIN its
           closed(s) == \A a \in s, b \in D : SameStory(its[a], its[b]) => b \in s
<1>1. \A k \in D : Story(its, k) = {j \in D : \A s \in SUBSET D : k \in s /\ closed(s) => j \in s}
  BY DEF Story
<1>2. \A k \in D : Story(its, k) \subseteq D /\ k \in Story(its, k) /\ closed(Story(its, k))
  BY <1>1
<1>3. \A k \in D : \A s \in SUBSET D : k \in s /\ closed(s) => Story(its, k) \subseteq s
  BY <1>1
<1>4. ASSUME NEW j \in Story(its, i) PROVE Story(its, j) = Story(its, i)
  <2>1. j \in D /\ Story(its, j) \subseteq Story(its, i)
    BY <1>2, <1>3
  <2>2. i \in Story(its, j)
    <3> SUFFICES ASSUME i \notin Story(its, j) PROVE FALSE
      OBVIOUS
    <3> DEFINE s == D \ Story(its, j)
    <3>1. s \in SUBSET D /\ i \in s
      OBVIOUS
    <3>2. closed(s)
      BY <1>2, <2>1, SameStoryBothWays
    <3>3. j \in s
      BY <1>3, <3>1, <3>2
    <3>. QED BY <1>2, <2>1, <3>3
  <2>3. Story(its, i) \subseteq Story(its, j)
    BY <1>2, <1>3, <2>1, <2>2
  <2>. QED BY <2>1, <2>3
<1>. QED BY <1>2, <1>3, <1>4
-----------------------------------------------------------------------------
(* Places in order *)

(* The number of smaller elements is a place of its own for each element of *)
(* a finite set, and none of the places is left out.                        *)
Place(S, x) == Cardinality({y \in S : y < x}) + 1

(* The places are 1 to the number of elements, in the order of the          *)
(* elements.                                                                *)
LEMMA PlacesInOrder ==
  ASSUME NEW S, S \subseteq Nat, IsFiniteSet(S)
  PROVE  /\ Cardinality(S) \in Nat
         /\ \A x \in S : Place(S, x) \in 1 .. Cardinality(S)
         /\ \A x, y \in S : x < y => Place(S, x) < Place(S, y)
         /\ \A k \in 1 .. Cardinality(S) : \E x \in S : Place(S, x) = k
<1> DEFINE n == Cardinality(S)
           below(x) == {y \in S : y < x}
           place == [x \in S |-> Place(S, x)]
<1>1. n \in Nat
  BY FS_CardinalityType
<1>2. ASSUME NEW x \in S PROVE IsFiniteSet(below(x)) /\ Cardinality(below(x)) \in Nat
  BY FS_Subset, FS_CardinalityType
<1>0. \A x : Place(S, x) = Cardinality(below(x)) + 1
  BY DEF Place
<1>3. ASSUME NEW x \in S, NEW y \in S, x < y PROVE Place(S, x) < Place(S, y)
  <2>1. below(x) \subseteq below(y) \ {x} /\ x \in below(y)
    <3>1. ASSUME NEW z \in S, z < x PROVE z < y /\ z # x
      <4>1. x \in Nat /\ y \in Nat /\ z \in Nat
        OBVIOUS
      <4>. QED BY <1>3, <3>1, <4>1
    <3>. QED BY <1>3, <3>1
  <2>2. Cardinality(below(y) \ {x}) = Cardinality(below(y)) - 1 /\ IsFiniteSet(below(y) \ {x})
    BY <1>2, <2>1, FS_RemoveElement
  <2>3. Cardinality(below(x)) <= Cardinality(below(y)) - 1
    BY <2>1, <2>2, FS_Subset
  <2>4. Cardinality(below(x)) \in Nat /\ Cardinality(below(y)) \in Nat
    BY <1>2
  <2>. HIDE DEF below
  <2>. QED BY <1>0, <2>3, <2>4
<1>4. ASSUME NEW x \in S PROVE Place(S, x) \in 1 .. n
  <2>1. below(x) \subseteq S \ {x}
    OBVIOUS
  <2>2. Cardinality(S \ {x}) = n - 1 /\ IsFiniteSet(S \ {x})
    BY FS_RemoveElement
  <2>3. Cardinality(below(x)) <= n - 1
    BY <2>1, <2>2, FS_Subset
  <2>4. Cardinality(below(x)) \in Nat
    BY <1>2
  <2>. HIDE DEF below, n
  <2>. QED BY <1>1, <1>0, <2>3, <2>4
<1>5. place \in Surjection(S, 1 .. n)
  <2>1. \A x, y \in S : Place(S, x) = Place(S, y) => x = y
    <3> SUFFICES ASSUME NEW x \in S, NEW y \in S, x < y PROVE Place(S, x) # Place(S, y)
      OBVIOUS
    <3>1. Place(S, x) < Place(S, y) /\ Place(S, x) \in Int /\ Place(S, y) \in Int
      BY <1>3, <1>4
    <3>. QED BY <3>1
  <2>2. place \in Injection(S, 1 .. n)
    BY <1>4, <2>1 DEF Injection, IsInjective
  <2>. HIDE DEF place, n
  <2>3. IsFiniteSet(1 .. n) /\ Cardinality(1 .. n) = n
    BY <1>1, FS_Interval
  <2>4. Cardinality(S) = n
    BY DEF n
  <2>. QED BY <2>2, <2>3, <2>4, FS_Injection
<1>6. \A k \in 1 .. n : \E x \in S : Place(S, x) = k
  BY <1>5 DEF Surjection
<1>. QED BY <1>1, <1>3, <1>4, <1>6

(* The listing that InOrder chooses exists.                                 *)
LEMMA InOrderLists ==
  ASSUME NEW S, S \subseteq Nat, IsFiniteSet(S)
  PROVE  InOrder(S) \in [1 .. Cardinality(S) -> S] /\ Cardinality(S) \in Nat
<1> DEFINE n == Cardinality(S)
           s == [k \in 1 .. n |-> CHOOSE x \in S : Place(S, x) = k]
<1>1. \A k \in 1 .. n : s[k] \in S /\ Place(S, s[k]) = k
  BY PlacesInOrder
<1>2. ASSUME NEW k \in 1 .. n, NEW l \in 1 .. n, k < l PROVE s[k] < s[l]
  <2>1. s[k] \in S /\ s[l] \in S /\ Place(S, s[k]) = k /\ Place(S, s[l]) = l
    BY <1>1
  <2>. HIDE DEF s
  <2>2. ~(s[l] < s[k]) /\ s[l] # s[k]
    <3>1. s[l] < s[k] => l < k
      BY <2>1, PlacesInOrder
    <3>2. k \in Int /\ l \in Int /\ ~(l < k) /\ k # l
      BY <1>2
    <3>. QED BY <2>1, <3>1, <3>2
  <2>3. s[k] \in Nat /\ s[l] \in Nat
    BY <2>1
  <2>. QED BY <2>2, <2>3
<1>3. s \in [1 .. n -> S] /\ \A k, l \in DOMAIN s : k < l => s[k] < s[l]
  BY <1>1, <1>2
<1>4. n \in Nat
  BY PlacesInOrder
<1>5. \E t \in [1 .. n -> S] : \A k, l \in DOMAIN t : k < l => t[k] < t[l]
  BY <1>3
<1>. QED BY <1>4, <1>5 DEF InOrder

(* Enrich takes as many of the items that need a page as the limit allows. *)
LEMMA JobsAreAsManyAsAllowed ==
  ASSUME NEW its, DOMAIN its \subseteq Nat, IsFiniteSet(DOMAIN its)
  PROVE  /\ Jobs(its) \subseteq Needed(its) /\ IsFiniteSet(Jobs(its))
         /\ LET due == Cardinality(Needed(its))
            IN  Cardinality(Jobs(its)) = IF due < MaxItems THEN due ELSE MaxItems
<1> DEFINE S   == Needed(its)
           J   == Jobs(its)
           due == Cardinality(S)
           top == IF due < MaxItems THEN due ELSE MaxItems
<1>1. S \subseteq Nat /\ IsFiniteSet(S) /\ J \subseteq S /\ MaxItems \in Nat
  BY FS_Subset, BoundsAssumption DEF Needed, Jobs
<1>2. J = {x \in S : Cardinality({y \in S : y < x}) < MaxItems}
  BY DEF Jobs
<1>. HIDE DEF S, J
<1>3. /\ due \in Nat
      /\ \A x \in S : Place(S, x) \in 1 .. due
      /\ \A x, y \in S : x < y => Place(S, x) < Place(S, y)
      /\ \A k \in 1 .. due : \E x \in S : Place(S, x) = k
  BY <1>1, PlacesInOrder
<1>4. \A x \in S : Cardinality({y \in S : y < x}) \in Nat
  BY <1>1, FS_Subset, FS_CardinalityType
<1>5. \A x \in S : x \in J <=> Place(S, x) <= MaxItems
  BY <1>1, <1>2, <1>4 DEF Place
<1>. HIDE DEF due
<1>6. top \in Nat /\ \A k \in Nat : k \in 1 .. top <=> k \in 1 .. due /\ k <= MaxItems
  BY <1>1, <1>3
<1>. HIDE DEF top
<1> DEFINE place == [x \in J |-> Place(S, x)]
<1>7. place \in Bijection(J, 1 .. top)
  <2>1. \A x \in J : Place(S, x) \in 1 .. top
    BY <1>1, <1>3, <1>5, <1>6
  <2>2. \A x, y \in J : Place(S, x) = Place(S, y) => x = y
    <3> SUFFICES ASSUME NEW x \in J, NEW y \in J, x < y PROVE Place(S, x) # Place(S, y)
      BY <1>1
    <3>1. Place(S, x) < Place(S, y) /\ Place(S, x) \in Int /\ Place(S, y) \in Int
      BY <1>1, <1>3
    <3>. QED BY <3>1
  <2>3. \A k \in 1 .. top : \E x \in J : Place(S, x) = k
    BY <1>3, <1>5, <1>6
  <2>. QED BY <2>1, <2>2, <2>3 DEF Bijection, Injection, IsInjective, Surjection
<1>8. ExistsBijection(J, 1 .. top)
  BY <1>7 DEF ExistsBijection
<1>9. Cardinality(1 .. top) = top
  BY <1>6, FS_Interval
<1>10. IsFiniteSet(J) /\ Cardinality(J) = top
  BY <1>1, <1>8, <1>9, FS_Subset, FS_Bijection
<1>. QED BY <1>1, <1>10 DEF S, J, due, top
-----------------------------------------------------------------------------
(* The invariant *)

(* The pairs before the next one have been compared: similar ones share a   *)
(* root, and no tree reaches beyond a story.                                *)
Before(a, b) == a < pair[1] \/ (a = pair[1] /\ b < pair[2])
Joins(rho) ==
    /\ \A a, b \in DOMAIN items :
           a < b /\ Before(a, b) /\ SameStory(items[a], items[b]) => rho[a] = rho[b]
    /\ \A x \in DOMAIN items : rho[x] \in Story(items, x)
Merging ==
    /\ items \in Seq(Fetchable)
    /\ pair \in Nat \X Nat /\ 1 <= pair[1] /\ pair[1] < pair[2]
    /\ pair[1] < Len(items) => pair[2] <= Len(items)
    /\ \E rho : Forest(DOMAIN items, parent, rho) /\ Joins(rho)
    /\ waiting = {} /\ reading = {} /\ texts = {} /\ failed = {}

(* A page is due, being read, or done with, and each that is read has one   *)
(* place of the semaphore.                                                  *)
Taken == waiting \cup reading \cup texts \cup failed
Extracting ==
    /\ DOMAIN items \subseteq Nat /\ IsFiniteSet(DOMAIN items)
    /\ Taken \subseteq Jobs(items)
    /\ waiting \cap (reading \cup texts \cup failed) = {}
    /\ reading \cap (texts \cup failed) = {} /\ texts \cap failed = {}
    /\ IsFiniteSet(reading) /\ slots = Cardinality(reading) /\ slots <= Concurrency
    /\ phase # "comparing" /\ ~stopped => Taken \in {Jobs(items), {}}
    /\ phase = "done" => waiting = {} /\ reading = {} /\ extracted = Cardinality(texts)

IntakeInv == (phase = "comparing" => Merging) /\ Extracting

(* It holds when the merge begins.                                          *)
LEMMA FirstItemsKept == IntakeInit => IntakeInv
<1> SUFFICES ASSUME IntakeInit PROVE IntakeInv
  OBVIOUS
<1>1. PICK n \in 0 .. MaxFetched : items \in [1 .. n -> Fetchable]
  BY DEF IntakeInit
<1>2. n \in Nat /\ Concurrency \in Nat
  BY BoundsAssumption
<1>3. items \in Seq(Fetchable) /\ Len(items) = n /\ DOMAIN items = 1 .. n
  BY <1>1, <1>2, SeqDef
<1>4. IsFiniteSet(1 .. n) /\ IsFiniteSet({}) /\ Cardinality({}) = 0
  BY <1>2, FS_Interval, FS_EmptySet
<1>5. Merging
  <2> DEFINE rho == [i \in DOMAIN items |-> i]
  <2>1. Forest(DOMAIN items, parent, rho)
    BY FirstForest DEF IntakeInit
  <2>2. pair = <<1, 2>> /\ pair[1] = 1 /\ pair[2] = 2
    BY DEF IntakeInit
  <2>3. Joins(rho)
    <3>1. ASSUME NEW a \in DOMAIN items, NEW b \in DOMAIN items, a < b PROVE ~Before(a, b)
      BY <1>3, <2>2, <3>1 DEF Before
    <3>. QED BY <3>1, StoriesPart DEF Joins
  <2>. QED BY <1>2, <1>3, <2>1, <2>2, <2>3 DEF IntakeInit, Merging
<1>6. Extracting
  BY <1>2, <1>3, <1>4 DEF IntakeInit, Extracting, Taken
<1>. QED BY <1>5, <1>6 DEF IntakeInv

(* A comparison joins what it finds similar. *)
LEMMA CompareKeeps == IntakeInv /\ Compare => IntakeInv'
<1> SUFFICES ASSUME IntakeInv, Compare PROVE IntakeInv'
  OBVIOUS
<1> DEFINE i == pair[1]
           j == pair[2]
           n == Len(items)
           D == DOMAIN items
<1>1. /\ phase = "comparing" /\ i < n /\ Merging
      /\ pair' = IF j < n THEN <<i, j + 1>> ELSE <<i + 1, i + 2>>
      /\ parent' = IF SameStory(items[i], items[j]) THEN Union(i, j) ELSE parent
      /\ UNCHANGED <<phase, items, waiting, reading, slots, texts, failed, stopped, extracted>>
  BY DEF Compare, IntakeInv, pages
<1>2. items \in Seq(Fetchable) /\ n \in Nat /\ D = 1 .. n
  BY <1>1 DEF Merging
<1>3. i \in Nat /\ j \in Nat /\ 1 <= i /\ i < j /\ j <= n /\ i \in D /\ j \in D
  BY <1>1, <1>2 DEF Merging
<1>4. PICK rho : Forest(D, parent, rho) /\ Joins(rho)
  BY <1>1 DEF Merging
<1>. HIDE DEF i, j, n, D
<1>5. /\ pair' \in Nat \X Nat /\ 1 <= pair'[1] /\ pair'[1] < pair'[2]
      /\ pair'[1] < n => pair'[2] <= n
  BY <1>1, <1>2, <1>3
<1>6. ASSUME NEW a \in D, NEW b \in D, a < b, Before(a, b)' PROVE Before(a, b) \/ (a = i /\ b = j)
  <2>1. a \in 1 .. n /\ b \in 1 .. n
    BY <1>2
  <2>2. CASE j < n
    <3>1. pair'[1] = i /\ pair'[2] = j + 1
      BY <1>1, <2>2
    <3>. QED BY <1>2, <1>3, <1>6, <2>1, <3>1 DEF Before, i, j
  <2>3. CASE ~(j < n)
    <3>1. pair'[1] = i + 1 /\ pair'[2] = i + 2
      BY <1>1, <2>3
    <3>. QED BY <1>2, <1>3, <1>6, <2>1, <2>3, <3>1 DEF Before, i, j
  <2>. QED BY <2>2, <2>3
<1>7. \E new : Forest(D, parent', new) /\ Joins(new)'
  <2>1. CASE SameStory(items[i], items[j])
    <3>0. PICK new : new = [x \in D |-> IF rho[x] = rho[i] THEN rho[j] ELSE rho[x]]
      OBVIOUS
    <3>1. Forest(D, parent', new)
      BY <1>1, <1>3, <1>4, <2>1, <3>0, UnionForest DEF i, j
    <3>2. ASSUME NEW a \in D, NEW b \in D, a < b, Before(a, b)', SameStory(items[a], items[b])
          PROVE  new[a] = new[b]
      <4>1. CASE Before(a, b)
        <5>1. rho[a] = rho[b]
          BY <1>4, <3>2, <4>1 DEF Joins, D
        <5>. QED BY <3>0, <5>1
      <4>2. CASE a = i /\ b = j
        BY <1>3, <3>0, <4>2
      <4>. QED BY <1>6, <3>2, <4>1, <4>2
    <3>3. ASSUME NEW x \in D PROVE new[x] \in Story(items, x)
      <4>0. \A y \in D : rho[y] \in Story(items, y)
        BY <1>4 DEF Joins, D
      <4>1. CASE rho[x] = rho[i]
        <5>1. rho[i] \in Story(items, x) /\ rho[i] \in Story(items, i) /\ rho[j] \in Story(items, j)
          BY <1>3, <4>0, <4>1
        <5>2. Story(items, rho[i]) = Story(items, x) /\ Story(items, rho[i]) = Story(items, i)
          BY <1>3, <5>1, StoriesPart DEF D
        <5>3. j \in Story(items, i)
          BY <1>3, <2>1, StoriesPart DEF D
        <5>4. Story(items, j) = Story(items, i)
          BY <1>3, <5>3, StoriesPart DEF D
        <5>. QED BY <3>0, <4>1, <5>1, <5>2, <5>4
      <4>2. CASE rho[x] # rho[i]
        BY <3>0, <4>0, <4>2
      <4>. QED BY <4>1, <4>2
    <3>4. Joins(new)'
      BY <1>1, <3>2, <3>3 DEF Joins, D
    <3>. QED BY <3>1, <3>4
  <2>2. CASE ~SameStory(items[i], items[j])
    <3>1. Forest(D, parent', rho)
      BY <1>1, <1>4, <2>2
    <3>2. ASSUME NEW a \in D, NEW b \in D, a < b, Before(a, b)', SameStory(items[a], items[b])
          PROVE  rho[a] = rho[b]
      <4>1. Before(a, b)
        BY <1>6, <2>2, <3>2
      <4>. QED BY <1>4, <3>2, <4>1 DEF Joins, D
    <3>3. Joins(rho)'
      BY <1>1, <1>4, <3>2 DEF Joins, D
    <3>. QED BY <3>1, <3>3
  <2>. QED BY <2>1, <2>2
<1>8. Merging'
  BY <1>1, <1>2, <1>5, <1>7 DEF Merging, D, n
<1>9. Extracting'
  BY <1>1 DEF IntakeInv, Extracting, Taken, Jobs, Needed
<1>. QED BY <1>8, <1>9 DEF IntakeInv

(* When all pairs have been compared the clusters are the stories. *)
LEMMA ClustersAreStories ==
  ASSUME Merging, pair[1] >= Len(items), NEW i \in DOMAIN items
  PROVE  Cluster(i) = Story(items, i)
<1> DEFINE D == DOMAIN items
<1>1. PICK rho : Forest(D, parent, rho) /\ Joins(rho)
  BY DEF Merging
<1>2. D = 1 .. Len(items) /\ Len(items) \in Nat /\ pair[1] \in Nat
  BY DEF Merging
<1>3. \A x \in D : Root(parent, x) = rho[x]
  BY <1>1, RootFound
<1>4. Cluster(i) = {j \in D : rho[j] = rho[i]}
  BY <1>3 DEF Cluster
<1>5. \A x \in D : rho[x] \in Story(items, x) /\ rho[x] \in D
  BY <1>1, StoriesPart DEF Joins
<1>6. ASSUME NEW j \in Cluster(i) PROVE j \in Story(items, i)
  <2>1. j \in D /\ rho[j] = rho[i]
    BY <1>4
  <2>2. Story(items, rho[j]) = Story(items, j) /\ Story(items, rho[i]) = Story(items, i)
    BY <1>5, <2>1, StoriesPart
  <2>3. Story(items, j) = Story(items, i) /\ j \in Story(items, j)
    BY <2>1, <2>2, StoriesPart
  <2>. QED BY <2>3
<1>7. ASSUME NEW a \in D, NEW b \in D, SameStory(items[a], items[b]) PROVE rho[a] = rho[b]
  <2>1. a \in 1 .. Len(items) /\ b \in 1 .. Len(items)
    BY <1>2
  <2>2. CASE a < b
    <3>1. Before(a, b)
      BY <1>2, <2>1, <2>2 DEF Before
    <3>. QED BY <1>1, <1>7, <2>2, <3>1 DEF Joins
  <2>3. CASE b < a
    <3>1. Before(b, a)
      BY <1>2, <2>1, <2>3 DEF Before
    <3>. QED BY <1>1, <1>7, <2>3, <3>1, SameStoryBothWays DEF Joins
  <2>. QED BY <2>1, <2>2, <2>3
<1>8. \A a \in Cluster(i), b \in D : SameStory(items[a], items[b]) => b \in Cluster(i)
  BY <1>4, <1>7
<1>9. Story(items, i) \subseteq Cluster(i)
  <2>1. Cluster(i) \in SUBSET D /\ i \in Cluster(i)
    BY <1>4
  <2>. QED BY <1>8, <2>1, StoriesPart
<1>. QED BY <1>6, <1>9
-----------------------------------------------------------------------------
(* The other steps *)

(* The items of a fetch are finitely many, and so is any part of them.      *)
LEMMA FirstsAreFinite ==
  ASSUME Merging
  PROVE  /\ DOMAIN items = 1 .. Len(items) /\ Len(items) \in Nat /\ IsFiniteSet(DOMAIN items)
         /\ \A S \in SUBSET DOMAIN items : S \subseteq Nat /\ IsFiniteSet(S)
<1>1. DOMAIN items = 1 .. Len(items) /\ Len(items) \in Nat
  BY DEF Merging
<1>2. IsFiniteSet(1 .. Len(items))
  BY <1>1, FS_Interval
<1>. QED BY <1>1, <1>2, FS_Subset

(* What Prepare leaves is a sequence again. *)
LEMMA Prepared ==
  ASSUME IntakeInv, Prepare
  PROVE  LET left == {i \in Firsts : Keep(Best(i))}
         IN  /\ InOrder(left) \in [1 .. Cardinality(left) -> left] /\ Cardinality(left) \in Nat
             /\ items' = [k \in 1 .. Cardinality(left) |-> Best(InOrder(left)[k])]
             /\ DOMAIN items' = 1 .. Cardinality(left)
<1> DEFINE left == {i \in Firsts : Keep(Best(i))}
<1>1. Merging
  BY DEF IntakeInv, Prepare, Compared
<1>2. left \subseteq Nat /\ IsFiniteSet(left)
  <2>1. left \in SUBSET DOMAIN items
    BY DEF Firsts
  <2>. QED BY <1>1, <2>1, FirstsAreFinite
<1>3. items' = [k \in DOMAIN InOrder(left) |-> Best(InOrder(left)[k])]
  BY DEF Prepare
<1>. HIDE DEF left
<1>4. InOrder(left) \in [1 .. Cardinality(left) -> left] /\ Cardinality(left) \in Nat
  BY <1>2, InOrderLists
<1>. QED BY <1>3, <1>4 DEF left

(* The merge ends with pages that are due, all of them or none.             *)
LEMMA PrepareKeeps == IntakeInv /\ Prepare => IntakeInv'
<1> SUFFICES ASSUME IntakeInv, Prepare PROVE IntakeInv'
  OBVIOUS
<1>1. /\ phase' = "extracting" /\ Merging /\ Extracting /\ waiting' \in {Jobs(items'), {}}
      /\ UNCHANGED <<reading, slots, texts, failed, stopped, extracted>>
  BY DEF IntakeInv, Prepare, Compared
<1>2. PICK n \in Nat : DOMAIN items' = 1 .. n
  BY Prepared
<1>3. DOMAIN items' \subseteq Nat /\ IsFiniteSet(DOMAIN items')
  BY <1>2, FS_Interval
<1>4. reading' = {} /\ texts' = {} /\ failed' = {}
  BY <1>1 DEF Merging
<1>5. Taken' = waiting'
  BY <1>4 DEF Taken
<1>6. Jobs(items)' = Jobs(items')
  BY DEF Jobs, Needed
<1>7. IsFiniteSet(reading)' /\ slots' = Cardinality(reading') /\ slots' <= Concurrency
  BY <1>1 DEF Extracting
<1>8. Extracting'
  BY <1>1, <1>3, <1>4, <1>5, <1>6, <1>7 DEF Extracting
<1>. QED BY <1>1, <1>8 DEF IntakeInv

(* A goroutine is at work only after the merge. *)
LEMMA AtWork ==
  ASSUME IntakeInv, waiting \cup reading # {}
  PROVE  phase # "comparing" /\ phase # "done" /\ Extracting
  BY DEF IntakeInv, Merging, Extracting

(* A place of the semaphore goes with each page that is read.               *)
LEMMA AcquireKeeps == \A i : IntakeInv /\ Acquire(i) => IntakeInv'
<1> SUFFICES ASSUME NEW i, IntakeInv, Acquire(i) PROVE IntakeInv'
  OBVIOUS
<1>1. /\ i \in waiting /\ slots < Concurrency
      /\ waiting' = waiting \ {i} /\ reading' = reading \cup {i} /\ slots' = slots + 1
      /\ UNCHANGED <<phase, items, texts, failed, stopped, extracted>>
  BY DEF Acquire
<1>2. phase # "comparing" /\ phase # "done" /\ Extracting
  BY <1>1, AtWork
<1>3. Taken' = Taken /\ Jobs(items)' = Jobs(items)
  BY <1>1 DEF Taken, Jobs, Needed
<1>4. i \notin reading /\ IsFiniteSet(reading) /\ slots = Cardinality(reading)
  BY <1>1, <1>2 DEF Extracting
<1>5. IsFiniteSet(reading') /\ Cardinality(reading') = slots + 1
  BY <1>1, <1>4, FS_AddElement
<1>6. slots' <= Concurrency
  <2>1. slots \in Nat /\ Concurrency \in Nat
    BY <1>4, FS_CardinalityType, BoundsAssumption
  <2>. QED BY <1>1, <2>1
<1>7. Extracting'
  BY <1>1, <1>2, <1>3, <1>5, <1>6 DEF Extracting
<1>. QED BY <1>1, <1>2, <1>7 DEF IntakeInv

(* A goroutine gives up only after the cancellation.                        *)
LEMMA GiveUpKeeps == \A i : IntakeInv /\ GiveUp(i) => IntakeInv'
<1> SUFFICES ASSUME NEW i, IntakeInv, GiveUp(i) PROVE IntakeInv'
  OBVIOUS
<1>1. /\ i \in waiting /\ stopped /\ waiting' = waiting \ {i}
      /\ UNCHANGED <<phase, items, reading, slots, texts, failed, stopped, extracted>>
  BY DEF GiveUp
<1>2. phase # "comparing" /\ phase # "done" /\ Extracting
  BY <1>1, AtWork
<1>3. Taken' \subseteq Taken /\ Jobs(items)' = Jobs(items)
  BY <1>1 DEF Taken, Jobs, Needed
<1>4. Extracting'
  BY <1>1, <1>2, <1>3 DEF Extracting
<1>. QED BY <1>1, <1>2, <1>4 DEF IntakeInv

(* A page that was read, and one that gave no text, gives its place back.   *)
LEMMA EndsKeeps == \A i : IntakeInv /\ Ends(i) => IntakeInv'
<1> SUFFICES ASSUME NEW i, IntakeInv, Ends(i) PROVE IntakeInv'
  OBVIOUS
<1>1. /\ i \in reading /\ reading' = reading \ {i} /\ slots' = slots - 1
      /\ \/ texts' = texts \cup {i} /\ failed' = failed
         \/ texts' = texts /\ failed' = failed \cup {i}
      /\ UNCHANGED <<phase, items, waiting, stopped, extracted>>
  BY DEF Ends, PageRead, PageFailed, SlotsAfterFailure
<1>2. phase # "comparing" /\ phase # "done" /\ Extracting
  BY <1>1, AtWork
<1>3. Taken' = Taken /\ Jobs(items)' = Jobs(items)
  BY <1>1 DEF Taken, Jobs, Needed
<1>4. IsFiniteSet(reading) /\ slots = Cardinality(reading) /\ slots \in Nat /\ Concurrency \in Nat
  BY <1>2, FS_CardinalityType, BoundsAssumption DEF Extracting
<1>5. IsFiniteSet(reading') /\ Cardinality(reading') = slots - 1
  BY <1>1, <1>4, FS_RemoveElement
<1>6. slots' <= Concurrency
  BY <1>1, <1>2, <1>4 DEF Extracting
<1>7. /\ waiting' \cap (reading' \cup texts' \cup failed') = {}
      /\ reading' \cap (texts' \cup failed') = {} /\ texts' \cap failed' = {}
  BY <1>1, <1>2 DEF Extracting
<1>8. Extracting'
  BY <1>1, <1>2, <1>3, <1>5, <1>6, <1>7 DEF Extracting
<1>. QED BY <1>1, <1>2, <1>8 DEF IntakeInv

(* Enrich returns when nobody waits or reads.                               *)
LEMMA ReturnKeeps == IntakeInv /\ Return => IntakeInv'
<1> SUFFICES ASSUME IntakeInv, Return PROVE IntakeInv'
  OBVIOUS
<1>1. /\ phase = "extracting" /\ phase' = "done" /\ waiting = {} /\ reading = {}
      /\ extracted' = Cardinality(texts)
      /\ UNCHANGED <<items, waiting, reading, slots, texts, failed, stopped>>
  BY DEF Return, pages
<1>2. Taken' = Taken /\ Jobs(items)' = Jobs(items)
  BY <1>1 DEF Taken, Jobs, Needed
<1>3. Extracting'
  BY <1>1, <1>2 DEF IntakeInv, Extracting
<1>. QED BY <1>1, <1>3 DEF IntakeInv

(* The cancellation alone changes no page.                                  *)
LEMMA EndContextKeeps == IntakeInv /\ EndContext => IntakeInv'
<1> SUFFICES ASSUME IntakeInv, EndContext PROVE IntakeInv'
  OBVIOUS
<1>1. /\ phase = "extracting" /\ stopped' = TRUE
      /\ UNCHANGED <<phase, items, waiting, reading, slots, texts, failed, extracted>>
  BY DEF EndContext, pages
<1>2. Taken' = Taken /\ Jobs(items)' = Jobs(items)
  BY <1>1 DEF Taken, Jobs, Needed
<1>3. Extracting'
  BY <1>1, <1>2 DEF IntakeInv, Extracting
<1>. QED BY <1>1, <1>3 DEF IntakeInv

(* The same for all steps.                                                  *)
LEMMA StepsKeep == IntakeInv /\ [IntakeNext]_intakeVars => IntakeInv'
<1> SUFFICES ASSUME IntakeInv, [IntakeNext]_intakeVars PROVE IntakeInv'
  OBVIOUS
<1>1. CASE UNCHANGED intakeVars
  <2>1. /\ UNCHANGED <<phase, items, parent, pair, waiting, reading, slots, texts>>
        /\ UNCHANGED <<failed, stopped, extracted>>
    BY <1>1 DEF intakeVars, pages, merge
  <2>2. phase = "comparing" => Merging'
    BY <2>1 DEF IntakeInv, Merging, Joins, Before, Story, SameStory
  <2>3. Taken' = Taken /\ Jobs(items)' = Jobs(items)
    BY <2>1 DEF Taken, Jobs, Needed
  <2>4. Extracting'
    BY <2>1, <2>3 DEF IntakeInv, Extracting
  <2>. QED BY <2>1, <2>2, <2>4 DEF IntakeInv
<1>2. CASE IntakeNext
  BY <1>2, CompareKeeps, PrepareKeeps, AcquireKeeps, GiveUpKeeps, EndsKeeps, ReturnKeeps, EndContextKeeps
  DEF IntakeNext
<1>. QED BY <1>1, <1>2

(* What is known of the merge and of the pages holds throughout. *)
THEOREM IntakeInvariance == IntakeSpec => []IntakeInv
<1>1. IntakeInv /\ [IntakeNext]_intakeVars => IntakeInv'
  BY StepsKeep
<1>. QED BY <1>1, FirstItemsKept, PTL DEF IntakeSpec

(* However many pages fail and whenever the run is cancelled, no more than  *)
(* Concurrency are read at once, and what Enrich returns is right: every    *)
(* page that is due has been tried unless it was cancelled.                 *)
THEOREM PagesAreTried == IntakeSpec => []EnrichIsComplete
<1>1. ASSUME IntakeInv PROVE EnrichIsComplete
  <2>1. /\ Jobs(items) \subseteq Needed(items) /\ IsFiniteSet(Jobs(items))
        /\ LET due == Cardinality(Needed(items))
           IN  Cardinality(Jobs(items)) = IF due < MaxItems THEN due ELSE MaxItems
    BY <1>1, JobsAreAsManyAsAllowed DEF IntakeInv, Extracting
  <2>2. phase = "done" => Taken = texts \cup failed
    BY <1>1 DEF IntakeInv, Extracting, Taken
  <2>. QED BY <1>1, <2>1, <2>2 DEF IntakeInv, Extracting, EnrichIsComplete
<1>. QED BY <1>1, IntakeInvariance, PTL

(* What the pages under way may still take: a place and an end, or an end. *)
PagesLeft == 2 * Cardinality(waiting) + Cardinality(reading)

PageStep == \E i \in 1 .. MaxFetched : Acquire(i) \/ GiveUp(i) \/ Ends(i)

(* They are finitely many, as the pages that are due are. *)
LEMMA PagesCounted ==
  ASSUME IntakeInv
  PROVE  /\ IsFiniteSet(waiting) /\ IsFiniteSet(reading) /\ waiting \cap reading = {}
         /\ Cardinality(waiting) \in Nat /\ Cardinality(reading) \in Nat
         /\ slots = Cardinality(reading)
<1>1. Extracting
  BY DEF IntakeInv
<1>2. IsFiniteSet(Jobs(items)) /\ waiting \subseteq Jobs(items)
  BY <1>1, JobsAreAsManyAsAllowed DEF Extracting, Taken
<1>. QED BY <1>1, <1>2, FS_Subset, FS_CardinalityType DEF Extracting

(* A page that waits wins a place, gives up, or is read to the end. *)
LEMMA PagesGoOn == ASSUME IntakeInv, PageStep PROVE PagesLeft' < PagesLeft
<1>1. /\ IsFiniteSet(waiting) /\ IsFiniteSet(reading) /\ waiting \cap reading = {}
      /\ Cardinality(waiting) \in Nat /\ Cardinality(reading) \in Nat
  BY PagesCounted
<1>2. ASSUME NEW i, Acquire(i) PROVE PagesLeft' < PagesLeft
  <2>1. i \in waiting /\ i \notin reading /\ waiting' = waiting \ {i} /\ reading' = reading \cup {i}
    BY <1>1, <1>2 DEF Acquire
  <2>2. Cardinality(waiting \ {i}) = Cardinality(waiting) - 1
    BY <1>1, <2>1, FS_RemoveElement
  <2>3. Cardinality(reading \cup {i}) = Cardinality(reading) + 1
    BY <1>1, <2>1, FS_AddElement
  <2>. QED BY <1>1, <2>1, <2>2, <2>3 DEF PagesLeft
<1>3. ASSUME NEW i, GiveUp(i) PROVE PagesLeft' < PagesLeft
  <2>1. i \in waiting /\ waiting' = waiting \ {i} /\ reading' = reading
    BY <1>3 DEF GiveUp
  <2>2. Cardinality(waiting \ {i}) = Cardinality(waiting) - 1
    BY <1>1, <2>1, FS_RemoveElement
  <2>. QED BY <1>1, <2>1, <2>2 DEF PagesLeft
<1>4. ASSUME NEW i, Ends(i) PROVE PagesLeft' < PagesLeft
  <2>1. i \in reading /\ waiting' = waiting /\ reading' = reading \ {i}
    BY <1>4 DEF Ends, PageRead, PageFailed
  <2>2. Cardinality(reading \ {i}) = Cardinality(reading) - 1
    BY <1>1, <2>1, FS_RemoveElement
  <2>. QED BY <1>1, <2>1, <2>2 DEF PagesLeft
<1>. QED BY <1>2, <1>3, <1>4 DEF PageStep

(* Enrich never waits for itself: while a goroutine waits, a place of the   *)
(* semaphore is free or a page is being read, and every step of a goroutine *)
(* brings the end nearer, which nothing puts off. This is the part of       *)
(* EnrichReturns that needs no fairness.                                    *)
THEOREM PagesEnd ==
    IntakeSpec => [][phase = "extracting" =>
                         /\ waiting # {} => reading # {} \/ slots < Concurrency
                         /\ PagesLeft \in Nat /\ PagesLeft' <= PagesLeft
                         /\ PageStep => PagesLeft' < PagesLeft]_intakeVars
<1> DEFINE GoesOn == phase = "extracting" =>
                         /\ waiting # {} => reading # {} \/ slots < Concurrency
                         /\ PagesLeft \in Nat /\ PagesLeft' <= PagesLeft
                         /\ PageStep => PagesLeft' < PagesLeft
<1>1. ASSUME IntakeInv, IntakeInv', [IntakeNext]_intakeVars, PagesLeft \in Nat, PagesLeft' \in Nat
      PROVE  GoesOn
  <2> SUFFICES ASSUME phase = "extracting"
               PROVE  /\ waiting # {} => reading # {} \/ slots < Concurrency
                      /\ PagesLeft' <= PagesLeft
                      /\ PageStep => PagesLeft' < PagesLeft
    BY <1>1
  <2>1. reading # {} \/ slots < Concurrency
    <3>1. slots = Cardinality(reading)
      BY <1>1, PagesCounted
    <3>2. reading = {} => slots = 0
      BY <3>1, FS_EmptySet
    <3>. QED BY <3>2, BoundsAssumption
  <2>2. CASE PageStep
    <3>1. PagesLeft' < PagesLeft
      BY <1>1, <2>2, PagesGoOn
    <3>. QED BY <1>1, <2>1, <3>1
  <2>3. CASE ~PageStep
    <3>1. UNCHANGED <<waiting, reading>>
      BY <1>1, <2>3
      DEF IntakeNext, PageStep, Compare, Prepare, Compared, Return, EndContext, intakeVars, pages
    <3>. QED BY <1>1, <2>1, <2>3, <3>1 DEF PagesLeft
  <2>. QED BY <2>2, <2>3
<1>2. IntakeInv => PagesLeft \in Nat
  <2> SUFFICES ASSUME IntakeInv PROVE PagesLeft \in Nat
    OBVIOUS
  <2>1. Cardinality(waiting) \in Nat /\ Cardinality(reading) \in Nat
    BY PagesCounted
  <2>. QED BY <2>1 DEF PagesLeft
<1>3. /\ IntakeInv /\ IntakeInv' /\ [IntakeNext]_intakeVars
      /\ PagesLeft \in Nat /\ (PagesLeft \in Nat)'
      => [GoesOn]_intakeVars
  BY <1>1
<1>. QED BY <1>2, <1>3, IntakeInvariance, PTL DEF IntakeSpec
-----------------------------------------------------------------------------
(* One item per story *)

(* The words of a description are finitely many.                            *)
LEMMA ItemsAreRanked == ASSUME Merging PROVE Ranked(items)
<1> SUFFICES ASSUME NEW i \in DOMAIN items PROVE Cardinality(items[i].desc) + items[i].content \in Int
  BY DEF Ranked
<1>1. items[i] \in Fetchable
  BY DEF Merging
<1>2. items[i].content \in Nat /\ IsFiniteSet(items[i].title \cup items[i].desc)
  BY <1>1, FetchableAssumption DEF ItemType
<1>3. Cardinality(items[i].desc) \in Nat
  BY <1>2, FS_Subset, FS_CardinalityType
<1>. QED BY <1>2, <1>3

(* A scan of a story settles on the item that outranks the others.          *)
LEMMA BestIsPick ==
  ASSUME Merging, pair[1] >= Len(items), NEW i \in Firsts
  PROVE  Best(i) = items[Pick(items, i)]
<1> DEFINE S == Story(items, i)
           b == Scan(S, i)[Len(items)]
<1>1. i \in DOMAIN items /\ Cluster(i) = S /\ \A j \in S : i <= j
  BY ClustersAreStories DEF Firsts
<1>2. Ranked(items) /\ items \in Seq(Fetchable)
  BY ItemsAreRanked DEF Merging
<1>3. S \in SUBSET DOMAIN items /\ i \in S
  BY <1>1, StoriesPart
<1>4. b \in S /\ \A j \in S \ {b} : Outranks(items, b, j)
  BY <1>1, <1>2, <1>3, ScanPicks
<1>5. \A x \in S : x \in DOMAIN items /\ x \in Int
  BY <1>3, FirstsAreFinite
<1>. HIDE DEF S, b
<1>6. ASSUME NEW c \in S, \A j \in S \ {c} : Outranks(items, c, j) PROVE c = b
  BY <1>2, <1>4, <1>5, <1>6, OutranksIsOrder
<1>7. Pick(items, i) = CHOOSE j \in S : \A k \in S \ {j} : Outranks(items, j, k)
  BY DEF Pick, S
<1>8. Pick(items, i) = b
  BY <1>4, <1>6, <1>7
<1>. QED BY <1>1, <1>8 DEF Best, b, S

(* The filter keeps what the lists want.                                    *)
LEMMA KeepsTheWanted == \A it : Keep(it) <=> Wanted(it)
<1> SUFFICES ASSUME NEW it PROVE Keep(it) <=> Wanted(it)
  OBVIOUS
<1>1. \A words : Words(it) \cap words # {} <=> \E w \in words : w \in it.title \/ w \in it.desc
  BY DEF Words
<1>. QED BY <1>1 DEF Keep, Wanted

(* Once all pairs are compared only Prepare can come next.                  *)
LEMMA OnlyPrepare == IntakeInv /\ IntakeNext /\ Compared => Prepare
<1> SUFFICES ASSUME IntakeInv, IntakeNext, Compared, ~Prepare PROVE FALSE
  OBVIOUS
<1>1. phase = "comparing" /\ pair[1] >= Len(items) /\ Merging
  BY DEF IntakeInv, Compared
<1>2. waiting = {} /\ reading = {} /\ pair[1] \in Int /\ Len(items) \in Int
  BY <1>1, FirstsAreFinite DEF Merging
<1>. QED BY <1>1, <1>2
  DEF IntakeNext, Compare, Acquire, GiveUp, Ends, PageRead, PageFailed, Return, EndContext

(* Of any items, met in any order, one of each story is left, the best, in  *)
(* the order of the stories, if the lists want it; none goes uncounted.     *)
THEOREM StoriesAreMerged == IntakeSpec => OneItemPerStory
<1> DEFINE Merged == /\ items' = [k \in 1 .. Cardinality(Left) |->
                                    items[Pick(items, InOrder(Left)[k])]]
                     /\ Len(items') + removed' = Len(items)
<1>1. ASSUME IntakeInv, [IntakeNext]_intakeVars, ~UNCHANGED intakeVars, Compared PROVE Merged
  <2>1. Prepare
    BY <1>1, OnlyPrepare
  <2>2. Merging /\ pair[1] >= Len(items)
    BY <1>1 DEF IntakeInv, Compared
  <2>3. Firsts = {i \in DOMAIN items : \A j \in Story(items, i) : i <= j}
    BY <2>2, ClustersAreStories DEF Firsts
  <2>4. {i \in Firsts : Keep(Best(i))} = Left
    BY <2>2, <2>3, BestIsPick, KeepsTheWanted DEF Left
  <2>5. /\ InOrder(Left) \in [1 .. Cardinality(Left) -> Left] /\ Cardinality(Left) \in Nat
        /\ items' = [k \in 1 .. Cardinality(Left) |-> Best(InOrder(Left)[k])]
    BY <1>1, <2>1, <2>4, Prepared
  <2>6. \A k \in 1 .. Cardinality(Left) :
            Best(InOrder(Left)[k]) = items[Pick(items, InOrder(Left)[k])]
    BY <2>2, <2>4, <2>5, BestIsPick
  <2>7. items' = [k \in 1 .. Cardinality(Left) |-> items[Pick(items, InOrder(Left)[k])]]
    BY <2>5, <2>6
  <2>8. Len(items') \in Nat /\ Len(items) \in Nat /\ removed' = Len(items) - Len(items')
    <3>1. DOMAIN items' = 1 .. Cardinality(Left)
      BY <2>5
    <3>2. Len(items') = Cardinality(Left)
      BY <2>5, <3>1
    <3>. QED BY <2>1, <2>2, <2>5, <3>2, FirstsAreFinite DEF Prepare
  <2>. QED BY <2>7, <2>8
<1>2. IntakeInv /\ [IntakeNext]_intakeVars => [Compared => Merged]_intakeVars
  BY <1>1
<1>. QED BY <1>2, IntakeInvariance, PTL DEF IntakeSpec, OneItemPerStory

=============================================================================
