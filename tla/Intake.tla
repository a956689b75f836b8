-------------------------------- MODULE Intake --------------------------------
(***************************************************************************)
(* What a run does with the fetched items before the language model sees   *)
(* them: items about one story are merged (src/internal/dedup), the        *)
(* keyword filter prunes the rest (src/internal/filter), and the original  *)
(* pages of items without full text are read by goroutines, a few at a     *)
(* time (src/internal/extract).  fetchStage and extractStage of            *)
(* src/internal/scheduler/scheduler.go call them in this order.            *)
(***************************************************************************)
EXTENDS Integers, Sequences, FiniteSets

CONSTANTS
    Fetchable,     \* items a fetch may return: records of ItemType
    MaxFetched,    \* bound: items of one fetch
    Tokens,        \* words that count: no stop words, two letters or more
    Domains, TrustedDomains,
    MinTokens,     \* titles of fewer tokens are never merged
    MinLength,     \* content that needs no page
    MaxItems,      \* pages one call of Enrich reads
    Concurrency,   \* pages read at once
    Filters        \* keyword lists a deployment may configure

ItemType == [title : SUBSET Tokens, desc : SUBSET Tokens, domain : Domains,
             content : Nat, linked : BOOLEAN]

ASSUME FetchableAssumption ==
    \A it \in Fetchable : it \in ItemType /\ IsFiniteSet(it.title \cup it.desc)
ASSUME DomainAssumption == TrustedDomains \subseteq Domains
                           /\ Filters \subseteq [white : SUBSET Tokens, black : SUBSET Tokens]
ASSUME BoundsAssumption ==
    /\ MaxFetched \in Nat /\ MinTokens \in Nat /\ MinLength \in Nat
    /\ MaxItems \in Nat \ {0} /\ Concurrency \in Nat \ {0}

VARIABLES
    phase,        \* "comparing", "extracting", "done"
    lists,        \* KEYWORD_WHITELIST and KEYWORD_BLACKLIST
    items,        \* the items of the run
    parent, pair, \* the forest of the merge, and the pair to compare next
    removed,      \* items the merge and the filter took out
    waiting,      \* goroutines before the semaphore
    reading,      \* goroutines that passed it
    slots,        \* places of the semaphore in use
    texts,        \* items whose ContentText is filled
    failed,       \* pages that gave no text
    stopped,      \* the context of the run is done
    extracted     \* what Enrich returned

pages      == <<waiting, reading, slots, texts, failed>>
merge      == <<parent, pair>>
intakeVars == <<phase, lists, items, merge, removed, pages, stopped, extracted>>

IntakeInit ==
    /\ phase = "comparing"
    /\ lists \in Filters
    /\ \E n \in 0 .. MaxFetched : items \in [1 .. n -> Fetchable]
    /\ parent = [i \in DOMAIN items |-> i] /\ pair = <<1, 2>>
    /\ removed = 0
    /\ waiting = {} /\ reading = {} /\ slots = 0 /\ texts = {} /\ failed = {}
    /\ stopped = FALSE /\ extracted = 0

-----------------------------------------------------------------------------
(* Items about one story *)

(* jaccard(a, b) >= similarityThreshold, without the division. *)
Similar(a, b) == 2 * Cardinality(a \cap b) >= Cardinality(a \cup b)

SameStory(a, b) ==
    /\ Cardinality(a.title) >= MinTokens /\ Cardinality(b.title) >= MinTokens
    /\ a.domain # b.domain
    /\ Similar(a.title, b.title)

(* find walks up the parents to a root, which is its own parent, and hangs *)
(* every item on its way below it.                                         *)
Above(f, x) ==
    {y \in DOMAIN f : \A s \in SUBSET DOMAIN f : x \in s /\ (\A z \in s : f[z] \in s) => y \in s}
Root(f, x) == CHOOSE r \in Above(f, x) : f[r] = r

(* parent[find(i)] = find(j).                                              *)
(* Mutant: the item is hung below the other one's root, without its tree.  *)
HangItem(i, j) == [parent EXCEPT ![i] = Root(parent, j)]
Union(i, j)    ==
    LET over == Root(parent, i)
        root == Root(parent, j)
    IN  [x \in DOMAIN parent |-> IF x = over \/ x \in Above(parent, j) THEN root
                                 ELSE IF x \in Above(parent, i) THEN over ELSE parent[x]]

(* One turn of the two loops over the pairs. *)
Compare ==
    LET i == pair[1]
        j == pair[2]
    IN  /\ phase = "comparing" /\ i < Len(items)
        /\ pair' = IF j < Len(items) THEN <<i, j + 1>> ELSE <<i + 1, i + 2>>
        /\ parent' = IF SameStory(items[i], items[j]) THEN Union(i, j) ELSE parent
        /\ UNCHANGED <<phase, lists, items, removed, pages, stopped, extracted>>

Compared == phase = "comparing" /\ pair[1] >= Len(items)

IsBetter(a, b) ==
    \/ a.domain \in TrustedDomains /\ b.domain \notin TrustedDomains
    \/ /\ a.domain \in TrustedDomains <=> b.domain \in TrustedDomains
       /\ Cardinality(a.desc) + a.content > Cardinality(b.desc) + b.content

(* The clusters go by their first members; of each there is the item that *)
(* a scan in input order settles on.                                      *)
Cluster(i) == {j \in DOMAIN items : Root(parent, j) = Root(parent, i)}
Firsts     == {i \in DOMAIN items : \A j \in Cluster(i) : i <= j}
Scan(members, first) ==
    LET best[m \in Nat] ==
            IF m <= first THEN first
            ELSE IF m \in members /\ IsBetter(items[m], items[best[m - 1]]) THEN m ELSE best[m - 1]
    IN  best
Best(i) == items[Scan(Cluster(i), i)[Len(items)]]

-----------------------------------------------------------------------------
(* Keywords *)

Words(it) == it.title \cup it.desc

Keep(it) ==
    /\ lists.white # {} => Words(it) \cap lists.white # {}
    /\ Words(it) \cap lists.black = {}

-----------------------------------------------------------------------------
(* Original pages *)

(* Mutant: items beyond the limit are left out before it is known which *)
(* of them need a page.                                                 *)
Needed(its)      == {i \in DOMAIN its : its[i].content < MinLength /\ its[i].linked}
JobsOfFirst(its) == {i \in Needed(its) : i <= MaxItems}
Jobs(its)        == {i \in Needed(its) : Cardinality({j \in Needed(its) : j < i}) < MaxItems}

InOrder(set) ==
    CHOOSE s \in [1 .. Cardinality(set) -> set] : \A k, l \in DOMAIN s : k < l => s[k] < s[l]

(* fetchStage merges, filters, and hands what is left to Enrich, when an *)
(* extractor is wired.                                                   *)
Prepare ==
    /\ Compared
    /\ phase' = "extracting"
    /\ parent' = <<>> /\ pair' = <<1, 2>>
    /\ \E kept \in {InOrder({i \in Firsts : Keep(Best(i))})} :
          items' = [k \in DOMAIN kept |-> Best(kept[k])]
    /\ removed' = Len(items) - Len(items')
    /\ waiting' \in {Jobs(items'), {}}
    /\ UNCHANGED <<lists, reading, slots, texts, failed, stopped, extracted>>

Acquire(i) ==
    /\ i \in waiting /\ slots < Concurrency
    /\ waiting' = waiting \ {i} /\ reading' = reading \cup {i} /\ slots' = slots + 1
    /\ UNCHANGED <<phase, lists, items, merge, removed, texts, failed, stopped, extracted>>

(* The select takes either branch when both are ready. *)
GiveUp(i) ==
    /\ stopped /\ i \in waiting
    /\ waiting' = waiting \ {i}
    /\ UNCHANGED <<phase, lists, items, merge, removed, reading, slots, texts, failed, stopped, extracted>>

PageRead(i) ==
    /\ i \in reading
    /\ reading' = reading \ {i} /\ slots' = slots - 1
    /\ texts' = texts \cup {i}
    /\ UNCHANGED <<phase, lists, items, merge, removed, waiting, failed, stopped, extracted>>

(* Mutant: only a page that was read gives its slot back. *)
FailedKeepsSlot == slots
SlotsAfterFailure == slots - 1

(* An error, a page that is too short, the timeout or the cancellation. *)
PageFailed(i) ==
    /\ i \in reading
    /\ reading' = reading \ {i} /\ slots' = SlotsAfterFailure
    /\ failed' = failed \cup {i}
    /\ UNCHANGED <<phase, lists, items, merge, removed, waiting, texts, stopped, extracted>>

Return ==
    /\ phase = "extracting" /\ waiting = {} /\ reading = {}
    /\ phase' = "done"
    /\ extracted' = Cardinality(texts)
    /\ UNCHANGED <<lists, items, merge, removed, pages, stopped>>

EndContext ==
    /\ phase = "extracting" /\ ~stopped
    /\ stopped' = TRUE
    /\ UNCHANGED <<phase, lists, items, merge, removed, pages, extracted>>

Ends(i) == PageRead(i) \/ PageFailed(i)
IntakeNext ==
    \/ Compare \/ Prepare
    \/ \E i \in 1 .. MaxFetched : Acquire(i) \/ GiveUp(i) \/ Ends(i)
    \/ Return \/ EndContext
IntakeSpec == IntakeInit /\ [][IntakeNext]_intakeVars

(* Goroutines are scheduled, a page is answered or times out, and as long  *)
(* as a slot is free and wanted, one of those that wait for it gets it.    *)
IntakeFairness ==
    /\ \A i \in 1 .. MaxFetched : WF_intakeVars(Ends(i))
    /\ WF_intakeVars(\E i \in 1 .. MaxFetched : Acquire(i)) /\ WF_intakeVars(Return)

-----------------------------------------------------------------------------
(* Properties *)

(* Items are one story when a chain of similar titles of different sources *)
(* joins them.                                                             *)
Story(its, i) ==
    LET closed(s) == \A a \in s, b \in DOMAIN its : SameStory(its[a], its[b]) => b \in s
    IN  {j \in DOMAIN its : \A s \in SUBSET DOMAIN its : i \in s /\ closed(s) => j \in s}

(* First a trusted source, then the longest text, then the first item. *)
Outranks(its, a, b) ==
    LET trust(i)  == its[i].domain \in TrustedDomains
        length(i) == Cardinality(its[i].desc) + its[i].content
    IN  IF trust(a) # trust(b) THEN trust(a)
        ELSE length(a) > length(b) \/ (length(a) = length(b) /\ a < b)

Pick(its, i) == CHOOSE j \in Story(its, i) : \A k \in Story(its, i) \ {j} : Outranks(its, j, k)
Wanted(it)   ==
    LET speaks(words) == \E w \in words : w \in it.title \/ w \in it.desc
    IN  (lists.white = {} \/ speaks(lists.white)) /\ ~speaks(lists.black)
Left == {i \in DOMAIN items : Wanted(items[Pick(items, i)]) /\ \A j \in Story(items, i) : i <= j}

(* Of each story one item is left, the best by source, text and place, in  *)
(* the order in which the stories were first met, if the keyword lists     *)
(* want that item, and every item that went is counted: the union of trees *)
(* (dedup.go) finds the stories in whatever order the pairs come, and the  *)
(* lists (filter.go) "whitelist applies first, blacklist prunes the        *)
(* survivors".  A story may hold two items of one source, joined by a      *)
(* third (SourcesStayApart).                                               *)
OneItemPerStory ==
    [][Compared =>
         /\ items' = [k \in 1 .. Cardinality(Left) |-> items[Pick(items, InOrder(Left)[k])]]
         /\ Len(items') + removed' = Len(items)]_intakeVars

(* "Never merge articles from the same source domain" (ByTitle; the test   *)
(* TestByTitle_SameDomainNotMerged has two such items alone): no two items *)
(* of one domain are in one cluster.  They are when each is similar to an  *)
(* item of another domain: only the pair itself is never joined.           *)
SourcesStayApart ==
    Compared => \A i \in DOMAIN items :
        \A j, k \in Cluster(i) : items[j].domain = items[k].domain => j = k

(* No more than Concurrency pages are read at once.  Unless the run is     *)
(* cancelled every page that is due has been tried when Enrich returns: as *)
(* many as the limit allows of those that are needed.  What it returns is  *)
(* the number of texts.                                                    *)
EnrichIsComplete ==
    /\ Cardinality(reading) <= Concurrency
    /\ phase = "done" =>
           /\ extracted = Cardinality(texts)
           /\ texts \cap failed = {} /\ texts \cup failed \subseteq Needed(items)
           /\ ~stopped /\ texts \cup failed # {} =>
                  LET due == Cardinality(Needed(items))
                  IN  Cardinality(texts \cup failed) = IF due < MaxItems THEN due ELSE MaxItems

(* Enrich returns, cancelled or not: no goroutine waits for a slot that is *)
(* never given back.                                                       *)
EnrichReturns == phase = "extracting" ~> phase = "done"
=============================================================================
