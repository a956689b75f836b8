------------------------------- MODULE Library -------------------------------
(***************************************************************************)
(* The articles table and the calls that walk through it in several        *)
(* statements: the export (src/internal/api/export.go), which pages        *)
(* through ListArticles, and the backfill of full texts                    *)
(* (src/internal/api/backfill.go), which reads the pages of a list of      *)
(* articles in batches.  Runs save articles, users delete them, read or    *)
(* bookmark them, they are published, and retention                        *)
(* (src/internal/retention) prunes them meanwhile.                         *)
(***************************************************************************)
EXTENDS Integers, Sequences, FiniteSets

CONSTANTS
    Fillers,       \* backfill calls
    PageSize,      \* exportPageSize
    MaxExportRows, \* maxExportRows
    Limit,         \* limit of a backfill call
    BatchSize,     \* backfillBatchSize
    Days,          \* RETENTION_DAYS, in turns of the retention loop
    Ranks,         \* ranks that the filter and the query of the export give
    Batches,       \* bound: what one run saves, by which items have a text
    MaxExports,    \* bound: exports, one or none
    MaxId,         \* bound: articles ever saved
    MaxNow,        \* bound: clock
    Null           \* an id without an article

ASSUME SizesAssumption ==
    /\ PageSize \in Nat \ {0} /\ MaxExportRows \in Nat \ {0}
    /\ Limit \in Nat \ {0} /\ BatchSize \in Nat \ {0}
    /\ Days \in Nat \ {0}
    /\ Ranks \subseteq Nat /\ MaxExports \in {0, 1}
    /\ MaxId \in Nat /\ MaxNow \in Nat /\ Batches \subseteq Seq(BOOLEAN)

ArticleIds == 1 .. MaxId

(* Of a row the calls ask its time, whether it has a text (or no page to    *)
(* take one from), and its rank for the export: 0 where the filter leaves   *)
(* it out, else its place by ts_rank, one for all rows without a query.     *)
Row == [created : 0 .. MaxNow, text : BOOLEAN, rank : Ranks]
ASSUME NullAssumption == Null \notin Row

VARIABLES
    now,           \* turns of the retention loop so far
    articles,      \* id -> its row, or Null
    lastId,        \* serial of the table
    export,        \* one export
    fill           \* each backfill call

content     == <<articles, lastId>>
libraryVars == <<now, content, export, fill>>

NoExport == [pc |-> "idle", page |-> 1, rows |-> <<>>, total |-> -1,
             calm |-> TRUE, same |-> TRUE, tied |-> FALSE]
NoFill   == [pc |-> "idle", refs |-> <<>>, texts |-> {}, at |-> 1, last |-> 0, updated |-> 0, failed |-> 0,
             remaining |-> 0, before |-> 0, calm |-> TRUE]

LibraryInit ==
    /\ now = 0
    /\ articles = [i \in ArticleIds |-> Null] /\ lastId = 0
    /\ export = NoExport
    /\ fill = [f \in Fillers |-> NoFill]

Present == {i \in ArticleIds : articles[i] # Null}
Missing == {i \in Present : ~articles[i].text}

(* The rows an export asks for, and its order: ts_rank, then created_at,  *)
(* both descending.                                                      *)
Matching     == {i \in Present : articles[i].rank > 0}
Before(i, j) == \/ articles[i].rank > articles[j].rank
                \/ articles[i].rank = articles[j].rank /\ articles[i].created > articles[j].created
Tied         == \E i, j \in Matching : i # j /\ ~Before(i, j) /\ ~Before(j, i)

(* Calls in progress learn that articles came, went or lost their need of *)
(* a text under them; for the export, that rows came, went or moved       *)
(* (calm), that those it asks for are others (same), that two are tied.   *)
Running(call) == call.pc \notin {"idle", "done", "error"}
Startled(others) ==
    fill' = [f \in Fillers |->
        IF f \in others /\ Running(fill[f]) THEN [fill[f] EXCEPT !.calm = FALSE, !.before = 0] ELSE fill[f]]
Shifted ==
    export' = IF Running(export)
              THEN [export EXCEPT !.calm = FALSE, !.same = @ /\ Matching' = Matching, !.tied = @ \/ Tied']
              ELSE export

-----------------------------------------------------------------------------
(* Runs, users, retention *)

(* SaveArticles inserts a batch in one transaction, which has one time. *)
(* What they are to an export is up to them.                            *)
Save(texts) ==
    LET saved == lastId + 1 .. lastId + Len(texts)
    IN  /\ lastId + Len(texts) <= MaxId
        /\ \E rank \in [1 .. Len(texts) -> Ranks] :
              articles' = [i \in ArticleIds |->
                  IF i \in saved THEN [created |-> now, text |-> texts[i - lastId], rank |-> rank[i - lastId]]
                  ELSE articles[i]]
        /\ lastId' = lastId + Len(texts)
        /\ Startled(Fillers) /\ Shifted
        /\ UNCHANGED now

(* A row that is published, given up, retried, read or bookmarked enters *)
(* the filter of the export, or leaves it.                               *)
Amend(i) ==
    /\ i \in Present
    /\ \E r \in Ranks :
          /\ r = 0 <=> articles[i].rank > 0
          /\ articles' = [articles EXCEPT ![i] = [@ EXCEPT !.rank = r]]
    /\ Shifted
    /\ UNCHANGED <<now, lastId, fill>>

Without(gone) == [i \in ArticleIds |-> IF i \in gone THEN Null ELSE articles[i]]

DeleteArticle(i) ==
    /\ i \in Present
    /\ articles' = Without({i})
    /\ Startled(Fillers) /\ Shifted
    /\ UNCHANGED <<now, lastId>>

Old(time) == {i \in Present : articles[i].created < time - Days}

(* Run: the statement on articles comes after one on run_logs, whatever *)
(* that did, and may fail.                                              *)
Prune(time) ==
    /\ articles' \in {Without(Old(time)), articles}
    /\ IF articles' # articles THEN Startled(Fillers) /\ Shifted ELSE UNCHANGED <<fill, export>>
    /\ UNCHANGED lastId

(* A process in schedule mode prunes after its run. *)
PruneOnce ==
    /\ Prune(now)
    /\ UNCHANGED now

(* The loop of the server prunes once a day; the clock counts its turns. *)
Tick ==
    /\ now < MaxNow
    /\ now' = now + 1
    /\ Prune(now')

-----------------------------------------------------------------------------
(* Export *)

(* ORDER BY: rows of one rank and time come in any order, and in another *)
(* one for the next page.                                                *)
Orders ==
    {s \in [1 .. Cardinality(Matching) -> Matching] :
        \A i, j \in DOMAIN s : i < j => s[i] # s[j] /\ ~Before(s[j], s[i])}
Page(s, p) == SubSeq(s, (p - 1) * PageSize + 1, IF p * PageSize < Len(s) THEN p * PageSize ELSE Len(s))

StartExport ==
    /\ export.pc = "idle" /\ MaxExports > 0
    /\ export' = [NoExport EXCEPT !.pc = "page", !.tied = Tied]
    /\ UNCHANGED <<now, content, fill>>

(* The rows of ListArticles; the count is a statement of its own. *)
ReadPage ==
    /\ export.pc = "page"
    /\ \E s \in Orders :
          LET rows == Page(s, export.page)
          IN  export' = [export EXCEPT !.pc = "count", !.rows = @ \o rows, !.page = @ + 1]
    /\ UNCHANGED <<now, content, fill>>

(* Where the loop goes after a page, given the total it goes by.          *)
(* Mutant: the cap ends the export instead of refusing it.                *)
Full(e) == Len(e.rows) = (e.page - 1) * PageSize
AfterTruncating(e, total) ==
    IF ~Full(e) \/ Len(e.rows) >= total \/ Len(e.rows) >= MaxExportRows THEN "done" ELSE "page"
AfterPage(e, total) ==
    IF ~Full(e) \/ Len(e.rows) >= total THEN "done"
    ELSE IF Len(e.rows) >= MaxExportRows THEN "error" ELSE "page"

Ended(pc) == [NoExport EXCEPT !.pc = pc]           \* the handler has returned
CountRows ==
    /\ export.pc = "count"
    /\ LET total == IF export.total < 0 THEN Cardinality(Matching) ELSE export.total
           pc    == AfterPage(export, total)
       IN  export' = IF pc = "page" THEN [export EXCEPT !.total = total, !.pc = pc] ELSE Ended(pc)
    /\ UNCHANGED <<now, content, fill>>

(* A statement fails, or the client goes away. *)
ExportFails ==
    /\ Running(export)
    /\ export' = Ended("error")
    /\ UNCHANGED <<now, content, fill>>

-----------------------------------------------------------------------------
(* Backfill *)

SetFill(f, call) ==
    /\ fill' = [fill EXCEPT ![f] = call]
    /\ UNCHANGED <<now, lastId, export>>

(* ORDER BY id LIMIT *)
Oldest(ids) ==
    LET n == IF Cardinality(ids) < Limit THEN Cardinality(ids) ELSE Limit
    IN  {s \in [1 .. n -> ids] : /\ \A i, j \in 1 .. n : i < j => s[i] < s[j]
                                /\ \A x \in ids, i \in 1 .. n : x < s[i] => \E j \in 1 .. i : s[j] = x}

ListMissing(f) ==
    /\ fill[f].pc = "idle"
    /\ \E refs \in Oldest(Missing) :
          SetFill(f, [NoFill EXCEPT !.pc = "count", !.refs = refs, !.before = Cardinality(Missing)])
    /\ UNCHANGED articles

CountMissing(f) ==
    /\ fill[f].pc = "count"
    /\ SetFill(f, [fill[f] EXCEPT !.pc = IF fill[f].refs = <<>> THEN "done" ELSE "enrich",
                               !.remaining = Cardinality(Missing)])
    /\ UNCHANGED articles

(* Enrich gives a text for some of the pages of the next batch. *)
EnrichBatch(f) ==
    LET call == fill[f]
        end  == call.at + BatchSize - 1
        last == IF end < Len(call.refs) THEN end ELSE Len(call.refs)
    IN  /\ call.pc = "enrich"
        /\ \E got \in SUBSET {call.refs[k] : k \in call.at .. last} :
              SetFill(f, [call EXCEPT !.pc = "update", !.last = last, !.texts = got])
        /\ UNCHANGED articles

(* The loop over the batch: next item, next batch, answer. *)
Advanced(call) ==
    [call EXCEPT !.at = @ + 1,
                 !.pc = IF call.at = Len(call.refs) THEN "done"
                        ELSE IF call.at = call.last THEN "enrich" ELSE "update"]

(* Mutants: a failure lowers the number of those that remain, or is not *)
(* counted.                                                             *)
Writes(call, i)       == i \in call.texts
LowersRemaining(call) == [call EXCEPT !.failed = @ + 1, !.remaining = @ - 1]
Uncounted(call)       == call
CountsFailure(call)   == [call EXCEPT !.failed = @ + 1]
CountsUpdate(call)    == [call EXCEPT !.updated = @ + 1, !.remaining = @ - 1]

(* search_tsv is generated from title, summary and text: a first text can *)
(* make the row match, and changes its rank; one that replaces another can *)
(* do anything.                                                            *)
NewRanks(row) == {r \in Ranks : r > 0 \/ row.rank = 0 \/ row.text}

(* UPDATE ... WHERE id: nothing happens to a row that is gone. *)
WriteText(i) ==
    IF i \in Present
    THEN /\ \E r \in NewRanks(articles[i]) :
               articles' = [articles EXCEPT ![i] = [@ EXCEPT !.text = TRUE, !.rank = r]]
         /\ IF articles'[i].rank # articles[i].rank THEN Shifted ELSE UNCHANGED export
    ELSE UNCHANGED <<articles, export>>

(* The call counts a row that is gone as updated. *)
UpdateOne(f) ==
    LET call == fill[f]
        i    == call.refs[call.at]
    IN  /\ call.pc = "update"
        /\ \/ /\ ~Writes(call, i)                              \* no text
              /\ SetFill(f, Advanced(CountsFailure(call)))
              /\ UNCHANGED articles
           \/ /\ Writes(call, i)                               \* the statement fails
              /\ SetFill(f, Advanced(CountsFailure(call)))
              /\ UNCHANGED articles
           \/ /\ Writes(call, i)
              /\ WriteText(i)
              /\ fill' = [g \in Fillers |->
                     IF g = f THEN Advanced(CountsUpdate(call))
                     ELSE IF Running(fill[g]) THEN [fill[g] EXCEPT !.calm = FALSE, !.before = 0] ELSE fill[g]]
              /\ UNCHANGED <<now, lastId>>
-----------------------------------------------------------------------------
FillStep(f) == ListMissing(f) \/ CountMissing(f) \/ EnrichBatch(f) \/ UpdateOne(f)
LibraryNext ==
    \/ \E texts \in Batches : Save(texts)
    \/ \E i \in ArticleIds : Amend(i) \/ DeleteArticle(i)
    \/ PruneOnce \/ Tick
    \/ StartExport \/ ReadPage \/ CountRows \/ ExportFails
    \/ \E f \in Fillers : FillStep(f)
LibrarySpec == LibraryInit /\ [][LibraryNext]_libraryVars

-----------------------------------------------------------------------------
(* Properties *)

LibraryTypeOK ==
    /\ now \in 0 .. MaxNow
    /\ articles \in [ArticleIds -> Row \cup {Null}] /\ lastId \in 0 .. MaxId
    /\ \A i \in Present : i <= lastId /\ articles[i].created <= now
    /\ export.pc \in {"idle", "page", "count", "done", "error"} /\ export.rows \in Seq(ArticleIds)
    /\ {export.calm, export.same, export.tied} \subseteq BOOLEAN /\ export.total \in -1 .. MaxId
    /\ \A f \in Fillers :
          LET call == fill[f]
          IN  /\ call.pc \in {"idle", "count", "enrich", "update", "done"}
              /\ call.refs \in Seq(ArticleIds) /\ Len(call.refs) <= Limit
              /\ call.updated + call.failed = call.at - 1 /\ call.at <= Len(call.refs) + 1
              /\ call.pc = "done" => call.at = Len(call.refs) + 1
              /\ call.remaining \in -Limit .. MaxId

(* An export that is answered holds every row it asks for exactly once, and *)
(* one that is refused would have held more than the cap (export.go: "an    *)
(* export always contains every matching row (up to maxExportRows)"), as    *)
(* long as no row comes, goes or moves in the order meanwhile and no two    *)
(* are tied.                                                                *)
Exact(e) ==
    /\ Len(e.rows) = Cardinality(Matching)
    /\ {e.rows[k] : k \in DOMAIN e.rows} = Matching
ExportIsExact ==
    [][export.pc = "count" /\ export.calm /\ ~export.tied /\ UNCHANGED content =>
          /\ export'.pc = "done" => Exact(export)
          /\ CountRows /\ export'.pc = "error" => Cardinality(Matching) > MaxExportRows]_libraryVars

(* Violated: the same (export.go: "contains every matching row") whenever    *)
(* the rows to export are the same all the time.  The code asks for no      *)
(* order among the articles one run saved; and with a query it pages by a   *)
(* rank that a backfill changes.                                            *)
ExportIsComplete ==
    [][export.pc = "count" /\ export.same /\ export'.pc = "done" => Exact(export)]_libraryVars

(* When a backfill answers and nobody else touched the articles meanwhile, *)
(* it has given as many of them a text as it says, and as many as it says  *)
(* are still without one.                                                  *)
BackfillReportIsTrue ==
    [][\A f \in Fillers :
          fill[f].pc # "done" /\ fill'[f].pc = "done" /\ fill[f].calm =>
              /\ fill'[f].remaining = Cardinality(Missing')
              /\ fill'[f].updated = fill[f].before - Cardinality(Missing')]_libraryVars
=============================================================================
