----------------------------- MODULE Publication -----------------------------
(***************************************************************************)
(* One article from the pipeline's SaveArticles to the website: the row's  *)
(* status (src/internal/store), the publishing client with its retries     *)
(* (src/internal/publisher, src/pkg/backoff), and the requests that        *)
(* publish, retry and delete a row (src/internal/api/handler.go), which    *)
(* read the row, act, and write it back without a lock.                    *)
(* The website is external: it keeps one article per source URL and        *)
(* answers 409 to a second one.                                            *)
(***************************************************************************)
EXTENDS Integers

CONSTANTS
    Urls,          \* source URLs, the unique key of a row and of the website
    Requests,      \* API requests that may be open at once
    Sched,         \* the scheduled pipeline's publish stage
    MaxAttempts,   \* maxPublishAttempts
    MaxRows,       \* bound: rows ever inserted
    NoRow          \* the URL has no row

ASSUME UrlsAssumption   == Urls # {}
ASSUME SchedAssumption  == Sched \notin Requests
ASSUME AttemptsAssumption == MaxAttempts \in Nat \ {0} /\ MaxRows \in Nat
ASSUME NoRowAssumption  == NoRow \notin [id : Nat, status : STRING, ext : STRING]

Callers  == Requests \cup {Sched}
Ids      == 1 .. MaxRows
Statuses == {"pending", "skipped", "published", "failed"}
(* external_id: NULL, the website's id, or 0 when its reply did not parse. *)
Exts     == {"null", "known", "zero"}
Rows     == [id : Ids, status : Statuses, ext : Exts]
Outcomes == {"none", "published", "duplicate", "permanent_fail", "max_retries_hit"}

VARIABLES
    db,        \* the articles table
    inserted,  \* rows inserted so far: the next row gets the next id
    website,   \* URLs the website has an article for
    pc,        \* next step of each caller
    url, id,   \* the article a caller works on, and the row it read
    tries,     \* result.Attempts
    outcome,   \* result.Outcome
    remote,    \* result.RemoteID, as an external_id
    tried      \* history: ids of rows some request began to publish

articleTable    == <<db, inserted>>
attempt         == <<tries, outcome, remote>>
publicationVars == <<articleTable, website, pc, url, id, attempt, tried>>

PublicationInit ==
    /\ db = [u \in Urls |-> NoRow] /\ inserted = 0
    /\ website = {}
    /\ pc = [c \in Callers |-> "idle"]
    /\ url = [c \in Callers |-> CHOOSE u \in Urls : TRUE] /\ id = [c \in Callers |-> 0]
    /\ tries = [c \in Callers |-> 0]
    /\ outcome = [c \in Callers |-> "none"]
    /\ remote = [c \in Callers |-> "zero"]
    /\ tried = {}

HasRow(u) == db[u] # NoRow

(* The caller starts to work on u, for which it holds row n (0: none). *)
Take(c, u, n, step) ==
    /\ pc[c] = "idle"
    /\ pc' = [pc EXCEPT ![c] = step]
    /\ url' = [url EXCEPT ![c] = u]
    /\ id' = [id EXCEPT ![c] = n]
    /\ UNCHANGED <<website, attempt>>

(* The caller is done and its locals are gone. *)
Leave(c) ==
    /\ pc' = [pc EXCEPT ![c] = "idle"]
    /\ id' = [id EXCEPT ![c] = 0]
    /\ outcome' = [outcome EXCEPT ![c] = "none"]
    /\ remote' = [remote EXCEPT ![c] = "zero"]
    /\ UNCHANGED url

(* persistStage and publishStage for one article.  INSERT ... ON CONFLICT   *)
(* (source_url) DO NOTHING; a database error is logged and publishing goes  *)
(* on.  Articles that failed verification are saved and not published.      *)
SaveAndPublish(u, passing, dbError) ==
    /\ IF HasRow(u) \/ dbError
       THEN UNCHANGED articleTable
       ELSE /\ inserted < MaxRows
            /\ inserted' = inserted + 1
            /\ db' = [db EXCEPT ![u] = [id |-> inserted', ext |-> "null",
                                        status |-> IF passing THEN "pending" ELSE "skipped"]]
    /\ Take(Sched, u, 0, IF passing THEN "post" ELSE "idle")
    /\ UNCHANGED tried

(* PublishArticle: GetArticle, then Publish, whatever the row's status. *)
BeginPublish(c, u) ==
    /\ HasRow(u)
    /\ Take(c, u, db[u].id, "post")
    /\ tried' = tried \cup {db[u].id}
    /\ UNCHANGED articleTable

-----------------------------------------------------------------------------
(* publisher.Client.Publish *)

(* The outcome is known: a request marks its row, the scheduler counts it. *)
Conclude(c, o, ext) ==
    /\ tries' = [tries EXCEPT ![c] = 0]
    /\ IF c = Sched
       THEN Leave(c)
       ELSE /\ outcome' = [outcome EXCEPT ![c] = o]
            /\ remote' = [remote EXCEPT ![c] = ext]
            /\ pc' = [pc EXCEPT ![c] = "mark"]
            /\ UNCHANGED <<url, id>>

(* 2xx, the body readable or not; 409 if the website has the article. *)
Answered(c, readable) ==
    /\ pc[c] = "post"
    /\ IF url[c] \in website
       THEN Conclude(c, "duplicate", "zero")
       ELSE Conclude(c, "published", IF readable THEN "known" ELSE "zero")
    /\ website' = website \cup {url[c]}
    /\ UNCHANGED <<articleTable, tried>>

(* 4xx: no retry. *)
Refused(c) ==
    /\ pc[c] = "post"
    /\ Conclude(c, "permanent_fail", "zero")
    /\ UNCHANGED <<articleTable, website, tried>>

(* backoff.Retry: whether this attempt was the last. *)
LastAttemptLate(c) == tries[c] = MaxAttempts                      \* mutant: off by one
LastAttempt(c) == tries[c] + 1 = MaxAttempts
NotCounted(n) == n                                                \* mutant
Counted(n) == n + 1

(* 5xx, a timeout or a broken connection, before or after the website has   *)
(* stored the article: try again, MaxAttempts times in all.                 *)
PostFailed(c, stored) ==
    /\ pc[c] = "post"
    /\ website' = IF stored THEN website \cup {url[c]} ELSE website
    /\ IF LastAttempt(c)
       THEN Conclude(c, "max_retries_hit", "zero")
       ELSE /\ pc' = [pc EXCEPT ![c] = "backoff"]
            /\ tries' = [tries EXCEPT ![c] = Counted(@)]
            /\ UNCHANGED <<url, id, outcome, remote>>
    /\ UNCHANGED <<articleTable, tried>>

Retry(c) ==
    /\ pc[c] = "backoff"
    /\ pc' = [pc EXCEPT ![c] = "post"]
    /\ UNCHANGED <<articleTable, website, url, id, attempt, tried>>

(* The context ends during the wait: no more attempts, and the write of the *)
(* outcome, in the same context, fails and is ignored.                      *)
Cancelled(c) ==
    /\ pc[c] = "backoff"
    /\ tries' = [tries EXCEPT ![c] = 0]
    /\ Leave(c)
    /\ UNCHANGED <<articleTable, website, tried>>

-----------------------------------------------------------------------------
(* Writes of a row, by the id read earlier: nothing when that row is gone. *)

UpdateByUrl(c, status, ext) ==                                    \* mutant: WHERE source_url
    IF HasRow(url[c])
    THEN db' = [db EXCEPT ![url[c]].status = status, ![url[c]].ext = ext]
    ELSE UNCHANGED db
Update(c, status, ext) ==
    IF HasRow(url[c]) /\ db[url[c]].id = id[c]
    THEN db' = [db EXCEPT ![url[c]].status = status, ![url[c]].ext = ext]
    ELSE UNCHANGED db

ExtOf(u) == IF HasRow(u) THEN db[u].ext ELSE "null"

(* MarkPublished after a 2xx, MarkFailed (which leaves external_id) after   *)
(* anything else.  Its own error is ignored.                                *)
MarkRowUnlessRefused(c, dbError) ==                               \* mutant
    /\ pc[c] = "mark"
    /\ Leave(c)
    /\ IF dbError THEN UNCHANGED db
       ELSE IF outcome[c] # "permanent_fail"
            THEN Update(c, "published", remote[c])
            ELSE Update(c, "failed", ExtOf(url[c]))
    /\ UNCHANGED <<inserted, website, tries, tried>>
MarkRow(c, dbError) ==
    /\ pc[c] = "mark"
    /\ Leave(c)
    /\ IF dbError THEN UNCHANGED db
       ELSE IF outcome[c] = "published"
            THEN Update(c, "published", remote[c])
            ELSE Update(c, "failed", ExtOf(url[c]))
    /\ UNCHANGED <<inserted, website, tries, tried>>

(* RetryArticle: GetArticle and its status check ... *)
BeginRetry(c, u) ==
    /\ HasRow(u) /\ db[u].status = "failed"
    /\ Take(c, u, db[u].id, "reset")
    /\ UNCHANGED <<articleTable, tried>>

(* ... then MarkPending, which does not look at the status again. *)
ResetKeepsExt(c, dbError) ==                                      \* mutant: id not cleared
    /\ pc[c] = "reset"
    /\ Leave(c)
    /\ IF dbError THEN UNCHANGED db ELSE Update(c, "pending", ExtOf(url[c]))
    /\ UNCHANGED <<inserted, website, tries, tried>>
Reset(c, dbError) ==
    /\ pc[c] = "reset"
    /\ Leave(c)
    /\ IF dbError THEN UNCHANGED db ELSE Update(c, "pending", "null")
    /\ UNCHANGED <<inserted, website, tries, tried>>

(* DeleteArticle, or PruneArticles of an old row. *)
Delete(u) ==
    /\ HasRow(u)
    /\ db' = [db EXCEPT ![u] = NoRow]
    /\ UNCHANGED <<inserted, website, pc, url, id, attempt, tried>>

PublishCall(c) ==
    \/ \E readable \in BOOLEAN : Answered(c, readable)
    \/ Refused(c)
    \/ \E stored \in BOOLEAN : PostFailed(c, stored)
    \/ Retry(c)
    \/ Cancelled(c)

Continue(c) ==
    \/ PublishCall(c)
    \/ \E dbError \in BOOLEAN : MarkRow(c, dbError) \/ Reset(c, dbError)

PublicationNext ==
    \/ \E u \in Urls :
           \/ \E passing, dbError \in BOOLEAN : SaveAndPublish(u, passing, dbError)
           \/ \E c \in Requests : BeginPublish(c, u) \/ BeginRetry(c, u)
           \/ Delete(u)
    \/ \E c \in Callers : Continue(c)

PublicationSpec == PublicationInit /\ [][PublicationNext]_publicationVars

(* The HTTP client times out and a wait ends. *)
PublicationFairness == \A c \in Callers : WF_publicationVars(Continue(c))

-----------------------------------------------------------------------------
(* Every variable has its type. *)
PublicationTypeOK ==
    /\ db \in [Urls -> Rows \cup {NoRow}] /\ inserted \in 0 .. MaxRows
    /\ website \subseteq Urls /\ tried \subseteq Ids
    /\ pc \in [Callers -> {"idle", "post", "backoff", "mark", "reset"}]
    /\ url \in [Callers -> Urls] /\ id \in [Callers -> 0 .. MaxRows]
    /\ tries \in [Callers -> 0 .. MaxAttempts - 1]
    /\ outcome \in [Callers -> Outcomes] /\ remote \in [Callers -> Exts]

(* A row marked published is on the website and carries the id of a reply,  *)
(* however publishes, retries and deletions of it overlapped.               *)
PublishedIsOnSite ==
    \A u \in Urls : HasRow(u) /\ db[u].status = "published" => u \in website /\ db[u].ext # "null"

(* A row that waits to be published shows no external id left by an earlier *)
(* publication, whatever it went through before.                            *)
PendingHasNoId ==
    \A u \in Urls : HasRow(u) /\ db[u].status \in {"pending", "skipped"} => db[u].ext = "null"

(* A publish under way when its row is deleted leaves no trace in the row   *)
(* that a later run inserts for the same URL.                               *)
OutcomeIsOwn ==
    \A u \in Urls : HasRow(u) /\ db[u].status \in {"published", "failed"} => db[u].id \in tried

(* Publish gives up or succeeds, and the request that called it ends.       *)
RequestsReturn == \A c \in Callers : pc[c] # "idle" ~> pc[c] = "idle"
=============================================================================
