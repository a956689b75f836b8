-------------------------- MODULE Publication_proofs --------------------------
(***************************************************************************)
(* The articles table, for any number of URLs, rows, calls and attempts:   *)
(* what holds of an article's row on its way to the website (Publication), *)
(* and of the calls that walk through the table (Library).                 *)
(***************************************************************************)
EXTENDS Publication, Library, FiniteSetTheorems, SequenceTheorems, TLAPS

(* The initial state has the types. *)
LEMMA InitTypeOK == PublicationInit => PublicationTypeOK
<1> SUFFICES ASSUME PublicationInit PROVE PublicationTypeOK
  OBVIOUS
<1>1. db \in [Urls -> Rows \cup {NoRow}] /\ website \subseteq Urls /\ tried \subseteq Ids
  BY DEF PublicationInit
<1>2. (CHOOSE u \in Urls : TRUE) \in Urls
  BY UrlsAssumption
<1>3. url \in [Callers -> Urls]
  BY <1>2 DEF PublicationInit
<1>4. /\ inserted \in 0 .. MaxRows
      /\ id \in [Callers -> 0 .. MaxRows] /\ tries \in [Callers -> 0 .. MaxAttempts - 1]
  BY AttemptsAssumption DEF PublicationInit
<1>5. /\ pc \in [Callers -> {"idle", "post", "backoff", "mark", "reset"}]
      /\ outcome \in [Callers -> Outcomes] /\ remote \in [Callers -> Exts]
  BY DEF PublicationInit, Outcomes, Exts
<1>. QED
  BY <1>1, <1>3, <1>4, <1>5 DEF PublicationTypeOK

(* Writing a row keeps it a row. *)
LEMMA UpdateType ==
  ASSUME PublicationTypeOK, NEW c \in Callers, NEW status \in Statuses, NEW ext \in Exts,
         Update(c, status, ext)
  PROVE  db' \in [Urls -> Rows \cup {NoRow}]
<1>1. CASE HasRow(url[c]) /\ db[url[c]].id = id[c]
  <2>1. db[url[c]] \in Rows
    BY <1>1 DEF PublicationTypeOK, HasRow
  <2>2. db' = [db EXCEPT ![url[c]] = [id |-> db[url[c]].id, status |-> status, ext |-> ext]]
    BY <1>1, <2>1 DEF Update, Rows, PublicationTypeOK
  <2>. QED BY <2>1, <2>2 DEF PublicationTypeOK, Rows
<1>2. CASE ~(HasRow(url[c]) /\ db[url[c]].id = id[c])
  BY <1>2 DEF Update, PublicationTypeOK
<1>. QED BY <1>1, <1>2

(* external_id of a row, or NULL without one. *)
LEMMA ExtType == ASSUME PublicationTypeOK, NEW u \in Urls PROVE ExtOf(u) \in Exts
  BY DEF PublicationTypeOK, ExtOf, HasRow, Rows, Exts
-----------------------------------------------------------------------------
(* Every step keeps the types: tries stays below MaxAttempts because the    *)
(* last attempt concludes, whatever it comes to.                            *)
LEMMA NextTypeOK == PublicationTypeOK /\ [PublicationNext]_publicationVars => PublicationTypeOK'
<1> SUFFICES ASSUME PublicationTypeOK, [PublicationNext]_publicationVars PROVE PublicationTypeOK'
  OBVIOUS
<1> USE AttemptsAssumption DEF PublicationTypeOK, Outcomes, articleTable, attempt
<1>0. Requests \subseteq Callers /\ Sched \in Callers
  BY DEF Callers
<1>1. ASSUME NEW u \in Urls, NEW passing \in BOOLEAN, NEW dbError \in BOOLEAN,
             SaveAndPublish(u, passing, dbError)
      PROVE  PublicationTypeOK'
  <2>1. db' \in [Urls -> Rows \cup {NoRow}] /\ inserted' \in 0 .. MaxRows
    BY <1>1 DEF SaveAndPublish, Rows, Ids, Statuses, Exts
  <2>2. UNCHANGED <<website, attempt, tried>>
    BY <1>1 DEF SaveAndPublish, Take
  <2>3. /\ pc' \in [Callers -> {"idle", "post", "backoff", "mark", "reset"}]
        /\ url' \in [Callers -> Urls] /\ id' \in [Callers -> 0 .. MaxRows]
    BY <1>0, <1>1 DEF SaveAndPublish, Take
  <2>. QED BY <2>1, <2>2, <2>3
<1>2. ASSUME NEW c \in Requests, NEW u \in Urls, BeginPublish(c, u) \/ BeginRetry(c, u)
      PROVE  PublicationTypeOK'
  <2>1. db[u] \in Rows
    BY <1>2 DEF BeginPublish, BeginRetry, HasRow
  <2>2. db[u].id \in Ids
    BY <2>1 DEF Rows
  <2>3. PICK step \in {"post", "reset"} : Take(c, u, db[u].id, step)
    BY <1>2 DEF BeginPublish, BeginRetry
  <2>4. /\ pc' \in [Callers -> {"idle", "post", "backoff", "mark", "reset"}]
        /\ url' \in [Callers -> Urls] /\ id' \in [Callers -> 0 .. MaxRows]
    BY <1>0, <2>2, <2>3 DEF Take, Ids
  <2>5. UNCHANGED <<articleTable, website, attempt>> /\ tried' \subseteq Ids
    BY <1>2, <2>2 DEF BeginPublish, BeginRetry, Take
  <2>. QED BY <2>4, <2>5
<1>3. ASSUME NEW u \in Urls, Delete(u) PROVE PublicationTypeOK'
  BY <1>3 DEF Delete
<1>4. ASSUME NEW c \in Callers, NEW readable \in BOOLEAN, Answered(c, readable)
      PROVE  PublicationTypeOK'
  BY <1>4 DEF Answered, Conclude, Leave, Exts
<1>5. ASSUME NEW c \in Callers, Refused(c) PROVE PublicationTypeOK'
  BY <1>5 DEF Refused, Conclude, Leave, Exts
<1>6. ASSUME NEW c \in Callers, NEW stored \in BOOLEAN, PostFailed(c, stored) PROVE PublicationTypeOK'
  <2>1. CASE LastAttempt(c)
    BY <1>6, <2>1, SMTT(30) DEF PostFailed, Conclude, Leave, Exts
  <2>2. CASE ~LastAttempt(c)
    BY <1>6, <2>2 DEF PostFailed, LastAttempt, Counted
  <2>. QED BY <2>1, <2>2
<1>7. ASSUME NEW c \in Callers, Retry(c) \/ Cancelled(c) PROVE PublicationTypeOK'
  BY <1>7 DEF Retry, Cancelled, Leave, Exts
<1>8. ASSUME NEW c \in Callers, NEW dbError \in BOOLEAN, MarkRow(c, dbError) \/ Reset(c, dbError)
      PROVE  PublicationTypeOK'
  <2>1. ExtOf(url[c]) \in Exts /\ remote[c] \in Exts
    BY <1>8, ExtType
  <2>2. db' \in [Urls -> Rows \cup {NoRow}]
    BY <1>8, <2>1, UpdateType DEF MarkRow, Reset, Statuses, Exts
  <2>. QED BY <1>8, <2>2 DEF MarkRow, Reset, Leave, Exts
<1>9. CASE UNCHANGED publicationVars
  BY <1>9 DEF publicationVars
<1>. QED
  BY <1>0, <1>1, <1>2, <1>3, <1>4, <1>5, <1>6, <1>7, <1>8, <1>9
  DEF PublicationNext, Continue, PublishCall

(* The variables keep their types: no publish makes more than MaxAttempts   *)
(* attempts.                                                                *)
THEOREM TypeCorrect == PublicationSpec => []PublicationTypeOK
  BY InitTypeOK, NextTypeOK, PTL DEF PublicationSpec
-----------------------------------------------------------------------------
(* What a caller knows is true: a request works on a row it began to        *)
(* publish, and one about to mark a row published got its reply from a      *)
(* website that has the article.                                            *)
CallerKnows(c) ==
    /\ c = Sched => pc[c] \in {"idle", "post", "backoff"}
    /\ c # Sched /\ pc[c] \in {"post", "backoff", "mark"} => id[c] \in tried
    /\ pc[c] = "mark" /\ outcome[c] = "published" => url[c] \in website
    /\ remote[c] # "null"
CallersKnow == \A c \in Callers : CallerKnows(c)

(* A row that is there tells the truth. *)
RowIsTrue(u, row) ==
    /\ row.status = "published" => u \in website /\ row.ext # "null"
    /\ row.status \in {"pending", "skipped"} => row.ext = "null"
    /\ row.status \in {"published", "failed"} => row.id \in tried
RowsAreTrue == \A u \in Urls : HasRow(u) => RowIsTrue(u, db[u])

(* The inductive invariant. *)
IInv == PublicationTypeOK /\ CallersKnow /\ RowsAreTrue

LEMMA InitIInv == PublicationInit => IInv
<1> SUFFICES ASSUME PublicationInit PROVE IInv
  OBVIOUS
<1>1. CallersKnow
  BY DEF PublicationInit, CallersKnow, CallerKnows
<1>2. RowsAreTrue
  BY DEF PublicationInit, RowsAreTrue, HasRow
<1>. QED BY <1>1, <1>2, InitTypeOK DEF IInv

(* Every step keeps what the callers know: the website forgets nothing, and *)
(* what was begun stays begun.                                              *)
LEMMA NextCallers == PublicationTypeOK /\ CallersKnow /\ [PublicationNext]_publicationVars => CallersKnow'
<1> SUFFICES ASSUME PublicationTypeOK, CallersKnow, [PublicationNext]_publicationVars, NEW d \in Callers
             PROVE  CallerKnows(d)'
  BY DEF CallersKnow
<1> USE DEF CallerKnows
<1>0. /\ CallerKnows(d) /\ Requests \subseteq Callers /\ Sched \in Callers /\ Sched \notin Requests
      /\ pc \in [Callers -> {"idle", "post", "backoff", "mark", "reset"}]
      /\ id \in [Callers -> 0 .. MaxRows] /\ url \in [Callers -> Urls]
      /\ outcome \in [Callers -> Outcomes] /\ remote \in [Callers -> Exts]
  BY SchedAssumption DEF PublicationTypeOK, Callers, CallersKnow
<1>1. ASSUME NEW u \in Urls, NEW passing \in BOOLEAN, NEW dbError \in BOOLEAN,
             SaveAndPublish(u, passing, dbError)
      PROVE  CallerKnows(d)'
  BY <1>0, <1>1 DEF SaveAndPublish, Take, attempt
<1>2. ASSUME NEW c \in Requests, NEW u \in Urls, BeginPublish(c, u) PROVE CallerKnows(d)'
  BY <1>0, <1>2 DEF BeginPublish, Take, attempt
<1>3. ASSUME NEW c \in Requests, NEW u \in Urls, BeginRetry(c, u) PROVE CallerKnows(d)'
  BY <1>0, <1>3 DEF BeginRetry, Take, attempt
<1>4. ASSUME NEW u \in Urls, Delete(u) PROVE CallerKnows(d)'
  BY <1>0, <1>4 DEF Delete, attempt
<1>5. ASSUME NEW c \in Callers, NEW readable \in BOOLEAN, Answered(c, readable)
      PROVE  CallerKnows(d)'
  BY <1>0, <1>5 DEF Answered, Conclude, Leave
<1>6. ASSUME NEW c \in Callers, Refused(c) PROVE CallerKnows(d)'
  BY <1>0, <1>6 DEF Refused, Conclude, Leave
<1>7. ASSUME NEW c \in Callers, NEW stored \in BOOLEAN, PostFailed(c, stored)
      PROVE  CallerKnows(d)'
  BY <1>0, <1>7 DEF PostFailed, Conclude, Leave
<1>8. ASSUME NEW c \in Callers, Retry(c) \/ Cancelled(c) PROVE CallerKnows(d)'
  BY <1>0, <1>8 DEF Retry, Cancelled, Leave, attempt
<1>9. ASSUME NEW c \in Callers, NEW dbError \in BOOLEAN, MarkRow(c, dbError) \/ Reset(c, dbError)
      PROVE  CallerKnows(d)'
  BY <1>0, <1>9 DEF MarkRow, Reset, Leave
<1>10. CASE UNCHANGED publicationVars
  BY <1>0, <1>10 DEF publicationVars, attempt
<1>. QED
  BY <1>1, <1>2, <1>3, <1>4, <1>5, <1>6, <1>7, <1>8, <1>9, <1>10
  DEF PublicationNext, Continue, PublishCall

(* A write by the id read earlier changes that row alone, and only if it is *)
(* still the row of the caller's URL.                                       *)
LEMMA UpdateRow ==
  ASSUME PublicationTypeOK, NEW c \in Callers, NEW status \in Statuses, NEW ext \in Exts,
         Update(c, status, ext), NEW u \in Urls, HasRow(u)'
  PROVE  \/ db'[u] = db[u] /\ HasRow(u)
         \/ u = url[c] /\ db'[u] = [id |-> id[c], status |-> status, ext |-> ext]
<1>1. CASE HasRow(url[c]) /\ db[url[c]].id = id[c]
  <2>1. db[url[c]] \in Rows
    BY <1>1 DEF PublicationTypeOK, HasRow
  <2>2. db' = [db EXCEPT ![url[c]] = [id |-> id[c], status |-> status, ext |-> ext]]
    BY <1>1, <2>1 DEF Update, Rows, PublicationTypeOK
  <2>. QED BY <2>2 DEF PublicationTypeOK, HasRow
<1>2. CASE ~(HasRow(url[c]) /\ db[url[c]].id = id[c])
  BY <1>2 DEF Update, PublicationTypeOK, HasRow
<1>. QED BY <1>1, <1>2

(* Every step keeps the rows true: the only writes are an insert, the mark  *)
(* of a caller that knows its outcome, and a reset that clears the id.      *)
LEMMA NextRows ==
    PublicationTypeOK /\ CallersKnow /\ RowsAreTrue /\ [PublicationNext]_publicationVars => RowsAreTrue'
<1> SUFFICES ASSUME PublicationTypeOK, CallersKnow, RowsAreTrue, [PublicationNext]_publicationVars,
                    NEW v \in Urls, HasRow(v)'
             PROVE  RowIsTrue(v, db[v])'
  BY DEF RowsAreTrue
<1>0. /\ HasRow(v) => RowIsTrue(v, db[v])
      /\ Requests \subseteq Callers /\ Sched \in Callers
  BY DEF RowsAreTrue, Callers
(* A row that stays as it is remains true, since website and tried only grow.*)
<1>a. ASSUME db'[v] = db[v], HasRow(v), website \subseteq website', tried \subseteq tried'
      PROVE  RowIsTrue(v, db[v])'
  BY <1>0, <1>a DEF RowIsTrue
<1>1. ASSUME NEW u \in Urls, NEW passing \in BOOLEAN, NEW dbError \in BOOLEAN,
             SaveAndPublish(u, passing, dbError)
      PROVE  RowIsTrue(v, db[v])'
  <2>0. website' = website /\ tried' = tried
    BY <1>1 DEF SaveAndPublish, Take
  <2>1. CASE db'[v] = db[v]
    BY <1>a, <2>0, <2>1 DEF HasRow
  <2>2. CASE db'[v] # db[v]
    <3>1. db'[v].status \in {"pending", "skipped"} /\ db'[v].ext = "null"
      BY <1>1, <2>2 DEF SaveAndPublish, PublicationTypeOK, articleTable
    <3>. QED BY <3>1 DEF RowIsTrue
  <2>. QED BY <2>1, <2>2
<1>2. ASSUME NEW c \in Requests, NEW u \in Urls, BeginPublish(c, u) \/ BeginRetry(c, u)
      PROVE  RowIsTrue(v, db[v])'
  BY <1>a, <1>2 DEF BeginPublish, BeginRetry, Take, articleTable, HasRow
<1>3. ASSUME NEW u \in Urls, Delete(u) PROVE RowIsTrue(v, db[v])'
  <2>1. db'[v] = db[v] /\ HasRow(v)
    BY <1>3 DEF Delete, HasRow, PublicationTypeOK
  <2>. QED BY <1>3, <1>a, <2>1 DEF Delete
<1>4. ASSUME NEW c \in Callers, PublishCall(c) PROVE RowIsTrue(v, db[v])'
  <2>1. db' = db /\ tried' = tried /\ website \subseteq website'
    BY <1>4 DEF PublishCall, Answered, Refused, PostFailed, Retry, Cancelled, articleTable
  <2>. QED BY <1>a, <2>1 DEF HasRow
<1>5. ASSUME NEW c \in Callers, NEW dbError \in BOOLEAN, MarkRow(c, dbError)
      PROVE  RowIsTrue(v, db[v])'
  <2>0. /\ website' = website /\ tried' = tried /\ CallerKnows(c)
        /\ remote[c] \in Exts /\ pc[c] = "mark" /\ url[c] \in Urls
    BY <1>5 DEF MarkRow, CallersKnow, PublicationTypeOK
  <2>1. id[c] \in tried
    BY <2>0 DEF CallerKnows
  <2>2. CASE dbError
    BY <1>5, <1>a, <2>0, <2>2 DEF MarkRow, HasRow
  <2>3. CASE ~dbError /\ outcome[c] = "published"
    <3>1. Update(c, "published", remote[c])
      BY <1>5, <2>3 DEF MarkRow
    <3>2. \/ db'[v] = db[v] /\ HasRow(v)
          \/ v = url[c] /\ db'[v] = [id |-> id[c], status |-> "published", ext |-> remote[c]]
      BY <2>0, <3>1, UpdateRow DEF Statuses
    <3>3. url[c] \in website /\ remote[c] # "null"
      BY <2>0, <2>3 DEF CallerKnows
    <3>. QED BY <1>a, <2>0, <2>1, <3>2, <3>3 DEF RowIsTrue
  <2>4. CASE ~dbError /\ outcome[c] # "published"
    <3>1. Update(c, "failed", ExtOf(url[c])) /\ ExtOf(url[c]) \in Exts
      BY <1>5, <2>0, <2>4, ExtType DEF MarkRow
    <3>2. \/ db'[v] = db[v] /\ HasRow(v)
          \/ v = url[c] /\ db'[v] = [id |-> id[c], status |-> "failed", ext |-> ExtOf(url[c])]
      BY <3>1, UpdateRow DEF Statuses
    <3>. QED BY <1>a, <2>0, <2>1, <3>2 DEF RowIsTrue
  <2>. QED BY <2>2, <2>3, <2>4
<1>6. ASSUME NEW c \in Callers, NEW dbError \in BOOLEAN, Reset(c, dbError)
      PROVE  RowIsTrue(v, db[v])'
  <2>0. website' = website /\ tried' = tried
    BY <1>6 DEF Reset
  <2>1. CASE dbError
    BY <1>6, <1>a, <2>0, <2>1 DEF Reset, HasRow
  <2>2. CASE ~dbError
    <3>0. "pending" \in Statuses /\ "null" \in Exts
      BY DEF Statuses, Exts
    <3>1. Update(c, "pending", "null")
      BY <1>6, <2>2 DEF Reset
    <3>2. \/ db'[v] = db[v] /\ HasRow(v)
          \/ v = url[c] /\ db'[v] = [id |-> id[c], status |-> "pending", ext |-> "null"]
      BY <3>0, <3>1, UpdateRow
    <3>3. CASE db'[v] = db[v] /\ HasRow(v)
      BY <1>a, <2>0, <3>3
    <3>4. CASE db'[v] = [id |-> id[c], status |-> "pending", ext |-> "null"]
      BY <3>4 DEF RowIsTrue
    <3>. QED BY <3>2, <3>3, <3>4
  <2>. QED BY <2>1, <2>2
<1>7. CASE UNCHANGED publicationVars
  BY <1>7, <1>a DEF publicationVars, articleTable, HasRow
<1>. QED
  BY <1>0, <1>1, <1>2, <1>3, <1>4, <1>5, <1>6, <1>7 DEF PublicationNext, Continue

(* The inductive invariant holds in every reachable state. *)
THEOREM Invariance == PublicationSpec => []IInv
<1>1. IInv /\ [PublicationNext]_publicationVars => IInv'
  BY NextTypeOK, NextCallers, NextRows DEF IInv
<1>. QED BY <1>1, InitIInv, PTL DEF PublicationSpec

(* A row marked published is on the website and carries the id of a reply,  *)
(* for any number of overlapping publishes, retries and deletions.          *)
THEOREM PublishedHeld == PublicationSpec => []PublishedIsOnSite
<1>1. IInv => PublishedIsOnSite
  BY DEF IInv, RowsAreTrue, RowIsTrue, PublishedIsOnSite
<1>. QED BY <1>1, Invariance, PTL

(* A row that waits to be published shows no external id of an earlier      *)
(* publication.                                                             *)
THEOREM PendingIsClean == PublicationSpec => []PendingHasNoId
<1>1. IInv => PendingHasNoId
  BY DEF IInv, RowsAreTrue, RowIsTrue, PendingHasNoId
<1>. QED BY <1>1, Invariance, PTL

(* The outcome of a publish never lands in a row that was inserted for the  *)
(* same URL after its own row was deleted.                                  *)
THEOREM OutcomesAreOwn == PublicationSpec => []OutcomeIsOwn
<1>1. IInv => OutcomeIsOwn
  BY DEF IInv, RowsAreTrue, RowIsTrue, OutcomeIsOwn
<1>. QED BY <1>1, Invariance, PTL
-----------------------------------------------------------------------------
(* Calls end *)

(* The steps a call may still take by itself, whatever the website answers. *)
StepsLeft(c) ==
    CASE pc[c] = "post"             -> 2 * (MaxAttempts - tries[c])
      [] pc[c] = "backoff"          -> 2 * (MaxAttempts - tries[c]) + 1
      [] pc[c] \in {"mark", "reset"} -> 1
      [] OTHER                      -> 0

(* Who waits has made an attempt. *)
WaitsAfterAttempt == \A c \in Callers : pc[c] = "backoff" => tries[c] >= 1

(* The values this takes. *)
StepsAre(c) ==
    /\ tries[c] \in Nat /\ MaxAttempts \in Nat /\ StepsLeft(c) \in 0 .. 2 * MaxAttempts
    /\ pc[c] # "idle" => StepsLeft(c) >= 1
    /\ pc[c] = "post" => StepsLeft(c) = 2 * (MaxAttempts - tries[c])
    /\ pc[c] = "backoff" => StepsLeft(c) = 2 * (MaxAttempts - tries[c]) + 1
    /\ pc[c] \in {"mark", "reset"} => StepsLeft(c) = 1
    /\ pc[c] = "idle" => StepsLeft(c) = 0

LEMMA StepsCounted == PublicationTypeOK /\ WaitsAfterAttempt => \A c \in Callers : StepsAre(c)
<1> SUFFICES ASSUME PublicationTypeOK, WaitsAfterAttempt, NEW c \in Callers PROVE StepsAre(c)
  OBVIOUS
<1> USE DEF StepsAre
<1>1. /\ tries[c] \in Nat /\ MaxAttempts \in Nat /\ tries[c] < MaxAttempts
      /\ pc[c] \in {"idle", "post", "backoff", "mark", "reset"}
      /\ pc[c] = "backoff" => tries[c] >= 1
  BY AttemptsAssumption DEF PublicationTypeOK, WaitsAfterAttempt
<1>2. CASE pc[c] = "post"
  BY <1>1, <1>2 DEF StepsLeft
<1>3. CASE pc[c] = "backoff"
  BY <1>1, <1>3 DEF StepsLeft
<1>4. CASE pc[c] \in {"mark", "reset"}
  BY <1>1, <1>4 DEF StepsLeft
<1>5. CASE pc[c] = "idle"
  BY <1>1, <1>5 DEF StepsLeft
<1>. QED BY <1>1, <1>2, <1>3, <1>4, <1>5

(* A step of a call takes one of its steps, or all of them. *)
LEMMA StepIsTaken ==
  ASSUME PublicationTypeOK, NEW c \in Callers, Continue(c)
  PROVE  \/ pc[c] = "post" /\ pc'[c] = "backoff" /\ tries'[c] = tries[c] + 1
         \/ pc[c] = "backoff" /\ pc'[c] = "post" /\ tries'[c] = tries[c]
         \/ pc[c] = "post" /\ pc'[c] = "mark"
         \/ pc[c] # "idle" /\ pc'[c] = "idle"
<1> USE DEF PublicationTypeOK, Conclude, Leave
<1>1. ASSUME NEW readable \in BOOLEAN, Answered(c, readable)
      PROVE  pc[c] = "post" /\ pc'[c] \in {"mark", "idle"}
  BY <1>1 DEF Answered
<1>2. ASSUME Refused(c) PROVE pc[c] = "post" /\ pc'[c] \in {"mark", "idle"}
  BY <1>2 DEF Refused
<1>3. ASSUME NEW stored \in BOOLEAN, PostFailed(c, stored)
      PROVE  /\ pc[c] = "post"
             /\ \/ pc'[c] \in {"mark", "idle"}
                \/ pc'[c] = "backoff" /\ tries'[c] = tries[c] + 1
  BY <1>3 DEF PostFailed, Counted
<1>4. ASSUME Retry(c) PROVE pc[c] = "backoff" /\ pc'[c] = "post" /\ tries'[c] = tries[c]
  BY <1>4 DEF Retry, attempt
<1>5. ASSUME Cancelled(c) PROVE pc[c] # "idle" /\ pc'[c] = "idle"
  BY <1>5 DEF Cancelled
<1>6. ASSUME NEW dbError \in BOOLEAN, MarkRow(c, dbError) \/ Reset(c, dbError)
      PROVE  pc[c] # "idle" /\ pc'[c] = "idle"
  BY <1>6 DEF MarkRow, Reset
<1>. QED BY <1>1, <1>2, <1>3, <1>4, <1>5, <1>6 DEF Continue, PublishCall

(* Nobody else takes or adds steps of a call, and nobody begins to wait. *)
LEMMA OthersLeaveSteps ==
  ASSUME PublicationTypeOK, [PublicationNext]_publicationVars, NEW c \in Callers, ~Continue(c)
  PROVE  \/ pc'[c] = pc[c] /\ tries'[c] = tries[c]
         \/ pc[c] = "idle" /\ pc'[c] # "backoff"
<1> USE DEF PublicationTypeOK
<1>0. Requests \subseteq Callers /\ Sched \in Callers
  BY DEF Callers
<1>1. ASSUME NEW u \in Urls, NEW passing \in BOOLEAN, NEW dbError \in BOOLEAN,
             SaveAndPublish(u, passing, dbError)
      PROVE  \/ pc'[c] = pc[c] /\ tries'[c] = tries[c]
             \/ pc[c] = "idle" /\ pc'[c] # "backoff"
  BY <1>0, <1>1 DEF SaveAndPublish, Take, attempt
<1>2. ASSUME NEW d \in Requests, NEW u \in Urls, BeginPublish(d, u) \/ BeginRetry(d, u)
      PROVE  \/ pc'[c] = pc[c] /\ tries'[c] = tries[c]
             \/ pc[c] = "idle" /\ pc'[c] # "backoff"
  BY <1>0, <1>2 DEF BeginPublish, BeginRetry, Take, attempt
<1>3. ASSUME NEW u \in Urls, Delete(u) PROVE pc'[c] = pc[c] /\ tries'[c] = tries[c]
  BY <1>3 DEF Delete, attempt
<1>4. ASSUME NEW d \in Callers, d # c, Continue(d) PROVE pc'[c] = pc[c] /\ tries'[c] = tries[c]
  <2>1. CASE PublishCall(d)
    BY <1>4, <2>1 DEF PublishCall, Answered, Refused, PostFailed, Retry, Cancelled, Conclude, Leave, attempt
  <2>2. CASE \E dbError \in BOOLEAN : MarkRow(d, dbError) \/ Reset(d, dbError)
    BY <1>4, <2>2 DEF MarkRow, Reset, Leave
  <2>. QED BY <1>4, <2>1, <2>2 DEF Continue
<1>5. CASE UNCHANGED publicationVars
  BY <1>5 DEF publicationVars, attempt
<1>. QED BY <1>1, <1>2, <1>3, <1>4, <1>5 DEF PublicationNext

(* Each call ends after at most twice MaxAttempts steps of its own, however *)
(* the website fails: every step of the call leaves it fewer, and nothing   *)
(* that others do gives it more. This is the part of RequestsReturn that    *)
(* needs no fairness.                                                       *)
THEOREM CallsAreShort ==
    PublicationSpec => [][\A c \in Callers : pc[c] # "idle" =>
                              /\ StepsLeft(c) \in 1 .. 2 * MaxAttempts
                              /\ StepsLeft(c)' <= StepsLeft(c)
                              /\ Continue(c) => StepsLeft(c)' < StepsLeft(c)]_publicationVars
<1> DEFINE Shorter == \A c \in Callers : pc[c] # "idle" =>
                          /\ StepsLeft(c) \in 1 .. 2 * MaxAttempts
                          /\ StepsLeft(c)' <= StepsLeft(c)
                          /\ Continue(c) => StepsLeft(c)' < StepsLeft(c)
<1>1. PublicationInit => WaitsAfterAttempt
  BY DEF PublicationInit, WaitsAfterAttempt
<1>2. ASSUME PublicationTypeOK, WaitsAfterAttempt, [PublicationNext]_publicationVars PROVE WaitsAfterAttempt'
  <2> SUFFICES ASSUME NEW c \in Callers, pc'[c] = "backoff" PROVE tries'[c] >= 1
    BY DEF WaitsAfterAttempt
  <2>1. tries[c] \in Nat /\ (pc[c] = "backoff" => tries[c] >= 1)
    BY <1>2 DEF PublicationTypeOK, WaitsAfterAttempt
  <2>2. CASE Continue(c)
    BY <1>2, <2>1, <2>2, StepIsTaken
  <2>3. CASE ~Continue(c)
    BY <1>2, <2>1, <2>3, OthersLeaveSteps
  <2>. QED BY <2>2, <2>3
<1>3. ASSUME PublicationTypeOK, [PublicationNext]_publicationVars,
             \A c \in Callers : StepsAre(c), \A c \in Callers : StepsAre(c)'
      PROVE  Shorter
  <2> SUFFICES ASSUME NEW c \in Callers, pc[c] # "idle"
               PROVE  /\ StepsLeft(c) \in 1 .. 2 * MaxAttempts
                      /\ StepsLeft(c)' <= StepsLeft(c)
                      /\ Continue(c) => StepsLeft(c)' < StepsLeft(c)
    OBVIOUS
  <2>1. StepsAre(c) /\ StepsAre(c)'
    BY <1>3
  <2>2. CASE Continue(c)
    BY <1>3, <2>1, <2>2, StepIsTaken DEF StepsAre
  <2>3. CASE ~Continue(c)
    <3>1. pc'[c] = pc[c] /\ tries'[c] = tries[c]
      BY <1>3, <2>3, OthersLeaveSteps
    <3>2. StepsLeft(c)' = StepsLeft(c)
      BY <3>1 DEF StepsLeft
    <3>. QED BY <2>1, <2>3, <3>2 DEF StepsAre
  <2>. QED BY <2>2, <2>3
<1>4. PublicationTypeOK /\ [PublicationNext]_publicationVars
        /\ (\A c \in Callers : StepsAre(c)) /\ (\A c \in Callers : StepsAre(c))'
        => [Shorter]_publicationVars
  BY <1>3
<1>5. PublicationSpec => []WaitsAfterAttempt
  BY <1>1, <1>2, TypeCorrect, PTL DEF PublicationSpec
<1>. QED BY <1>4, <1>5, StepsCounted, TypeCorrect, PTL DEF PublicationSpec

-----------------------------------------------------------------------------
(***************************************************************************)
(* The other calls on the articles table: Library.                         *)
(***************************************************************************)
(* The table: ids are given in the order of the inserts. *)
RowsOk ==
    /\ now \in 0 .. MaxNow /\ lastId \in 0 .. MaxId
    /\ articles \in [ArticleIds -> Row \cup {Null}]
    /\ \A i \in Present : i <= lastId /\ articles[i].created <= now

Exports == [pc : {"idle", "page", "count", "done", "error"}, page : Nat \ {0}, rows : Seq(ArticleIds),
            total : -1 .. MaxId, calm : BOOLEAN, same : BOOLEAN, tied : BOOLEAN]
Calls   == [pc : {"idle", "count", "enrich", "update", "done"}, refs : Seq(ArticleIds),
            texts : SUBSET ArticleIds, at : Nat \ {0}, last : Nat, updated : Nat, failed : Nat,
            remaining : Int, before : Nat, calm : BOOLEAN]

(* A backfill has come to article number at of its list, the last of which  *)
(* is in the current batch, and has counted those before.                   *)
CallFits(call) ==
    /\ Len(call.refs) <= Limit
    /\ call.updated + call.failed = call.at - 1
    /\ call.at <= Len(call.refs) + 1
    /\ call.pc \in {"idle", "count"} => call.at = 1 /\ call.remaining = 0
    /\ call.pc = "enrich" => call.at <= Len(call.refs)
    /\ call.pc = "update" => call.at <= call.last /\ call.last <= Len(call.refs)
    /\ call.pc = "done" => call.at = Len(call.refs) + 1
    /\ call.pc \notin {"idle", "count"} => call.remaining + call.updated \in 0 .. MaxId

(* While nobody else touches the articles, those of the list it has still   *)
(* to come to are without a text, and so are as many as it will say.        *)
CallKnows(call) ==
    Running(call) /\ call.calm =>
        /\ \A k, l \in 1 .. Len(call.refs) : k # l => call.refs[k] # call.refs[l]
        /\ \A k \in call.at .. Len(call.refs) : call.refs[k] \in Missing
        /\ call.updated + Cardinality(Missing) = call.before
        /\ call.pc # "count" => call.remaining = Cardinality(Missing)

(* The number of the rows before it is the place of a row in the order. *)
Preceding(i) == {j \in Matching : Before(j, i)}
Least(m, n) == IF m < n THEN m ELSE n

(* The pages read so far hold the first articles, each at its place. *)
ExportKnows(e) ==
    e.pc \in {"page", "count"} /\ e.calm /\ ~e.tied =>
        /\ ~Tied
        /\ e.total \in {-1, Cardinality(Matching)}
        /\ Len(e.rows) = Least((e.page - 1) * PageSize, Cardinality(Matching))
        /\ e.pc = "page" => Full(e)
        /\ \A k \in 1 .. Len(e.rows) :
               e.rows[k] \in Matching /\ Cardinality(Preceding(e.rows[k])) = k - 1

(* All of it. *)
LibraryInv ==
    /\ RowsOk
    /\ export \in Exports /\ ExportKnows(export)
    /\ fill \in [Fillers -> Calls]
    /\ \A f \in Fillers : CallFits(fill[f]) /\ CallKnows(fill[f])
-----------------------------------------------------------------------------
(* The assumption, part by part. *)
LEMMA LibrarySizes ==
  /\ PageSize \in Nat \ {0} /\ MaxExportRows \in Nat \ {0} /\ Limit \in Nat \ {0}
         /\ BatchSize \in Nat \ {0} /\ Days \in Nat \ {0} /\ MaxId \in Nat /\ MaxNow \in Nat
         /\ Ranks \subseteq Nat /\ Batches \subseteq Seq(BOOLEAN)
  BY SizesAssumption

(* What a row is made of. *)
LEMMA RowParts ==
  ASSUME NEW row \in Row
  PROVE  row.created \in Int /\ row.rank \in Int /\ row.text \in BOOLEAN
<1>1. row.created \in 0 .. MaxNow /\ row.rank \in Ranks /\ row.text \in BOOLEAN
  BY DEF Row
<1>2. \A n \in Ranks : n \in Int
  BY LibrarySizes
<1>3. \A n \in 0 .. MaxNow : n \in Int
  BY LibrarySizes
<1>. QED BY <1>1, <1>2, <1>3

(* A row that is given a text and a rank. *)
LEMMA RowFilled ==
  ASSUME NEW row \in Row, NEW r \in Ranks, NEW new, new = [row EXCEPT !.text = TRUE, !.rank = r]
  PROVE  new \in Row /\ new.created = row.created /\ new.text = TRUE /\ new.rank = r
  BY DEF Row

(* The sets of articles are finite. *)
LEMMA ArticlesAreFinite ==
  /\ Present \subseteq ArticleIds /\ Missing \subseteq Present
         /\ IsFiniteSet(Present) /\ Cardinality(Present) \in 0 .. MaxId
         /\ IsFiniteSet(Missing) /\ Cardinality(Missing) \in 0 .. MaxId
         /\ Matching \subseteq Present
         /\ IsFiniteSet(Matching) /\ Cardinality(Matching) \in 0 .. MaxId
<1>1. /\ Present \in SUBSET ArticleIds /\ Missing \in SUBSET ArticleIds /\ Matching \in SUBSET ArticleIds
      /\ Missing \subseteq Present /\ Matching \subseteq Present
  BY DEF Present, Missing, Matching
<1>2. IsFiniteSet(ArticleIds) /\ Cardinality(ArticleIds) = MaxId
  BY LibrarySizes, FS_Interval DEF ArticleIds
<1>3. /\ IsFiniteSet(Present) /\ Cardinality(Present) <= MaxId
      /\ IsFiniteSet(Missing) /\ Cardinality(Missing) <= MaxId
      /\ IsFiniteSet(Matching) /\ Cardinality(Matching) <= MaxId
  BY <1>1, <1>2, FS_Subset
<1>4. Cardinality(Present) \in Nat /\ Cardinality(Missing) \in Nat /\ Cardinality(Matching) \in Nat
  BY <1>3, FS_CardinalityType
<1>. QED BY <1>1, <1>3, <1>4, LibrarySizes

(* The empty table, with no call begun. *)
LEMMA FirstIsKept == LibraryInit => LibraryInv
<1> SUFFICES ASSUME LibraryInit PROVE LibraryInv
  OBVIOUS
<1>1. RowsOk
  BY LibrarySizes DEF LibraryInit, RowsOk, Present
<1>2. export \in Exports /\ ExportKnows(export)
  BY LibrarySizes DEF LibraryInit, NoExport, Exports, ExportKnows
<1>3. NoFill \in Calls /\ CallFits(NoFill) /\ CallKnows(NoFill)
  <2>1. <<>> \in Seq(ArticleIds) /\ Len(<<>>) = 0
    BY EmptySeq
  <2>. QED BY <2>1, LibrarySizes DEF NoFill, Calls, CallFits, CallKnows, Running
<1>. QED BY <1>1, <1>2, <1>3 DEF LibraryInit, LibraryInv
-----------------------------------------------------------------------------
(* Others change the set of articles *)

(* A call that learns of it keeps its place and its counters. *)
Startle(call) == [call EXCEPT !.calm = FALSE, !.before = 0]
LEMMA StartleKeeps ==
  ASSUME NEW call \in Calls, CallFits(call)
  PROVE  Startle(call) \in Calls /\ CallFits(Startle(call)) /\ ~Startle(call).calm
<1>1. Startle(call) \in Calls
  <2>1. [call EXCEPT !.before = 0] \in Calls
    BY DEF Calls
  <2>2. [[call EXCEPT !.before = 0] EXCEPT !.calm = FALSE] \in Calls
    BY <2>1 DEF Calls
  <2>3. Startle(call) = [[call EXCEPT !.before = 0] EXCEPT !.calm = FALSE]
    BY DEF Startle, Calls
  <2>. QED BY <2>2, <2>3
<1>2. ~Startle(call).calm
  BY DEF Startle, Calls
<1>3. /\ Startle(call).pc = call.pc /\ Startle(call).refs = call.refs
      /\ Startle(call).at = call.at /\ Startle(call).last = call.last
      /\ Startle(call).updated = call.updated /\ Startle(call).failed = call.failed
      /\ Startle(call).remaining = call.remaining
  BY DEF Startle, Calls
<1>4. CallFits(Startle(call))
  BY <1>3 DEF CallFits
<1>. QED BY <1>1, <1>2, <1>4

(* Every backfill in progress learns of the change. *)
LEMMA StartledKeeps ==
  ASSUME LibraryInv, Startled(Fillers)
  PROVE  /\ fill' \in [Fillers -> Calls]
         /\ \A f \in Fillers : CallFits(fill'[f]) /\ CallKnows(fill[f])'
<1> SUFFICES ASSUME NEW f \in Fillers
             PROVE  fill'[f] \in Calls /\ CallFits(fill'[f]) /\ CallKnows(fill[f])'
  BY DEF Startled
<1>0. fill[f] \in Calls /\ CallFits(fill[f])
  BY DEF LibraryInv
<1>1. CASE Running(fill[f])
  <2>1. fill'[f] = Startle(fill[f])
    BY <1>1 DEF Startled, Startle
  <2>. QED BY <1>0, <2>1, StartleKeeps DEF CallKnows
<1>2. CASE ~Running(fill[f])
  <2>1. fill'[f] = fill[f]
    BY <1>2 DEF Startled
  <2>. QED BY <1>0, <1>2, <2>1 DEF CallKnows
<1>. QED BY <1>1, <1>2

(* And so does the export. *)
LEMMA ShiftedKeeps ==
  ASSUME LibraryInv, Shifted PROVE export' \in Exports /\ ExportKnows(export)'
<1>0. export \in Exports
  BY DEF LibraryInv
<1>1. CASE Running(export)
  <2> DEFINE same == export.same /\ Matching' = Matching
             tied == export.tied \/ Tied'
  <2>1. export' = [export EXCEPT !.calm = FALSE, !.same = same, !.tied = tied]
    BY <1>1 DEF Shifted
  <2>2. same \in BOOLEAN /\ tied \in BOOLEAN
    BY DEF Tied
  <2>. HIDE DEF same, tied
  <2>3. export' = [pc |-> export.pc, page |-> export.page, rows |-> export.rows, total |-> export.total,
                   calm |-> FALSE, same |-> same, tied |-> tied]
    BY <1>0, <2>1 DEF Exports
  <2>. QED BY <1>0, <2>2, <2>3 DEF Exports, ExportKnows
<1>2. CASE ~Running(export)
  <2>1. export' = export
    BY <1>2 DEF Shifted
  <2>. QED BY <1>0, <1>2, <2>1 DEF ExportKnows, Running, Exports
<1>. QED BY <1>1, <1>2

(* New rows get the next ids and the present time. *)
LEMMA SaveKeeps ==
  ASSUME LibraryInv, NEW texts \in Batches, Save(texts) PROVE LibraryInv'
<1>1. texts \in Seq(BOOLEAN) /\ Len(texts) \in Nat /\ \A k \in 1 .. Len(texts) : texts[k] \in BOOLEAN
  BY LibrarySizes
<1>2. RowsOk'
  <2> DEFINE saved == lastId + 1 .. lastId + Len(texts)
  <2>a. PICK rank \in [1 .. Len(texts) -> Ranks] :
            articles' = [i \in ArticleIds |->
                IF i \in saved THEN [created |-> now, text |-> texts[i - lastId], rank |-> rank[i - lastId]]
                ELSE articles[i]]
    BY DEF Save
  <2>0. RowsOk /\ lastId \in Nat /\ now \in Nat /\ MaxId \in Nat
    BY LibrarySizes DEF LibraryInv, RowsOk
  <2>1. lastId' \in 0 .. MaxId /\ now' = now /\ lastId' = lastId + Len(texts)
    BY <1>1, <2>0, LibrarySizes DEF Save
  <2>2. ASSUME NEW i \in ArticleIds
        PROVE  /\ articles'[i] \in Row \cup {Null}
               /\ articles'[i] # Null => i <= lastId' /\ articles'[i].created <= now
    <3>1. CASE i \in saved
      <4>1. articles'[i] = [created |-> now, text |-> texts[i - lastId], rank |-> rank[i - lastId]]
        BY <2>a, <3>1
      <4>2. i - lastId \in 1 .. Len(texts)
        BY <1>1, <2>0, <3>1
      <4>. QED BY <1>1, <2>0, <2>1, <3>1, <4>1, <4>2 DEF Row, RowsOk
    <3>2. CASE i \notin saved
      <4>1. articles'[i] = articles[i]
        BY <2>a, <3>2
      <4>. QED BY <1>1, <2>0, <2>1, <4>1 DEF RowsOk, Present, ArticleIds
    <3>. QED BY <3>1, <3>2
  <2>3. articles' \in [ArticleIds -> Row \cup {Null}]
    BY <2>a, <2>2
  <2>. QED BY <2>0, <2>1, <2>2, <2>3 DEF RowsOk, Present
<1>3. Startled(Fillers) /\ Shifted
  BY DEF Save
<1>. QED BY <1>2, <1>3, StartledKeeps, ShiftedKeeps DEF LibraryInv

(* Rows that go leave the others as they are. *)
LEMMA WithoutKeeps ==
  ASSUME LibraryInv, NEW gone, articles' = Without(gone), lastId' = lastId,
         now' \in 0 .. MaxNow, now <= now'
  PROVE  RowsOk'
<1>1. \A i \in ArticleIds : articles'[i] \in {articles[i], Null}
  BY DEF Without
<1>2. articles' \in [ArticleIds -> Row \cup {Null}]
  BY <1>1 DEF Without, LibraryInv, RowsOk
<1>3. ASSUME NEW i \in ArticleIds, articles'[i] # Null PROVE i <= lastId' /\ articles'[i].created <= now'
  <2>1. articles'[i] = articles[i] /\ i \in Present
    BY <1>1, <1>3 DEF Present
  <2>2. articles[i] \in Row
    BY <1>3, <2>1 DEF LibraryInv, RowsOk
  <2>. QED BY <2>1, <2>2, LibrarySizes DEF LibraryInv, RowsOk, Row, ArticleIds
<1>. QED BY <1>2, <1>3 DEF LibraryInv, RowsOk, Present

(* A user deletes one row. *)
LEMMA DeleteKeeps == ASSUME LibraryInv, NEW i \in ArticleIds, DeleteArticle(i) PROVE LibraryInv'
<1>1. RowsOk'
  <2>1. articles' = Without({i}) /\ lastId' = lastId /\ now' = now
    BY DEF DeleteArticle
  <2>2. now \in 0 .. MaxNow /\ now <= now
    BY LibrarySizes DEF LibraryInv, RowsOk
  <2>. QED BY <2>1, <2>2, WithoutKeeps
<1>2. Startled(Fillers) /\ Shifted
  BY DEF DeleteArticle
<1>. QED BY <1>1, <1>2, StartledKeeps, ShiftedKeeps DEF LibraryInv

(* A step that leaves the articles and the calls. *)
LEMMA SameTable ==
  ASSUME articles' = articles
  PROVE  /\ Present' = Present /\ Missing' = Missing /\ Matching' = Matching
         /\ (Tied' <=> Tied) /\ \A i : Preceding(i)' = Preceding(i)
<1>1. Present' = Present /\ Missing' = Missing /\ Matching' = Matching /\ \A i, j : Before(i, j)' = Before(i, j)
  BY DEF Present, Missing, Matching, Before
<1>. QED BY <1>1 DEF Tied, Preceding

(* Retention takes old rows away, or its statement fails. *)
LEMMA PruneKeeps ==
  ASSUME LibraryInv, NEW time, Prune(time), now' \in 0 .. MaxNow, now <= now'
  PROVE  LibraryInv'
<1>1. lastId' = lastId /\ articles' \in {Without(Old(time)), articles}
  BY DEF Prune
<1>2. CASE articles' # articles
  <2>1. RowsOk'
    BY <1>1, <1>2, WithoutKeeps
  <2>2. Startled(Fillers) /\ Shifted
    BY <1>2 DEF Prune
  <2>. QED BY <2>1, <2>2, StartledKeeps, ShiftedKeeps DEF LibraryInv
<1>3. CASE articles' = articles
  <2>1. UNCHANGED <<fill, export>>
    BY <1>3 DEF Prune
  <2>2. RowsOk'
    <3>1. ASSUME NEW i \in Present PROVE i <= lastId' /\ articles'[i].created <= now'
      <4>1. articles[i] \in Row /\ i <= lastId /\ articles[i].created <= now
        BY DEF LibraryInv, RowsOk, Present
      <4>. QED BY <1>1, <1>3, <4>1, LibrarySizes DEF LibraryInv, RowsOk, Row
    <3>. QED BY <1>1, <1>3, <3>1, SameTable DEF LibraryInv, RowsOk
  <2>. QED BY <1>3, <2>1, <2>2, SameTable DEF LibraryInv, CallKnows, ExportKnows
<1>. QED BY <1>2, <1>3
-----------------------------------------------------------------------------
(* Export *)

(* Without ties the place of a row in the order is the number of those       *)
(* before it.                                                               *)
LEMMA OrderIsByRank ==
  ASSUME RowsOk, ~Tied, NEW s \in Orders, NEW k \in 1 .. Cardinality(Matching)
  PROVE  s[k] \in Matching /\ Cardinality(Preceding(s[k])) = k - 1
<1> DEFINE n == Cardinality(Matching)
<1>0. n \in Nat /\ IsFiniteSet(Matching)
  BY ArticlesAreFinite
<1>1. /\ s \in [1 .. n -> Matching]
      /\ \A i, j \in 1 .. n : i < j => s[i] # s[j] /\ ~Before(s[j], s[i])
  BY DEF Orders
<1>2. \A i \in Matching : articles[i].created \in Int /\ articles[i].rank \in Int
  <2> SUFFICES ASSUME NEW i \in Matching PROVE articles[i].created \in Int /\ articles[i].rank \in Int
    OBVIOUS
  <2>1. articles[i] \in Row
    BY DEF Matching, Present, RowsOk
  <2>. QED BY <2>1, RowParts
<1>3. \A i, j \in 1 .. n : i < j => Before(s[i], s[j])
  BY <1>1 DEF Tied
<1>4. \A i, j \in 1 .. n : s[i] = s[j] => i = j
  BY <1>0, <1>1
<1>5. s \in Surjection(1 .. n, Matching)
  <2>1. s \in Injection(1 .. n, Matching)
    BY <1>1, <1>4 DEF Injection, IsInjective
  <2>2. Cardinality(1 .. n) = n
    BY <1>0, FS_Interval
  <2>. QED BY <1>0, <2>1, <2>2, FS_Injection
<1>6. Preceding(s[k]) = {s[i] : i \in 1 .. k - 1}
  <2>1. ASSUME NEW j \in Preceding(s[k]) PROVE \E i \in 1 .. k - 1 : j = s[i]
    <3>1. j \in Matching /\ Before(j, s[k])
      BY DEF Preceding
    <3>2. PICK i \in 1 .. n : s[i] = j
      BY <1>5, <3>1 DEF Surjection
    <3>3. i # k
      <4>1. ~Before(s[k], s[k])
        BY <1>1, <1>2 DEF Before
      <4>. QED BY <3>1, <3>2, <4>1
    <3>4. ~(k < i)
      BY <1>1, <3>1, <3>2
    <3>. QED BY <1>0, <3>2, <3>3, <3>4
  <2>2. ASSUME NEW i \in 1 .. k - 1 PROVE s[i] \in Preceding(s[k])
    BY <1>0, <1>1, <1>3 DEF Preceding
  <2>. QED BY <2>1, <2>2
<1>7. Cardinality({s[i] : i \in 1 .. k - 1}) = k - 1
  <2> DEFINE T == {s[i] : i \in 1 .. k - 1}
             g == [i \in 1 .. k - 1 |-> s[i]]
  <2>1. g \in Bijection(1 .. k - 1, T)
    BY <1>0, <1>4 DEF Bijection, Injection, IsInjective, Surjection
  <2>2. ExistsBijection(1 .. k - 1, T)
    BY <2>1 DEF ExistsBijection
  <2>. HIDE DEF T, n
  <2>0. 1 \in Int /\ k - 1 \in Int /\ k >= 1
    BY <1>0 DEF n
  <2>3. IsFiniteSet(1 .. k - 1) /\ Cardinality(1 .. k - 1) = k - 1
    BY <2>0, FS_Interval
  <2>4. Cardinality(T) = k - 1
    BY <2>2, <2>3, FS_Bijection
  <2>. QED BY <2>4 DEF T
<1>. QED BY <1>1, <1>6, <1>7

(* The end of page p + 1 is a page further than that of page p. *)
LEMMA NextPage ==
  ASSUME NEW p \in Nat \ {0}
  PROVE  /\ (p - 1) * PageSize \in Nat /\ (p + 1 - 1) * PageSize = (p - 1) * PageSize + PageSize
         /\ p * PageSize = (p - 1) * PageSize + PageSize
<1>1. PageSize \in Nat
  BY LibrarySizes
<1>. QED BY <1>1, SMT

(* A page holds articles, the full ones PageSize of them. *)
LEMMA PageOf ==
  ASSUME NEW s \in Orders, NEW p \in Nat \ {0}
  PROVE  /\ Page(s, p) \in Seq(Matching)
         /\ (p - 1) * PageSize <= Cardinality(Matching) =>
               LET a == (p - 1) * PageSize
                   b == Least(a + PageSize, Cardinality(Matching))
               IN  Len(Page(s, p)) = b - a /\ \A i \in 1 .. b - a : Page(s, p)[i] = s[a + i]
<1> DEFINE n == Cardinality(Matching)
           a == (p - 1) * PageSize
           b == Least(a + PageSize, n)
<1>1. n \in Nat /\ a \in Nat /\ PageSize \in Nat /\ p * PageSize = a + PageSize
  BY ArticlesAreFinite, NextPage, LibrarySizes
<1>2. s \in [1 .. n -> Matching] /\ Len(s) = n
  BY <1>1 DEF Orders
<1>. HIDE DEF n, a
<1>3. /\ b \in Nat /\ b <= n
      /\ p * PageSize < Len(s) => b = p * PageSize
      /\ ~(p * PageSize < Len(s)) => b = n
  BY <1>1, <1>2 DEF Least
<1>. HIDE DEF b
<1>4. Page(s, p) = SubSeq(s, a + 1, b)
  <2>1. b = IF p * PageSize < Len(s) THEN p * PageSize ELSE Len(s)
    BY <1>2, <1>3
  <2>. QED BY <2>1 DEF Page, a
<1>5. \A i \in a + 1 .. b : s[i] \in Matching
  <2> SUFFICES ASSUME NEW i \in a + 1 .. b PROVE i \in 1 .. n
    BY <1>2
  <2>. QED BY <1>1, <1>3
<1>6. /\ SubSeq(s, a + 1, b) \in Seq(Matching)
      /\ Len(SubSeq(s, a + 1, b)) = IF a + 1 <= b THEN b - (a + 1) + 1 ELSE 0
      /\ \A i \in 1 .. b - (a + 1) + 1 : SubSeq(s, a + 1, b)[i] = s[a + 1 + i - 1]
  <2>1. a + 1 \in Int /\ b \in Int
    BY <1>1, <1>3
  <2>. QED BY <1>5, <2>1, SubSeqProperties
<1>7. ASSUME a <= n
      PROVE  Len(Page(s, p)) = b - a /\ \A i \in 1 .. b - a : Page(s, p)[i] = s[a + i]
  <2>1. a <= b
    BY <1>1, <1>7 DEF b, Least
  <2>2. Len(Page(s, p)) = b - a
    <3>1. Len(Page(s, p)) = IF a + 1 <= b THEN b - (a + 1) + 1 ELSE 0
      BY <1>4, <1>6
    <3>. QED BY <1>1, <1>3, <2>1, <3>1
  <2>3. ASSUME NEW i \in 1 .. b - a PROVE Page(s, p)[i] = s[a + i]
    <3>1. i \in 1 .. b - (a + 1) + 1 /\ a + 1 + i - 1 = a + i
      BY <1>1, <1>3
    <3>. QED BY <1>4, <1>6, <3>1
  <2>. QED BY <2>2, <2>3
<1>. QED BY <1>4, <1>6, <1>7 DEF a, b, n

(* Nothing is read yet, and the first page would be the first. *)
LEMMA StartExportKeeps == ASSUME LibraryInv, StartExport PROVE LibraryInv'
<1>1. UNCHANGED <<now, articles, lastId, fill>>
  BY DEF StartExport, content
<1>2. export' = [NoExport EXCEPT !.pc = "page", !.tied = Tied]
  BY DEF StartExport
<1>3. /\ export'.pc = "page" /\ export'.page = 1 /\ export'.rows = <<>> /\ export'.total = -1
      /\ export'.calm = TRUE /\ export'.same = TRUE /\ export'.tied = Tied /\ export' \in Exports
  <2>1. Tied \in BOOLEAN
    BY DEF Tied
  <2>2. <<>> \in Seq(ArticleIds) /\ -1 \in -1 .. MaxId
    BY LibrarySizes, EmptySeq
  <2>3. export' = [pc |-> "page", page |-> 1, rows |-> <<>>, total |-> -1,
                   calm |-> TRUE, same |-> TRUE, tied |-> Tied]
    BY <1>2 DEF NoExport
  <2>. QED BY <2>1, <2>2, <2>3 DEF Exports
<1>4. ExportKnows(export)'
  <2>1. Cardinality(Matching) \in Nat /\ PageSize \in Nat /\ (1 - 1) * PageSize = 0
    BY ArticlesAreFinite, LibrarySizes
  <2>. QED BY <1>1, <1>3, <2>1, SameTable DEF ExportKnows, Full, Least
<1>. QED BY <1>1, <1>3, <1>4, SameTable DEF LibraryInv, RowsOk, CallKnows

(* The next page continues the rows where the last one ended. *)
LEMMA ReadPageKeeps == ASSUME LibraryInv, ReadPage PROVE LibraryInv'
<1>1. UNCHANGED <<now, articles, lastId, fill>> /\ export.pc = "page"
  BY DEF ReadPage, content
<1>2. PICK s \in Orders :
          export' = [export EXCEPT !.pc = "count", !.rows = @ \o Page(s, export.page), !.page = @ + 1]
  BY DEF ReadPage
<1> DEFINE p == export.page
           n == Cardinality(Matching)
           a == (p - 1) * PageSize
           b == Least(a + PageSize, n)
           next == Page(s, p)
<1>3. export \in Exports /\ p \in Nat \ {0} /\ export.rows \in Seq(ArticleIds)
  BY DEF LibraryInv, Exports
<1>4. /\ next \in Seq(ArticleIds)
      /\ export.rows \o next \in Seq(ArticleIds)
  <2>1. next \in Seq(Matching)
    BY <1>3, PageOf
  <2>2. next \in Seq(ArticleIds)
    BY <2>1, SeqMonotonic, ArticlesAreFinite
  <2>. QED BY <1>3, <2>2, ConcatProperties
<1>. HIDE DEF next
<1>5. /\ export'.pc = "count" /\ export'.page = p + 1 /\ export'.rows = export.rows \o next
      /\ export'.total = export.total /\ export'.calm = export.calm /\ export'.tied = export.tied
      /\ export' \in Exports
  <2>1. export' = [pc |-> "count", page |-> p + 1, rows |-> export.rows \o next,
                   total |-> export.total, calm |-> export.calm, same |-> export.same, tied |-> export.tied]
    BY <1>2, <1>3 DEF Exports, next
  <2>2. p + 1 \in Nat \ {0}
    BY <1>3
  <2>3. export.total \in -1 .. MaxId /\ {export.calm, export.same, export.tied} \subseteq BOOLEAN
    BY <1>3 DEF Exports
  <2>. QED BY <1>4, <2>1, <2>2, <2>3 DEF Exports
<1>6. ExportKnows(export)'
  <2> SUFFICES ASSUME export.calm, ~export.tied PROVE ExportKnows(export)'
    BY <1>5 DEF ExportKnows
  <2>1. /\ ~Tied /\ export.total \in {-1, n} /\ Len(export.rows) = a
        /\ Len(export.rows) = Least(a, n)
        /\ \A k \in 1 .. a : export.rows[k] \in Matching /\ Cardinality(Preceding(export.rows[k])) = k - 1
    BY <1>1 DEF LibraryInv, ExportKnows, Full
  <2>2. n \in Nat /\ a \in Nat /\ PageSize \in Nat /\ (p + 1 - 1) * PageSize = a + PageSize
    BY <1>3, ArticlesAreFinite, NextPage, LibrarySizes
  <2>3. a <= n
    BY <2>1, <2>2 DEF Least
  <2>4. Len(next) = b - a /\ \A i \in 1 .. b - a : next[i] = s[a + i]
    BY <1>3, <2>3, PageOf DEF next
  <2>. HIDE DEF n, a
  <2>5. b \in Nat /\ a <= b /\ b <= n
    BY <2>2, <2>3 DEF Least
  <2>6. b = Least((p + 1 - 1) * PageSize, n)
    BY <2>2
  <2>. HIDE DEF b
  <2>a. /\ Len(export.rows \o next) = Len(export.rows) + Len(next)
        /\ \A k \in 1 .. Len(export.rows) + Len(next) : (export.rows \o next)[k] =
               IF k <= Len(export.rows) THEN export.rows[k] ELSE next[k - Len(export.rows)]
    BY <1>3, <1>4, ConcatProperties
  <2>b. Len(export.rows) + Len(next) = b
    <3>1. Len(export.rows) = a
      BY <2>1
    <3>2. Len(next) = b - a
      BY <2>4
    <3>. QED BY <2>2, <2>5, <3>1, <3>2
  <2>7. Len(export.rows \o next) = b
    BY <2>a, <2>b
  <2>8. ASSUME NEW k \in 1 .. b
        PROVE  LET x == (export.rows \o next)[k]
               IN  x \in Matching /\ Cardinality(Preceding(x)) = k - 1
    <3>1. (export.rows \o next)[k] = IF k <= a THEN export.rows[k] ELSE next[k - a]
      BY <2>1, <2>a, <2>b
    <3>2. CASE k <= a
      <4>1. k \in 1 .. a
        BY <2>2, <2>5, <3>2
      <4>2. (export.rows \o next)[k] = export.rows[k]
        BY <3>1, <3>2
      <4>. QED BY <2>1, <4>1, <4>2
    <3>3. CASE ~(k <= a)
      <4>1. k - a \in 1 .. b - a /\ a + (k - a) = k /\ k \in 1 .. n
        BY <2>2, <2>5, <3>3
      <4>2. next[k - a] = s[k]
        BY <2>4, <4>1
      <4>. QED BY <2>1, <3>1, <3>3, <4>1, <4>2, OrderIsByRank DEF LibraryInv, n
    <3>. QED BY <3>2, <3>3
  <2>9. (\A k \in 1 .. Len(export.rows) :
             export.rows[k] \in Matching /\ Cardinality(Preceding(export.rows[k])) = k - 1)'
    BY <1>1, <1>5, <2>7, <2>8, SameTable DEF Preceding
  <2>10. (Len(export.rows) = Least((export.page - 1) * PageSize, Cardinality(Matching)))'
    <3>1. Len(export'.rows) = b
      BY <1>5, <2>7
    <3>2. export'.page - 1 = p + 1 - 1
      BY <1>3, <1>5
    <3>3. Cardinality(Matching') = n
      BY <1>1, SameTable DEF n
    <3>. QED BY <2>6, <3>1, <3>2, <3>3
  <2>11. (~Tied /\ export.total \in {-1, Cardinality(Matching)} /\ export.pc = "count")'
    BY <1>1, <1>5, <2>1, SameTable DEF n
  <2>. QED BY <2>9, <2>10, <2>11 DEF ExportKnows
<1>. QED BY <1>1, <1>5, <1>6, SameTable DEF LibraryInv, RowsOk, CallKnows

(* A call that has returned is at its first page again. *)
LEMMA EndedIsTyped ==
  ASSUME NEW to \in {"done", "error"} PROVE Ended(to) \in Exports /\ Ended(to).pc = to
<1> DEFINE e == [NoExport EXCEPT !.pc = to]
<1>1. <<>> \in Seq(ArticleIds) /\ -1 \in -1 .. MaxId
  BY LibrarySizes, EmptySeq
<1>2. NoExport \in Exports
  BY <1>1 DEF NoExport, Exports
<1>3. e \in Exports /\ e.pc = to
  BY <1>2 DEF Exports
<1>. QED BY <1>3 DEF Ended

(* The export goes on only after a full page with rows left. *)
LEMMA CountRowsKeeps == ASSUME LibraryInv, CountRows PROVE LibraryInv'
<1>1. UNCHANGED <<now, articles, lastId, fill>> /\ export.pc = "count"
  BY DEF CountRows, content
<1> DEFINE n == Cardinality(Matching)
           total == IF export.total < 0 THEN n ELSE export.total
           to == AfterPage(export, total)
<1>2. export' = IF to = "page" THEN [export EXCEPT !.total = total, !.pc = to] ELSE Ended(to)
  BY DEF CountRows
<1>3. export \in Exports /\ n \in 0 .. MaxId /\ total \in -1 .. MaxId
  BY LibrarySizes, ArticlesAreFinite DEF LibraryInv, Exports
<1>4. to \in {"done", "error", "page"}
  BY DEF AfterPage
<1>5. CASE to # "page"
  <2>1. export' \in Exports /\ export'.pc \in {"done", "error"}
    BY <1>2, <1>4, <1>5, EndedIsTyped
  <2>. QED BY <1>1, <2>1, SameTable DEF LibraryInv, RowsOk, CallKnows, ExportKnows
<1>6. CASE to = "page"
  <2>a. AfterPage(export, total) = "page"
    BY <1>6
  <2>b. export' = [export EXCEPT !.total = total, !.pc = "page"]
    BY <1>2, <1>6
  <2>. HIDE DEF n, total, to
  <2>1. /\ export'.pc = "page" /\ export'.page = export.page
        /\ export'.rows = export.rows /\ export'.total = total
        /\ export'.calm = export.calm /\ export'.tied = export.tied /\ export' \in Exports
    BY <1>3, <2>b DEF Exports
  <2>2. ExportKnows(export)'
    <3> SUFFICES ASSUME export.calm, ~export.tied PROVE ExportKnows(export)'
      BY <2>1 DEF ExportKnows
    <3>1. ExportKnows(export) /\ export.total \in {-1, n} /\ ~Tied
      BY <1>1 DEF LibraryInv, ExportKnows, n
    <3>2. total = n
      BY <1>3, <3>1 DEF total
    <3>3. Full(export) /\ (Full(export)' <=> Full(export))
      BY <2>a, <2>1 DEF AfterPage, Full
    <3>. QED BY <1>1, <2>1, <3>1, <3>2, <3>3, SameTable DEF ExportKnows, n
  <2>. QED BY <1>1, <2>1, <2>2, SameTable DEF LibraryInv, RowsOk, CallKnows
<1>. QED BY <1>5, <1>6

(* A failed export answers nothing. *)
LEMMA ExportFailsKeeps == ASSUME LibraryInv, ExportFails PROVE LibraryInv'
<1>1. UNCHANGED <<now, articles, lastId, fill>> /\ export' = Ended("error")
  BY DEF ExportFails, content
<1>2. export' \in Exports /\ export'.pc = "error"
  BY <1>1, EndedIsTyped
<1>. QED BY <1>1, <1>2, SameTable DEF LibraryInv, RowsOk, CallKnows, ExportKnows
-----------------------------------------------------------------------------
(* Backfill *)

(* A row with a text and a new rank is a row. *)
LEMMA TextRow ==
  ASSUME RowsOk, NEW i \in Present, NEW r \in Ranks,
         articles' = [articles EXCEPT ![i] = [@ EXCEPT !.text = TRUE, !.rank = r]]
  PROVE  /\ articles'[i].created = articles[i].created /\ articles'[i].text = TRUE
         /\ articles'[i].rank = r
         /\ \A j \in ArticleIds \ {i} : articles'[j] = articles[j]
         /\ articles' \in [ArticleIds -> Row \cup {Null}] /\ Present' = Present
<1>1. i \in ArticleIds /\ articles[i] \in Row
  BY DEF Present, RowsOk
<1> DEFINE row == [articles[i] EXCEPT !.text = TRUE, !.rank = r]
<1>2. articles' = [articles EXCEPT ![i] = row]
  OBVIOUS
<1>3. row \in Row /\ row.created = articles[i].created /\ row.text = TRUE /\ row.rank = r
  <2>1. \A new : new = row => new \in Row /\ new.created = articles[i].created /\ new.text = TRUE /\ new.rank = r
    BY <1>1, RowFilled
  <2>. HIDE DEF row
  <2>. QED BY <2>1
<1>. HIDE DEF row
<1>4. row # Null
  BY <1>3, NullAssumption
<1>5. /\ articles'[i] = row /\ \A j \in ArticleIds \ {i} : articles'[j] = articles[j]
      /\ articles' \in [ArticleIds -> Row \cup {Null}]
  BY <1>1, <1>2, <1>3 DEF RowsOk
<1>6. Present' = Present
  BY <1>1, <1>4, <1>5 DEF Present
<1>. QED BY <1>3, <1>4, <1>5, <1>6

(* One article fewer is without a text when one that was gets it. *)
LEMMA FilledOne ==
  ASSUME RowsOk, NEW i \in Missing, WriteText(i)
  PROVE  Missing' = Missing \ {i} /\ Cardinality(Missing') = Cardinality(Missing) - 1
<1>1. i \in Present /\ Missing \subseteq ArticleIds
  BY DEF Missing, Present
<1>2. PICK r \in Ranks : articles' = [articles EXCEPT ![i] = [@ EXCEPT !.text = TRUE, !.rank = r]]
  BY <1>1 DEF WriteText, NewRanks
<1>3. Present' = Present /\ articles'[i].text = TRUE /\ \A j \in ArticleIds \ {i} : articles'[j] = articles[j]
  BY <1>1, <1>2, TextRow
<1>4. Missing' = Missing \ {i}
  <2>1. \A j \in Present : ~articles'[j].text <=> j # i /\ ~articles[j].text
    BY <1>1, <1>3 DEF Present
  <2>. QED BY <1>3, <2>1 DEF Missing
<1>. QED BY <1>4, ArticlesAreFinite, FS_RemoveElement

(* A text changes neither which articles there are nor how old they are, and *)
(* the export learns when it changes their order.                            *)
LEMMA TextKeeps ==
  ASSUME LibraryInv, NEW i \in ArticleIds, WriteText(i), UNCHANGED <<now, lastId>>
  PROVE  RowsOk' /\ export' \in Exports /\ ExportKnows(export)'
<1>0. RowsOk
  BY DEF LibraryInv
<1>1. CASE i \notin Present
  <2>1. articles' = articles /\ export' = export
    BY <1>1 DEF WriteText
  <2>. QED BY <2>1, SameTable DEF LibraryInv, RowsOk, ExportKnows
<1>2. CASE i \in Present
  <2>1. PICK r \in Ranks : articles' = [articles EXCEPT ![i] = [@ EXCEPT !.text = TRUE, !.rank = r]]
    BY <1>2 DEF WriteText, NewRanks
  <2>2. /\ articles'[i].created = articles[i].created
        /\ \A j \in ArticleIds \ {i} : articles'[j] = articles[j]
        /\ articles' \in [ArticleIds -> Row \cup {Null}] /\ Present' = Present
    BY <1>0, <1>2, <2>1, TextRow
  <2>3. RowsOk'
    <3>1. \A j \in Present : articles'[j].created = articles[j].created
      BY <2>2 DEF Present
    <3>. QED BY <1>0, <2>2, <3>1 DEF RowsOk
  <2>4. CASE articles'[i].rank # articles[i].rank
    <3>1. Shifted
      BY <1>2, <2>4 DEF WriteText
    <3>. QED BY <2>3, <3>1, ShiftedKeeps
  <2>5. CASE articles'[i].rank = articles[i].rank
    <3>1. export' = export
      BY <1>2, <2>5 DEF WriteText
    <3>2. \A j \in Present : articles'[j].created = articles[j].created /\ articles'[j].rank = articles[j].rank
      BY <2>2, <2>5 DEF Present
    <3>3. Matching' = Matching
      BY <2>2, <3>2 DEF Matching
    <3>4. \A j, k \in Present : Before(j, k)' = Before(j, k)
      BY <3>2 DEF Before
    <3>5. Matching \subseteq Present
      BY DEF Matching
    <3>6. (Tied' <=> Tied) /\ \A j \in Matching : Preceding(j)' = Preceding(j)
      BY <3>3, <3>4, <3>5 DEF Tied, Preceding
    <3>7. ExportKnows(export)'
      BY <3>1, <3>3, <3>6 DEF LibraryInv, ExportKnows, Full
    <3>. QED BY <2>3, <3>1, <3>7 DEF LibraryInv
  <2>. QED BY <2>4, <2>5
<1>. QED BY <1>1, <1>2

(* A row that enters the filter of the export, or leaves it, is still one. *)
LEMMA AmendKeeps == ASSUME LibraryInv, NEW i \in ArticleIds, Amend(i) PROVE LibraryInv'
<1>0. RowsOk /\ i \in Present /\ i \in ArticleIds
  BY DEF LibraryInv, Amend, Present
<1>1. PICK r \in Ranks : articles' = [articles EXCEPT ![i] = [@ EXCEPT !.rank = r]]
  BY DEF Amend
<1>2. Shifted /\ UNCHANGED <<now, lastId, fill>>
  BY DEF Amend
<1> DEFINE row == [created |-> articles[i].created, text |-> articles[i].text, rank |-> r]
<1>3. articles[i] \in Row /\ row \in Row
  BY <1>0 DEF RowsOk, Present, Row
<1>4. articles' = [articles EXCEPT ![i] = row] /\ row # Null
  <2>1. [articles[i] EXCEPT !.rank = r] = row
    BY <1>3 DEF Row
  <2>. QED BY <1>1, <1>3, <2>1, NullAssumption
<1>5. row.created = articles[i].created /\ row.text = articles[i].text
  OBVIOUS
<1>. HIDE DEF row
<1>6. articles' \in [ArticleIds -> Row \cup {Null}] /\ Present' = Present
  BY <1>0, <1>3, <1>4 DEF RowsOk, Present
<1>7. \A j \in Present : articles'[j].created = articles[j].created /\ articles'[j].text = articles[j].text
  BY <1>0, <1>4, <1>5 DEF RowsOk, Present
<1>8. RowsOk' /\ Missing' = Missing
  BY <1>0, <1>2, <1>6, <1>7 DEF RowsOk, Missing
<1>9. \A f \in Fillers : CallKnows(fill[f])'
  BY <1>2, <1>8 DEF LibraryInv, CallKnows
<1>. QED BY <1>2, <1>8, <1>9, ShiftedKeeps DEF LibraryInv

(* A step of one backfill that leaves the articles. *)
LEMMA StepKeeps ==
  ASSUME LibraryInv, NEW f \in Fillers, NEW call \in Calls, SetFill(f, call), articles' = articles,
         CallFits(call), CallKnows(call)
  PROVE  LibraryInv'
<1>1. /\ UNCHANGED <<now, articles, lastId, export>>
      /\ fill' = [fill EXCEPT ![f] = call]
  BY DEF SetFill
<1>2. RowsOk' /\ export' \in Exports /\ ExportKnows(export)'
  BY <1>1, SameTable DEF LibraryInv, RowsOk, ExportKnows, Full
<1>3. ASSUME NEW g \in Fillers PROVE fill'[g] \in Calls /\ CallFits(fill'[g]) /\ CallKnows(fill[g])'
  <2>1. fill'[g] = IF g = f THEN call ELSE fill[g]
    BY <1>1 DEF LibraryInv
  <2>2. CallKnows(fill[g])' <=> CallKnows(fill'[g])
    BY <1>1, SameTable DEF CallKnows
  <2>. QED BY <2>1, <2>2 DEF LibraryInv
<1>. QED BY <1>1, <1>2, <1>3 DEF LibraryInv

(* A list of articles without a text, none of them twice. *)
LEMMA ListKeeps ==
  ASSUME LibraryInv, NEW f \in Fillers, ListMissing(f) PROVE LibraryInv'
<1>1. PICK refs \in Oldest(Missing) :
          SetFill(f, [NoFill EXCEPT !.pc = "count", !.refs = refs, !.before = Cardinality(Missing)])
  BY DEF ListMissing
<1> DEFINE m == Cardinality(Missing)
           n == IF m < Limit THEN m ELSE Limit
           call == [NoFill EXCEPT !.pc = "count", !.refs = refs, !.before = m]
<1>2. m \in Nat /\ m <= MaxId /\ Limit \in Nat /\ Missing \subseteq ArticleIds
  BY ArticlesAreFinite, LibrarySizes
<1>3. n \in Nat /\ n <= Limit
  BY <1>2
<1>4. refs \in [1 .. n -> Missing] /\ \A i, j \in 1 .. n : i < j => refs[i] < refs[j]
  BY DEF Oldest
<1>. HIDE DEF n, m
<1>5. refs \in Seq(ArticleIds) /\ Len(refs) = n
  <2>1. refs \in [1 .. n -> ArticleIds]
    BY <1>2, <1>4
  <2>. QED BY <1>3, <2>1, SeqDef
<1>6. /\ call \in Calls
      /\ call.pc = "count" /\ call.refs = refs /\ call.at = 1 /\ call.updated = 0 /\ call.failed = 0
      /\ call.remaining = 0 /\ call.before = m
  <2> DEFINE c1 == [NoFill EXCEPT !.pc = "count"]
             c2 == [c1 EXCEPT !.refs = refs]
  <2>1. /\ NoFill \in Calls
        /\ NoFill.at = 1 /\ NoFill.updated = 0 /\ NoFill.failed = 0 /\ NoFill.remaining = 0
    <3>1. <<>> \in Seq(ArticleIds)
      BY EmptySeq
    <3>. QED BY <3>1 DEF NoFill, Calls
  <2>2. /\ c1 \in Calls /\ c1.pc = "count"
        /\ c1.at = 1 /\ c1.updated = 0 /\ c1.failed = 0 /\ c1.remaining = 0
    BY <2>1 DEF Calls
  <2>3. call = [c2 EXCEPT !.before = m]
    BY DEF NoFill
  <2>. HIDE DEF c1, call
  <2>4. /\ c2 \in Calls /\ c2.pc = "count" /\ c2.refs = refs
        /\ c2.at = 1 /\ c2.updated = 0 /\ c2.failed = 0 /\ c2.remaining = 0
    BY <1>5, <2>2 DEF Calls
  <2>. HIDE DEF c2
  <2>. QED BY <1>2, <2>3, <2>4 DEF Calls
<1>. HIDE DEF call
<1>8. CallFits(call)
  BY <1>3, <1>5, <1>6 DEF CallFits
<1>9. CallKnows(call)
  <2>1. \A k, l \in 1 .. n : k # l => refs[k] # refs[l]
    <3> SUFFICES ASSUME NEW k \in 1 .. n, NEW l \in 1 .. n, k < l PROVE refs[k] # refs[l]
      BY <1>3
    <3>1. refs[k] < refs[l]
      BY <1>4
    <3>2. refs[k] \in ArticleIds /\ refs[l] \in ArticleIds
      BY <1>2, <1>4
    <3>3. refs[k] \in Int /\ refs[l] \in Int
      BY <3>2, LibrarySizes DEF ArticleIds
    <3>. QED BY <3>1, <3>3
  <2>. QED BY <1>2, <1>4, <1>5, <1>6, <2>1 DEF CallKnows, m
<1>10. SetFill(f, call) /\ articles' = articles
  BY <1>1 DEF call, m, ListMissing
<1>. QED BY <1>6, <1>8, <1>9, <1>10, StepKeeps

(* The count comes from the same articles when nobody touched them. *)
LEMMA CountKeeps ==
  ASSUME LibraryInv, NEW f \in Fillers, CountMissing(f) PROVE LibraryInv'
<1> DEFINE old == fill[f]
           m == Cardinality(Missing)
           call == [old EXCEPT !.pc = IF old.refs = <<>> THEN "done" ELSE "enrich", !.remaining = m]
<1>1. old \in Calls /\ CallFits(old) /\ CallKnows(old) /\ old.pc = "count"
  BY DEF LibraryInv, CountMissing
<1>2. m \in 0 .. MaxId
  BY ArticlesAreFinite
<1>3. SetFill(f, call) /\ articles' = articles
  BY DEF CountMissing
<1>. HIDE DEF old, m
<1>4. call = [pc |-> IF old.refs = <<>> THEN "done" ELSE "enrich", refs |-> old.refs,
              texts |-> old.texts, at |-> old.at, last |-> old.last, updated |-> old.updated,
              failed |-> old.failed, remaining |-> m, before |-> old.before, calm |-> old.calm]
  <2> DEFINE to == IF old.refs = <<>> THEN "done" ELSE "enrich"
  <2>1. call = [old EXCEPT !.pc = to, !.remaining = m]
    OBVIOUS
  <2>. HIDE DEF to, call
  <2>2. call = [pc |-> to, refs |-> old.refs,
                texts |-> old.texts, at |-> old.at, last |-> old.last, updated |-> old.updated,
                failed |-> old.failed, remaining |-> m, before |-> old.before, calm |-> old.calm]
    BY <1>1, <2>1 DEF Calls
  <2>. QED BY <2>2 DEF to
<1>. HIDE DEF call
<1>5. old.refs \in Seq(ArticleIds) /\ old.at = 1 /\ old.updated \in Nat /\ old.failed \in Nat
      /\ old.updated = 0 /\ old.failed = 0
  BY <1>1 DEF Calls, CallFits
<1>6. call \in Calls
  BY <1>1, <1>2, <1>4, LibrarySizes DEF Calls
<1>7. (old.refs = <<>> <=> Len(old.refs) = 0) /\ Len(old.refs) \in Nat
  BY <1>5, EmptySeq
<1>8. CallFits(call)
  BY <1>1, <1>2, <1>4, <1>5, <1>7, LibrarySizes DEF CallFits
<1>9. CallKnows(call)
  BY <1>1, <1>4 DEF CallKnows, Running, m
<1>. QED BY <1>3, <1>6, <1>8, <1>9, StepKeeps


(* A batch ends at the end of the list at the latest. *)
LEMMA EnrichKeeps ==
  ASSUME LibraryInv, NEW f \in Fillers, EnrichBatch(f) PROVE LibraryInv'
<1> DEFINE old  == fill[f]
           end  == old.at + BatchSize - 1
           last == IF end < Len(old.refs) THEN end ELSE Len(old.refs)
<1>1. PICK got \in SUBSET {old.refs[k] : k \in old.at .. last} :
          SetFill(f, [old EXCEPT !.pc = "update", !.last = last, !.texts = got])
  BY DEF EnrichBatch
<1> DEFINE call == [old EXCEPT !.pc = "update", !.last = last, !.texts = got]
<1>2. old \in Calls /\ CallFits(old) /\ CallKnows(old) /\ old.pc = "enrich"
  BY DEF LibraryInv, EnrichBatch
<1>3. SetFill(f, call) /\ articles' = articles
  BY <1>1 DEF EnrichBatch
<1>. HIDE DEF old
<1>4. /\ old.refs \in Seq(ArticleIds) /\ Len(old.refs) \in Nat /\ old.at \in Nat \ {0}
      /\ old.at <= Len(old.refs) /\ BatchSize \in Nat \ {0}
  BY <1>2, LibrarySizes DEF Calls, CallFits
<1>5. last \in Nat /\ old.at <= last /\ last <= Len(old.refs)
  BY <1>4
<1>. HIDE DEF last
<1>6. got \in SUBSET ArticleIds
  <2>1. \A k \in old.at .. last : old.refs[k] \in ArticleIds
    <3> SUFFICES ASSUME NEW k \in old.at .. last PROVE k \in 1 .. Len(old.refs)
      BY <1>4, ElementOfSeq
    <3>. QED BY <1>4, <1>5
  <2>. QED BY <2>1
<1>7. /\ call \in Calls /\ call.pc = "update" /\ call.last = last /\ call.refs = old.refs
      /\ call.at = old.at /\ call.updated = old.updated /\ call.failed = old.failed
      /\ call.remaining = old.remaining /\ call.before = old.before /\ call.calm = old.calm
  <2> DEFINE c1 == [old EXCEPT !.pc = "update"]
             c2 == [c1 EXCEPT !.last = last]
  <2>1. c1 \in Calls
    BY <1>2 DEF Calls
  <2>2. c2 \in Calls
    BY <1>5, <2>1 DEF Calls
  <2>3. [c2 EXCEPT !.texts = got] \in Calls
    BY <1>6, <2>2 DEF Calls
  <2>4. call = [c2 EXCEPT !.texts = got]
    BY <1>2 DEF Calls
  <2>5. call \in Calls
    BY <2>3, <2>4
  <2>. QED BY <1>2, <2>5 DEF Calls
<1>. HIDE DEF call
<1>8. CallFits(call)
  BY <1>2, <1>4, <1>5, <1>7 DEF CallFits
<1>9. CallKnows(call)
  BY <1>2, <1>7 DEF CallKnows, Running
<1>. QED BY <1>3, <1>7, <1>8, <1>9, StepKeeps

(* A call that has counted its article. *)
HasCounted(call) ==
    /\ call \in Calls /\ call.pc = "update"
    /\ Len(call.refs) <= Limit
    /\ call.updated + call.failed = call.at
    /\ call.at <= call.last /\ call.last <= Len(call.refs)
    /\ call.remaining + call.updated \in 0 .. MaxId

(* The next place is in the batch, in the next one, or behind the list. *)
LEMMA AdvancedFits ==
  ASSUME NEW call, HasCounted(call)
  PROVE  /\ Advanced(call) \in Calls /\ CallFits(Advanced(call))
         /\ Advanced(call).pc \in {"enrich", "update", "done"} /\ Advanced(call).at = call.at + 1
         /\ Advanced(call).refs = call.refs /\ Advanced(call).updated = call.updated
         /\ Advanced(call).remaining = call.remaining
         /\ Advanced(call).before = call.before /\ Advanced(call).calm = call.calm
<1> DEFINE to == IF call.at = Len(call.refs) THEN "done"
                 ELSE IF call.at = call.last THEN "enrich" ELSE "update"
           next == Advanced(call)
<1>1. /\ call \in Calls /\ call.at \in Nat \ {0} /\ call.last \in Nat /\ Len(call.refs) \in Nat
      /\ call.updated \in Nat /\ call.failed \in Nat
  BY DEF HasCounted, Calls
<1>2. to \in {"enrich", "update", "done"}
  OBVIOUS
<1>3. next = [[call EXCEPT !.at = call.at + 1] EXCEPT !.pc = to]
  BY <1>1 DEF Advanced, Calls
<1>. HIDE DEF next, to
<1>4. /\ next \in Calls /\ next.pc = to /\ next.at = call.at + 1
      /\ next.refs = call.refs /\ next.updated = call.updated /\ next.failed = call.failed
      /\ next.remaining = call.remaining /\ next.last = call.last
      /\ next.before = call.before /\ next.calm = call.calm
  <2>1. call.at + 1 \in Nat \ {0}
    BY <1>1
  <2>2. [call EXCEPT !.at = call.at + 1] \in Calls
    BY <1>1, <2>1 DEF Calls
  <2>. QED BY <1>1, <1>2, <1>3, <2>2 DEF Calls
<1>5. CallFits(next)
  BY <1>1, <1>4 DEF CallFits, HasCounted, to
<1>. QED BY <1>2, <1>4, <1>5 DEF next

(* The article a call has come to is one of its list. *)
LEMMA PlaceInList ==
  ASSUME NEW call \in Calls, CallFits(call), call.pc = "update"
  PROVE  /\ call.refs \in Seq(ArticleIds) /\ Len(call.refs) \in Nat /\ call.at \in 1 .. Len(call.refs)
         /\ call.refs[call.at] \in ArticleIds
<1>1. call.refs \in Seq(ArticleIds) /\ call.at \in Nat \ {0} /\ call.last \in Nat
  BY DEF Calls
<1>2. Len(call.refs) \in Nat /\ call.at <= call.last /\ call.last <= Len(call.refs)
  BY <1>1 DEF CallFits
<1>3. call.at \in 1 .. Len(call.refs)
  BY <1>1, <1>2
<1>. QED BY <1>1, <1>2, <1>3, ElementOfSeq

(* What the two outcomes of an article count. *)
LEMMA FailureCounts ==
  ASSUME NEW call \in Calls, CallFits(call), call.pc = "update"
  PROVE  LET c == CountsFailure(call)
         IN  /\ HasCounted(c)
             /\ c.at = call.at /\ c.refs = call.refs /\ c.updated = call.updated
             /\ c.remaining = call.remaining /\ c.before = call.before /\ c.calm = call.calm
<1> DEFINE c == CountsFailure(call)
<1>1. c \in Calls
  BY DEF CountsFailure, Calls
<1>2. /\ c.at = call.at /\ c.refs = call.refs /\ c.updated = call.updated /\ c.failed = call.failed + 1
      /\ c.remaining = call.remaining /\ c.before = call.before /\ c.calm = call.calm
      /\ c.pc = call.pc /\ c.last = call.last
  BY DEF CountsFailure, Calls
<1>3. call.at \in Nat /\ call.updated \in Nat /\ call.failed \in Nat
  BY DEF Calls
<1>. HIDE DEF c
<1>4. HasCounted(c)
  BY <1>1, <1>2, <1>3 DEF HasCounted, CallFits
<1>. QED BY <1>2, <1>4 DEF c

LEMMA UpdateCounts ==
  ASSUME NEW call \in Calls, CallFits(call), call.pc = "update"
  PROVE  LET c == CountsUpdate(call)
         IN  /\ HasCounted(c)
             /\ c.at = call.at /\ c.refs = call.refs /\ c.updated = call.updated + 1
             /\ c.remaining = call.remaining - 1 /\ c.before = call.before /\ c.calm = call.calm
<1> DEFINE c == CountsUpdate(call)
<1>3. call.at \in Nat /\ call.updated \in Nat /\ call.failed \in Nat /\ call.remaining \in Int
  BY DEF Calls
<1>1. c \in Calls
  <2>1. [call EXCEPT !.updated = call.updated + 1] \in Calls
    BY <1>3 DEF Calls
  <2>2. c = [[call EXCEPT !.updated = call.updated + 1] EXCEPT !.remaining = call.remaining - 1]
    BY DEF CountsUpdate, Calls
  <2>3. call.remaining - 1 \in Int
    BY <1>3
  <2>. QED BY <2>1, <2>2, <2>3 DEF Calls
<1>2. /\ c.at = call.at /\ c.refs = call.refs /\ c.updated = call.updated + 1 /\ c.failed = call.failed
      /\ c.remaining = call.remaining - 1 /\ c.before = call.before /\ c.calm = call.calm
      /\ c.pc = call.pc /\ c.last = call.last
  BY DEF CountsUpdate, Calls
<1>. HIDE DEF c
<1>4. HasCounted(c)
  <2>1. c.remaining + c.updated = call.remaining + call.updated /\ c.updated + c.failed = c.at
    <3>1. call.updated + call.failed = call.at - 1
      BY DEF CallFits
    <3>. QED BY <1>2, <1>3, <3>1
  <2>2. call.remaining + call.updated \in 0 .. MaxId
    BY DEF CallFits
  <2>3. Len(c.refs) <= Limit /\ c.at <= c.last /\ c.last <= Len(c.refs)
    BY <1>2 DEF CallFits
  <2>. QED BY <1>1, <1>2, <2>1, <2>2, <2>3 DEF HasCounted
<1>. QED BY <1>2, <1>4 DEF c

(* After the statement of an article a call that nobody disturbed still      *)
(* knows, whether it goes on or answers.                                     *)
Knows(call) ==
    /\ \A k, l \in 1 .. Len(call.refs) : k # l => call.refs[k] # call.refs[l]
    /\ \A k \in call.at .. Len(call.refs) : call.refs[k] \in Missing
    /\ call.updated + Cardinality(Missing) = call.before
    /\ call.remaining = Cardinality(Missing)

LEMMA UpdateStep ==
  ASSUME LibraryInv, NEW f \in Fillers, UpdateOne(f)
  PROVE  /\ fill'[f] \in Calls /\ CallFits(fill'[f])
         /\ fill[f].calm => Knows(fill[f])'
         /\ fill'[f].calm = fill[f].calm /\ fill'[f].before = fill[f].before /\ Running(fill[f])
<1> DEFINE old == fill[f]
           i   == old.refs[old.at]
<1>1. old \in Calls /\ CallFits(old) /\ CallKnows(old) /\ old.pc = "update"
  BY DEF LibraryInv, UpdateOne
<1>2. /\ old.refs \in Seq(ArticleIds) /\ old.at \in 1 .. Len(old.refs) /\ Len(old.refs) \in Nat
      /\ old.updated \in Nat /\ old.before \in Nat
  BY <1>1, PlaceInList DEF Calls
<1>3. Running(old)
  BY <1>1 DEF Running
<1>4. old.calm => Knows(old)
  BY <1>1, <1>3 DEF CallKnows, Knows
<1>5. Cardinality(Missing) \in Nat
  BY ArticlesAreFinite
<1>6. CASE ~Writes(old, i) /\ SetFill(f, Advanced(CountsFailure(old))) /\ UNCHANGED articles
  <2>1. fill'[f] = Advanced(CountsFailure(old)) /\ articles' = articles
    BY <1>6 DEF SetFill, LibraryInv
  <2>. HIDE DEF old
  <2>2. fill'[f] \in Calls /\ CallFits(fill'[f]) /\ fill'[f].calm = old.calm
    BY <1>1, <2>1, FailureCounts, AdvancedFits
  <2>3. /\ fill'[f].refs = old.refs /\ fill'[f].at = old.at + 1 /\ fill'[f].updated = old.updated
        /\ fill'[f].remaining = old.remaining /\ fill'[f].before = old.before
    BY <1>1, <2>1, FailureCounts, AdvancedFits
  <2>4. Missing' = Missing
    BY <2>1, SameTable
  <2>5. Knows(old) => Knows(fill[f])'
    BY <1>2, <2>3, <2>4 DEF Knows
  <2>. QED BY <1>3, <1>4, <2>2, <2>3, <2>5 DEF old
<1>7. CASE Writes(old, i) /\ SetFill(f, Advanced(CountsFailure(old))) /\ UNCHANGED articles
  <2>1. fill'[f] = Advanced(CountsFailure(old)) /\ articles' = articles
    BY <1>7 DEF SetFill, LibraryInv
  <2>. HIDE DEF old
  <2>2. fill'[f] \in Calls /\ CallFits(fill'[f]) /\ fill'[f].calm = old.calm
    BY <1>1, <2>1, FailureCounts, AdvancedFits
  <2>3. /\ fill'[f].refs = old.refs /\ fill'[f].at = old.at + 1 /\ fill'[f].updated = old.updated
        /\ fill'[f].remaining = old.remaining /\ fill'[f].before = old.before
    BY <1>1, <2>1, FailureCounts, AdvancedFits
  <2>4. Missing' = Missing
    BY <2>1, SameTable
  <2>5. Knows(old) => Knows(fill[f])'
    BY <1>2, <2>3, <2>4 DEF Knows
  <2>. QED BY <1>3, <1>4, <2>2, <2>3, <2>5 DEF old
<1>8. CASE /\ Writes(old, i)
           /\ WriteText(i)
           /\ fill' = [g \in Fillers |->
                  IF g = f THEN Advanced(CountsUpdate(old))
                  ELSE IF Running(fill[g])
                       THEN [fill[g] EXCEPT !.calm = FALSE, !.before = 0] ELSE fill[g]]
  <2>1. fill'[f] = Advanced(CountsUpdate(old))
    BY <1>8
  <2>. HIDE DEF old
  <2>2. fill'[f] \in Calls /\ CallFits(fill'[f]) /\ fill'[f].calm = old.calm
    BY <1>1, <2>1, UpdateCounts, AdvancedFits
  <2>3. /\ fill'[f].refs = old.refs /\ fill'[f].at = old.at + 1 /\ fill'[f].updated = old.updated + 1
        /\ fill'[f].remaining = old.remaining - 1 /\ fill'[f].before = old.before
    BY <1>1, <2>1, UpdateCounts, AdvancedFits
  <2>4. ASSUME Knows(old) PROVE Knows(fill[f])'
    <3>1. i \in Missing
      BY <1>2, <2>4 DEF Knows
    <3>3. WriteText(i)
      BY <1>8
    <3>. HIDE DEF i
    <3>4. Missing' = Missing \ {i} /\ Cardinality(Missing') = Cardinality(Missing) - 1
      BY <3>1, <3>3, FilledOne DEF LibraryInv
    <3>5. \A k \in old.at + 1 .. Len(old.refs) : old.refs[k] \in Missing /\ old.refs[k] # i
      BY <1>2, <2>4 DEF Knows, i
    <3>6. /\ old.updated + 1 + Cardinality(Missing') = old.before
          /\ old.remaining - 1 = Cardinality(Missing')
      BY <1>2, <1>5, <2>4, <3>4 DEF Knows
    <3>. QED BY <2>3, <2>4, <3>4, <3>5, <3>6 DEF Knows
  <2>. QED BY <1>3, <1>4, <2>2, <2>3, <2>4 DEF old
<1>. QED BY <1>6, <1>7, <1>8 DEF UpdateOne

(* The other backfills learn of a text that was written. *)
LEMMA UpdateKeeps ==
  ASSUME LibraryInv, NEW f \in Fillers, UpdateOne(f) PROVE LibraryInv'
<1> DEFINE old == fill[f]
           i   == old.refs[old.at]
<1>1. /\ fill'[f] \in Calls /\ CallFits(fill'[f]) /\ CallKnows(fill[f])'
  BY UpdateStep DEF CallKnows, Knows
<1>2. CASE SetFill(f, Advanced(CountsFailure(old))) /\ UNCHANGED articles
  <2>1. fill' = [fill EXCEPT ![f] = Advanced(CountsFailure(old))]
    BY <1>2 DEF SetFill
  <2>2. fill'[f] = Advanced(CountsFailure(old))
    BY <2>1 DEF LibraryInv
  <2>3. CallKnows(Advanced(CountsFailure(old)))
    BY <1>1, <1>2, <2>2, SameTable DEF CallKnows
  <2>. QED BY <1>1, <1>2, <2>2, <2>3, StepKeeps
<1>3. CASE /\ WriteText(i)
           /\ fill' = [g \in Fillers |->
                  IF g = f THEN Advanced(CountsUpdate(old))
                  ELSE IF Running(fill[g])
                       THEN [fill[g] EXCEPT !.calm = FALSE, !.before = 0] ELSE fill[g]]
           /\ UNCHANGED <<now, lastId>>
  <2>1. i \in ArticleIds
    <3>1. old \in Calls /\ CallFits(old) /\ old.pc = "update"
      BY DEF LibraryInv, UpdateOne
    <3>. QED BY <3>1, PlaceInList
  <2>2. RowsOk' /\ export' \in Exports /\ ExportKnows(export)'
    BY <1>3, <2>1, TextKeeps
  <2>3. ASSUME NEW g \in Fillers PROVE fill'[g] \in Calls /\ CallFits(fill'[g]) /\ CallKnows(fill[g])'
    <3>0. fill[g] \in Calls /\ CallFits(fill[g])
      BY DEF LibraryInv
    <3>1. CASE g = f
      BY <1>1, <3>1
    <3>2. CASE g # f /\ Running(fill[g])
      <4>1. fill'[g] = Startle(fill[g])
        BY <1>3, <3>2 DEF Startle
      <4>. QED BY <3>0, <4>1, StartleKeeps DEF CallKnows
    <3>3. CASE g # f /\ ~Running(fill[g])
      <4>1. fill'[g] = fill[g]
        BY <1>3, <3>3
      <4>. QED BY <3>0, <3>3, <4>1 DEF CallKnows
    <3>. QED BY <3>1, <3>2, <3>3
  <2>4. fill' \in [Fillers -> Calls]
    BY <1>3, <2>3
  <2>. QED BY <2>2, <2>3, <2>4 DEF LibraryInv
<1>. QED BY <1>2, <1>3 DEF UpdateOne
-----------------------------------------------------------------------------
(* The invariant, and what follows from it *)

(* Every step keeps the invariant. *)
LEMMA StepsKeep ==
  ASSUME LibraryInv, [LibraryNext]_libraryVars PROVE LibraryInv'
<1>1. CASE UNCHANGED libraryVars
  <2>1. UNCHANGED <<now, articles, lastId, export, fill>>
    BY <1>1 DEF libraryVars, content
  <2>. QED BY <2>1, SameTable DEF LibraryInv, RowsOk, CallKnows, ExportKnows
<1>2. ASSUME NEW texts \in Batches, Save(texts) PROVE LibraryInv'
  BY <1>2, SaveKeeps
<1>3. ASSUME NEW i \in ArticleIds, Amend(i) \/ DeleteArticle(i) PROVE LibraryInv'
  BY <1>3, AmendKeeps, DeleteKeeps
<1>4. CASE PruneOnce
  <2>1. now \in 0 .. MaxNow /\ now <= now
    BY LibrarySizes DEF LibraryInv, RowsOk
  <2>2. Prune(now) /\ now' = now
    BY <1>4 DEF PruneOnce
  <2>. QED BY <2>1, <2>2, PruneKeeps
<1>5. CASE Tick
  <2>1. now' = now + 1 /\ now < MaxNow /\ Prune(now')
    BY <1>5 DEF Tick
  <2>2. now' \in 0 .. MaxNow /\ now <= now'
    BY <2>1, LibrarySizes DEF LibraryInv, RowsOk
  <2>. QED BY <2>1, <2>2, PruneKeeps
<1>6. CASE StartExport \/ ReadPage \/ CountRows \/ ExportFails
  BY <1>6, StartExportKeeps, ReadPageKeeps, CountRowsKeeps, ExportFailsKeeps
<1>7. ASSUME NEW f \in Fillers, FillStep(f) PROVE LibraryInv'
  BY <1>7, ListKeeps, CountKeeps, EnrichKeeps, UpdateKeeps DEF FillStep
<1>. QED BY <1>1, <1>2, <1>3, <1>4, <1>5, <1>6, <1>7 DEF LibraryNext

(* What the calls know of the table holds throughout. *)
THEOREM LibraryInvariance == LibrarySpec => []LibraryInv
<1>1. LibraryInv /\ [LibraryNext]_libraryVars => LibraryInv'
  BY StepsKeep
<1>. QED BY <1>1, FirstIsKept, PTL DEF LibrarySpec

(* The rows, the export and every backfill have their types, and a backfill   *)
(* counts each article it has come to exactly once.                           *)
THEOREM LibraryTypes == LibrarySpec => []LibraryTypeOK
<1>1. LibraryInv => LibraryTypeOK
  <2> SUFFICES ASSUME LibraryInv PROVE LibraryTypeOK
    OBVIOUS
  <2>1. ASSUME NEW f \in Fillers
        PROVE  LET call == fill[f]
               IN  /\ call.pc \in {"idle", "count", "enrich", "update", "done"}
                   /\ call.refs \in Seq(ArticleIds) /\ Len(call.refs) <= Limit
                   /\ call.updated + call.failed = call.at - 1 /\ call.at <= Len(call.refs) + 1
                   /\ call.pc = "done" => call.at = Len(call.refs) + 1
                   /\ call.remaining \in -Limit .. MaxId
    <3> DEFINE call == fill[f]
    <3>1. call \in Calls /\ CallFits(call)
      BY DEF LibraryInv
    <3>. HIDE DEF call
    <3>2. /\ call.refs \in Seq(ArticleIds) /\ Len(call.refs) \in Nat /\ call.at \in Nat
          /\ call.updated \in Nat /\ call.failed \in Nat /\ call.remaining \in Int
          /\ Limit \in Nat /\ MaxId \in Nat
      BY <3>1, LibrarySizes DEF Calls
    <3>3. call.remaining \in -Limit .. MaxId
      <4>1. call.remaining = 0 \/ call.remaining + call.updated \in 0 .. MaxId
        BY <3>1 DEF CallFits
      <4>2. /\ call.updated + call.failed = call.at - 1 /\ call.at <= Len(call.refs) + 1
            /\ Len(call.refs) <= Limit
        BY <3>1 DEF CallFits
      <4>3. call.updated <= Limit
        BY <3>2, <4>2
      <4>. QED BY <3>2, <4>1, <4>3
    <3>. QED BY <3>1, <3>2, <3>3 DEF call, Calls, CallFits
  <2>2. RowsOk /\ export \in Exports
    BY DEF LibraryInv
  <2>. QED BY <2>1, <2>2 DEF LibraryTypeOK, RowsOk, Exports
<1>. QED BY <1>1, LibraryInvariance, PTL

(* Only the count of the rows ends an export with an answer. *)
LEMMA CountEnds ==
  ASSUME LibraryInv, LibraryNext, export.pc = "count", export'.pc = "done" PROVE CountRows
<1>0. export \in Exports
  BY DEF LibraryInv
<1>1. ~UNCHANGED export /\ ~Shifted
  BY <1>0 DEF Shifted, Exports
<1>2. ~StartExport /\ ~ReadPage /\ ~ExportFails
  BY <1>0 DEF StartExport, ReadPage, ExportFails, Ended, NoExport, Exports
<1>3. \A time : ~Prune(time)
  BY <1>1 DEF Prune
<1>4. \A f \in Fillers : ~FillStep(f)
  BY <1>1 DEF FillStep, ListMissing, CountMissing, EnrichBatch, UpdateOne, WriteText, SetFill
<1>5. (\A texts \in Batches : ~Save(texts)) /\ (\A i \in ArticleIds : ~Amend(i) /\ ~DeleteArticle(i))
  BY <1>1 DEF Save, Amend, DeleteArticle
<1>. QED BY <1>2, <1>3, <1>4, <1>5 DEF LibraryNext, PruneOnce, Tick

(* With the total the page goes by, the answer is every article or a refusal. *)
LEMMA ExportStep ==
  ASSUME LibraryInv, LibraryNext, export.pc = "count", export.calm, ~export.tied
  PROVE  /\ export'.pc = "done" => Exact(export)
         /\ CountRows /\ export'.pc = "error" => Cardinality(Matching) > MaxExportRows
<1> DEFINE n == Cardinality(Matching)
           len == Len(export.rows)
           end == (export.page - 1) * PageSize
           total == IF export.total < 0 THEN n ELSE export.total
<1>1. export \in Exports /\ ExportKnows(export) /\ n \in Nat /\ MaxExportRows \in Nat
  BY ArticlesAreFinite, LibrarySizes DEF LibraryInv
<1>2. /\ export.total \in {-1, n} /\ len = Least(end, n)
      /\ \A k \in 1 .. len : export.rows[k] \in Matching /\ Cardinality(Preceding(export.rows[k])) = k - 1
  BY <1>1 DEF ExportKnows
<1>3. end \in Nat /\ export.rows \in Seq(ArticleIds) /\ len \in Nat
  BY <1>1, NextPage DEF Exports
<1>4. total = n
  BY <1>1, <1>2
<1>5. ASSUME CountRows, export'.pc \in {"done", "error"} PROVE AfterPage(export, n) = export'.pc
  <2> DEFINE to == AfterPage(export, total)
  <2>1. export' = IF to = "page" THEN [export EXCEPT !.total = total, !.pc = to] ELSE Ended(to)
    BY <1>5 DEF CountRows
  <2>2. to \in {"done", "error", "page"}
    BY DEF AfterPage
  <2>. HIDE DEF to
  <2>3. CASE to = "page"
    <3>1. export'.pc = "page"
      BY <1>1, <2>1, <2>3 DEF Exports
    <3>. QED BY <1>5, <3>1
  <2>4. CASE to # "page"
    <3>1. export' = Ended(to) /\ to \in {"done", "error"}
      BY <2>1, <2>2, <2>4
    <3>2. export'.pc = to
      BY <3>1, EndedIsTyped
    <3>. QED BY <1>4, <3>2 DEF to
  <2>. QED BY <2>3, <2>4
<1>6. Full(export) <=> len = end
  BY DEF Full
<1>. HIDE DEF n, end, total
<1>7. ASSUME export'.pc = "done" PROVE Exact(export)
  <2>1. AfterPage(export, n) = "done"
    BY <1>5, <1>7, CountEnds
  <2>2. len = n
    <3>1. ~Full(export) \/ len >= n
      BY <2>1 DEF AfterPage
    <3>. QED BY <1>1, <1>2, <1>3, <1>6, <3>1 DEF Least
  <2> DEFINE rows == export.rows
  <2>3. rows \in [1 .. n -> Matching] /\ DOMAIN rows = 1 .. n
    BY <1>2, <1>3, <2>2
  <2>4. \A k, l \in 1 .. n : rows[k] = rows[l] => k = l
    BY <1>1, <1>2, <2>2
  <2>. HIDE DEF rows
  <2>5. rows \in Injection(1 .. n, Matching)
    BY <2>3, <2>4 DEF Injection, IsInjective
  <2>6. /\ IsFiniteSet(1 .. n) /\ Cardinality(1 .. n) = n
        /\ IsFiniteSet(Matching) /\ Cardinality(Matching) = n
    BY <1>1, FS_Interval, ArticlesAreFinite DEF n
  <2>7. rows \in Surjection(1 .. n, Matching)
    BY <2>5, <2>6, FS_Injection
  <2>8. {rows[k] : k \in DOMAIN rows} = Matching
    BY <2>3, <2>7 DEF Surjection
  <2>. QED BY <2>1, <2>2, <2>8 DEF Exact, rows, n
<1>8. ASSUME CountRows, export'.pc = "error" PROVE n > MaxExportRows
  <2>1. AfterPage(export, n) = "error"
    BY <1>5, <1>8
  <2>2. ~(len >= n) /\ len >= MaxExportRows
    BY <2>1 DEF AfterPage
  <2>. QED BY <1>1, <1>3, <2>2
<1>. QED BY <1>7, <1>8 DEF n

(* An export whose rows nobody moved holds every matching row exactly once,   *)
(* with or without a query, beside any number of backfills, and one that is   *)
(* refused would have held more than maxExportRows: export.go pages to the    *)
(* end for any size of a page.                                                *)
THEOREM ExportsAreExact == LibrarySpec => ExportIsExact
<1>1. LibraryInv /\ [LibraryNext]_libraryVars =>
          [export.pc = "count" /\ export.calm /\ ~export.tied /\ UNCHANGED content =>
              /\ export'.pc = "done" => Exact(export)
              /\ CountRows /\ export'.pc = "error" => Cardinality(Matching) > MaxExportRows]_libraryVars
  BY ExportStep
<1>. QED BY <1>1, LibraryInvariance, PTL DEF LibrarySpec, ExportIsExact

(* A backfill answers after the count, when it found nothing to do, or after *)
(* its last article.                                                         *)
LEMMA BackfillStep ==
  ASSUME LibraryInv, LibraryNext, NEW f \in Fillers,
         fill[f].pc # "done", fill'[f].pc = "done", fill[f].calm
  PROVE  /\ fill'[f].remaining = Cardinality(Missing')
         /\ fill'[f].updated = fill[f].before - Cardinality(Missing')
<1>0. fill[f] \in Calls /\ fill \in [Fillers -> Calls] /\ CallKnows(fill[f])
  BY DEF LibraryInv
<1>1. Startle(fill[f]).pc = fill[f].pc
  BY <1>0 DEF Startle, Calls
<1>2. ~Startled(Fillers) /\ fill'[f] # fill[f]
  <2>1. Startled(Fillers) => fill'[f] \in {Startle(fill[f]), fill[f]}
    BY DEF Startled, Startle
  <2>. QED BY <1>1, <2>1
<1>3. PICK g \in Fillers : FillStep(g)
  <2>1. \A time : ~Prune(time)
    BY <1>2 DEF Prune
  <2>2. (\A texts \in Batches : ~Save(texts)) /\ (\A i \in ArticleIds : ~Amend(i) /\ ~DeleteArticle(i))
    BY <1>2 DEF Save, Amend, DeleteArticle
  <2>3. ~StartExport /\ ~ReadPage /\ ~CountRows /\ ~ExportFails
    BY <1>2 DEF StartExport, ReadPage, CountRows, ExportFails
  <2>. QED BY <2>1, <2>2, <2>3 DEF LibraryNext, PruneOnce, Tick
<1>4. g = f
  <2> SUFFICES ASSUME g # f PROVE FALSE
    OBVIOUS
  <2>1. \A call : ~SetFill(g, call)
    BY <1>0, <1>2 DEF SetFill
  <2>2. UpdateOne(g)
    BY <1>3, <2>1 DEF FillStep, ListMissing, CountMissing, EnrichBatch
  <2>3. fill'[f] \in {Startle(fill[f]), fill[f]}
    BY <2>1, <2>2 DEF UpdateOne, Startle
  <2>. QED BY <1>1, <1>2, <2>3
<1>5. ~ListMissing(f) /\ ~EnrichBatch(f)
  <2>1. ASSUME NEW refs, NEW m, SetFill(f, [NoFill EXCEPT !.pc = "count", !.refs = refs, !.before = m])
        PROVE  FALSE
    BY <1>0, <2>1 DEF SetFill, NoFill
  <2>2. ASSUME NEW last, NEW got,
               SetFill(f, [fill[f] EXCEPT !.pc = "update", !.last = last, !.texts = got])
        PROVE  FALSE
    BY <1>0, <2>2 DEF SetFill, Calls
  <2>. QED BY <2>1, <2>2 DEF ListMissing, EnrichBatch
<1>6. Cardinality(Missing) \in Nat
  BY ArticlesAreFinite
<1>7. CASE CountMissing(f)
  <2>1. /\ fill'[f].remaining = Cardinality(Missing) /\ fill'[f].updated = fill[f].updated
        /\ articles' = articles /\ fill[f].pc = "count"
    BY <1>0, <1>7 DEF CountMissing, SetFill, Calls
  <2>2. fill[f].updated + Cardinality(Missing) = fill[f].before
    BY <1>0, <2>1 DEF CallKnows, Running
  <2>3. fill[f].updated \in Nat
    BY <1>0 DEF Calls
  <2>4. fill[f].updated = fill[f].before - Cardinality(Missing)
    BY <1>6, <2>2, <2>3
  <2>. QED BY <2>1, <2>4, SameTable
<1>8. CASE UpdateOne(f)
  <2>1. /\ fill'[f] \in Calls /\ fill'[f].before = fill[f].before
        /\ fill'[f].updated + Cardinality(Missing') = fill'[f].before
        /\ fill'[f].remaining = Cardinality(Missing')
    BY <1>8, UpdateStep DEF Knows
  <2>2. fill'[f].updated \in Nat /\ fill'[f].remaining \in Int
    BY <2>1 DEF Calls
  <2>. QED BY <2>1, <2>2
<1>. QED BY <1>3, <1>4, <1>5, <1>7, <1>8 DEF FillStep

(* A backfill nobody disturbed reports as many updated articles as have a     *)
(* text now and had none before, and as many remaining ones as are without.   *)
THEOREM BackfillReports == LibrarySpec => BackfillReportIsTrue
<1>1. LibraryInv /\ [LibraryNext]_libraryVars =>
          [\A f \in Fillers :
              fill[f].pc # "done" /\ fill'[f].pc = "done" /\ fill[f].calm =>
                  /\ fill'[f].remaining = Cardinality(Missing')
                  /\ fill'[f].updated = fill[f].before - Cardinality(Missing')]_libraryVars
  BY BackfillStep
<1>. QED BY <1>1, LibraryInvariance, PTL DEF LibrarySpec, BackfillReportIsTrue

=============================================================================
