------------------------------- MODULE Sources -------------------------------
(***************************************************************************)
(* The sources table.  A process imports RSS_FEEDS into it when it starts  *)
(* and finds it empty (seedSources in src/cmd/agent/main.go); a user adds, *)
(* pauses, resumes and removes sources over the API                        *)
(* (src/internal/api/sources.go, src/internal/store/store.go); every run   *)
(* takes its feed list from it (resolveSourceURLs in                       *)
(* src/internal/scheduler/scheduler.go).                                   *)
(***************************************************************************)
EXTENDS Integers, Sequences

CONSTANTS
    Urls,          \* source URLs
    Feeds,         \* RSS_FEEDS, in the order they are imported
    Procs,         \* processes that share the table
    MaxSourceId,   \* bound: rows ever inserted
    MaxChanges     \* bound: calls of the API that changed the table

ASSUME FeedsAssumption  == Feeds \in Seq(Urls)
ASSUME BoundsAssumption == MaxSourceId \in Nat /\ MaxChanges \in Nat

Rows     == [id : 1 .. MaxSourceId, url : Urls, enabled : BOOLEAN]
Static   == {Feeds[i] : i \in 1 .. Len(Feeds)}       \* cfg.RSSFeeds
Origins  == {"table", "static"}
NoList   == [from |-> "none", urls |-> {}]

VARIABLES
    rows, lastSourceId,       \* the table and its serial
    shown,                    \* history: every id with the URL a list shows for it
    pc, todo,                 \* stage of each process, URLs it has to import
    list,                     \* feed list of the run in progress
    changes,                  \* API calls so far
    paused, kept, gone,       \* history: URLs whose last acknowledged operation
                              \* paused them, added or resumed them, removed them
    reopened                  \* history: removed feeds of RSS_FEEDS that may come
                              \* back, for the table was emptied since or an
                              \* import had still to insert them

table   == <<rows, lastSourceId, shown>>
wishes  == <<paused, kept, gone, reopened>>
vars    == <<table, pc, todo, list, changes, wishes>>

Init ==
    /\ rows = {} /\ lastSourceId = 0 /\ shown = {}
    /\ pc = [p \in Procs |-> "down"] /\ todo = [p \in Procs |-> <<>>]
    /\ list = [p \in Procs |-> NoList]
    /\ changes = 0
    /\ paused = {} /\ kept = {} /\ gone = {} /\ reopened = {}

Listed  == {r.url : r \in rows}
Pending == UNION {{todo[p][i] : i \in 1 .. Len(todo[p])} : p \in Procs}   \* yet to be imported

(* Mutant: the id of a removed row is given out again. *)
ReusedId == IF rows = {} THEN 1 ELSE 1 + CHOOSE i \in {r.id : r \in rows} : \A r \in rows : r.id <= i
NextId   == lastSourceId + 1
InsertedAt(id, u) ==
    IF u \in Listed THEN rows ELSE rows \cup {[id |-> id, url |-> u, enabled |-> TRUE]}

(* AddSource: ON CONFLICT DO NOTHING, which uses up a serial all the same; *)
(* only the rows that exist matter here.                                   *)
Insert(u) ==
    /\ NextId <= MaxSourceId
    /\ rows' = InsertedAt(NextId, u)
    /\ lastSourceId' = IF rows' = rows THEN lastSourceId ELSE NextId
    /\ shown' = shown \cup {<<r.id, r.url>> : r \in rows'}

-----------------------------------------------------------------------------
(* A process starts *)

(* Mutant: the import does not look whether the table holds rows. *)
AlwaysImports == Feeds # <<>>
Imports       == Feeds # <<>> /\ rows = {}

(* seedSources reads the table, or cannot. *)
Start(p) ==
    /\ pc[p] = "down"
    /\ pc' = [pc EXCEPT ![p] = "up"]
    /\ \/ todo' = [todo EXCEPT ![p] = IF Imports THEN Feeds ELSE <<>>]
       \/ todo' = [todo EXCEPT ![p] = <<>>]
    /\ UNCHANGED <<table, list, changes, wishes>>

(* One turn of the import: the insert may fail, and is skipped. *)
ImportOne(p) ==
    /\ todo[p] # <<>>
    /\ todo' = [todo EXCEPT ![p] = Tail(@)]
    /\ \/ Insert(Head(todo[p]))
       \/ UNCHANGED table
    /\ UNCHANGED <<pc, list, changes, wishes>>

(* The process ends, or is killed, in the middle of whatever it does. *)
Stop(p) ==
    /\ pc[p] = "up"
    /\ pc' = [pc EXCEPT ![p] = "down"]
    /\ todo' = [todo EXCEPT ![p] = <<>>]
    /\ list' = [list EXCEPT ![p] = NoList]
    /\ UNCHANGED <<table, changes, wishes>>

-----------------------------------------------------------------------------
(* A run takes its feed list *)

Enabled == {r.url : r \in {s \in rows : s.enabled}}

(* The provider: nil, for an empty table, stands for the static list. *)
(* Mutant: no enabled row is taken for an empty table.                *)
FallsBackOnNone ==
    IF Enabled = {} THEN [from |-> "static", urls |-> Static] ELSE [from |-> "table", urls |-> Enabled]
Resolved ==
    IF rows = {} THEN [from |-> "static", urls |-> Static] ELSE [from |-> "table", urls |-> Enabled]

StartRun(p) ==
    /\ pc[p] = "up" /\ todo[p] = <<>> /\ list[p] = NoList
    /\ \/ list' = [list EXCEPT ![p] = Resolved]
       \/ list' = [list EXCEPT ![p] = [from |-> "static", urls |-> Static]]   \* the read failed
    /\ UNCHANGED <<table, pc, todo, changes, wishes>>

EndRun(p) ==
    /\ list[p] # NoList
    /\ list' = [list EXCEPT ![p] = NoList]
    /\ UNCHANGED <<table, pc, todo, changes, wishes>>

-----------------------------------------------------------------------------
(* The API, served by any process that is up.  A user acts on a row as a   *)
(* list showed it: its id may be of a row that is gone, and stands for     *)
(* the URL that was listed with it.  The answer may be lost after the      *)
(* statement committed: then nothing was acknowledged.                     *)

Served == changes < MaxChanges /\ \E p \in Procs : pc[p] = "up" /\ todo[p] = <<>>

Acknowledge(u, toPaused, toKept, toGone) ==
    \/ /\ paused' = IF toPaused THEN paused \cup {u} ELSE paused \ {u}
       /\ kept'   = IF toKept THEN kept \cup {u} ELSE kept \ {u}
       /\ gone'   = IF toGone THEN gone \cup {u} ELSE gone \ {u}
    \/ /\ paused' = paused \ {u} /\ kept' = kept \ {u} /\ gone' = gone \ {u}

(* 201, or 409 with nothing changed. *)
AddSource(u) ==
    /\ Served /\ u \notin Listed
    /\ Insert(u)
    /\ changes' = changes + 1
    /\ Acknowledge(u, FALSE, TRUE, FALSE)
    /\ reopened' = reopened \ {u}
    /\ UNCHANGED <<pc, todo, list>>

SetSourceEnabled(id, u, on) ==
    /\ Served
    /\ \E r \in rows : r.id = id
    /\ rows' = {IF r.id = id THEN [r EXCEPT !.enabled = on] ELSE r : r \in rows}
    /\ changes' = changes + 1
    /\ Acknowledge(u, ~on, on, FALSE)
    /\ reopened' = reopened \ {u}
    /\ UNCHANGED <<lastSourceId, shown, pc, todo, list>>

RemoveSource(id, u) ==
    /\ Served
    /\ \E r \in rows : r.id = id
    /\ rows' = {r \in rows : r.id # id}
    /\ changes' = changes + 1
    /\ Acknowledge(u, FALSE, FALSE, TRUE)
    /\ reopened' = IF rows' = {} THEN gone' \cap Static
                                ELSE (reopened \ {u}) \cup (gone' \cap Pending \cap {u})
    /\ UNCHANGED <<lastSourceId, shown, pc, todo, list>>

-----------------------------------------------------------------------------
ProcessStep(p) == Start(p) \/ ImportOne(p) \/ Stop(p) \/ StartRun(p) \/ EndRun(p)
Call ==
    \/ \E u \in Urls : AddSource(u)
    \/ \E s \in shown, on \in BOOLEAN : SetSourceEnabled(s[1], s[2], on)
    \/ \E s \in shown : RemoveSource(s[1], s[2])
Next == Call \/ \E p \in Procs : ProcessStep(p)
Spec == Init /\ [][Next]_vars

-----------------------------------------------------------------------------
(* Properties *)

(* A URL has one row, an id never names another URL than before, and what *)
(* the users were told of a URL is one thing.                             *)
TypeOK ==
    /\ rows \subseteq Rows /\ lastSourceId \in 0 .. MaxSourceId
    /\ \A r, s \in rows : r.url = s.url => r = s
    /\ shown \subseteq (1 .. lastSourceId) \X Urls
    /\ \A s, t \in shown : s[1] = t[1] => s = t
    /\ pc \in [Procs -> {"down", "up"}] /\ todo \in [Procs -> Seq(Static)]
    /\ list \in [Procs -> {NoList} \cup [from : Origins, urls : SUBSET Urls]]
    /\ changes \in 0 .. MaxChanges
    /\ paused \cap kept = {} /\ gone \cap (paused \cup kept) = {}
    /\ reopened \subseteq gone \cap Static

(* A run that could read the table fetches no source the user was told is  *)
(* paused and every source the user was told is added or resumed, whatever *)
(* imports, restarts and calls with old ids went before (SetSourceEnabled: *)
(* "pause or resume fetching one source"): no table that holds a paused    *)
(* source is taken for an empty one.  Of the removed sources it fetches    *)
(* none but those that RSS_FEEDS may bring back.                           *)
RunsFollowTheUser ==
    [][\A p \in Procs :
          list[p] = NoList /\ list'[p] = Resolved =>
              /\ list'[p].urls \cap paused = {}
              /\ list'[p].urls \cap gone \subseteq reopened
              /\ kept \subseteq list'[p].urls]_vars

(* A source the user removed stays out of the table until the user adds it *)
(* again, but for a feed of RSS_FEEDS that an import had still to insert,  *)
(* or that was gone when the table was emptied (seedSources leaves a table *)
(* that holds rows alone).                                                 *)
GoneStaysGone == gone \cap Listed \subseteq reopened

(* "Stored articles and their per-source health history are untouched;     *)
(* only future fetching stops" (RemoveSource, sources.go): a run that could *)
(* read the table fetches no removed source.  It does: the removal that    *)
(* empties the table leaves the provider with no row, and it stands for    *)
(* the whole of RSS_FEEDS.                                                 *)
RemovedIsNotFetched ==
    [][\A p \in Procs :
          list[p] = NoList /\ list'[p] = Resolved => list'[p].urls \cap gone = {}]_vars
=============================================================================
