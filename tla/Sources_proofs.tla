---------------------------- MODULE Sources_proofs ----------------------------
(***************************************************************************)
(* The sources table and what its users were told of it, for any set of    *)
(* URLs, any list of feeds to import and any number of processes.          *)
(***************************************************************************)
EXTENDS Sources, SequenceTheorems, TLAPS

(* The types of the processes and counters. *)
Types ==
    /\ rows \subseteq Rows /\ lastSourceId \in 0 .. MaxSourceId
    /\ pc \in [Procs -> {"down", "up"}] /\ todo \in [Procs -> Seq(Static)]
    /\ list \in [Procs -> {NoList} \cup [from : Origins, urls : SUBSET Urls]]
    /\ changes \in 0 .. MaxChanges

(* A URL has one row, a row is shown as it is, and an id stands for one     *)
(* URL: a call with an id reaches the row of the URL that was listed with   *)
(* it, or none.                                                             *)
OneRowEach ==
    /\ \A r, s \in rows : r.url = s.url => r = s
    /\ \A r \in rows : <<r.id, r.url>> \in shown
    /\ shown \subseteq (1 .. lastSourceId) \X Urls
    /\ \A s, t \in shown : s[1] = t[1] => s = t

(* Of a URL the users were told one thing at most ... *)
OneWish ==
    /\ paused \cap kept = {} /\ gone \cap (paused \cup kept) = {}
    /\ reopened \subseteq gone \cap Static

(* ... and it is in the table. *)
WishesHold ==
    /\ \A u \in paused : \E r \in rows : r.url = u /\ ~r.enabled
    /\ \A u \in kept : \E r \in rows : r.url = u /\ r.enabled

(* A removed URL that RSS_FEEDS may not bring back has no row and waits in  *)
(* no import, and none starts: of an empty table all the feeds may come     *)
(* back.                                                                    *)
Final == gone \ reopened
GoneIsSafe ==
    /\ Final \cap (Listed \cup Pending) = {}
    /\ rows = {} => Final \cap Static = {}

(* The inductive invariant. *)
IInv == Types /\ OneRowEach /\ OneWish /\ WishesHold /\ GoneIsSafe

LEMMA FeedsAreStatic == Feeds \in Seq(Static) /\ Static \subseteq Urls
<1>1. Feeds \in [1 .. Len(Feeds) -> Urls] /\ Len(Feeds) \in Nat
  BY FeedsAssumption, LenProperties
<1>2. Feeds \in [1 .. Len(Feeds) -> Static]
  BY <1>1 DEF Static
<1>3. Feeds \in Seq(Static)
  BY <1>1, <1>2, SeqDef
<1>. QED BY <1>1, <1>3 DEF Static

(* An import that starts waits for feeds, and every other step of a process *)
(* takes from what waits.                                                   *)
LEMMA PendingIs ==
  ASSUME NEW u
  PROVE  u \in Pending <=> \E q \in Procs : \E i \in 1 .. Len(todo[q]) : u = todo[q][i]
BY DEF Pending

LEMMA TailPends ==
  ASSUME NEW s \in Seq(Static), s # <<>>
  PROVE  /\ Head(s) \in Static /\ Tail(s) \in Seq(Static)
         /\ \E i \in 1 .. Len(s) : Head(s) = s[i]
         /\ \A i \in 1 .. Len(Tail(s)) : \E k \in 1 .. Len(s) : Tail(s)[i] = s[k]
<1>1. Len(s) \in Nat \ {0} /\ Head(s) = s[1] /\ Tail(s) \in Seq(Static) /\ Head(s) \in Static
  BY EmptySeq, LenProperties, HeadTailProperties
<1>2. Len(Tail(s)) = Len(s) - 1 /\ \A i \in 1 .. Len(Tail(s)) : Tail(s)[i] = s[i + 1]
  BY HeadTailProperties
<1>. QED BY <1>1, <1>2

LEMMA InitIInv == Init => IInv
<1> SUFFICES ASSUME Init PROVE IInv
  OBVIOUS
<1>1. Types
  BY BoundsAssumption, EmptySeq DEF Init, Types
<1>. QED
  BY <1>1 DEF Init, IInv, OneRowEach, OneWish, WishesHold, GoneIsSafe, Final
-----------------------------------------------------------------------------
(* The table *)

(* An id that was shown is the id of the URL it was shown with. *)
LEMMA RowOf ==
  ASSUME OneRowEach, NEW s \in shown, NEW r \in rows, r.id = s[1]
  PROVE  r.url = s[2] /\ \A q \in rows : q.id = s[1] \/ q.url = s[2] => q = r
<1>1. <<r.id, r.url>> = s
  BY DEF OneRowEach
<1>2. ASSUME NEW q \in rows, q.id = s[1] PROVE q.url = s[2]
  BY <1>1, <1>2 DEF OneRowEach
<1>. QED BY <1>1, <1>2 DEF OneRowEach

(* An insert adds an enabled row of a URL that has none, with a new id. *)
LEMMA InsertKeeps ==
  ASSUME Types, OneRowEach, NEW u \in Urls, Insert(u)
  PROVE  /\ rows' \subseteq Rows /\ lastSourceId' \in 0 .. MaxSourceId /\ OneRowEach'
         /\ rows \subseteq rows' /\ Listed' = Listed \cup {u}
         /\ u \notin Listed => \E r \in rows' : r.url = u /\ r.enabled
<1> DEFINE new == [id |-> NextId, url |-> u, enabled |-> TRUE]
<1>0. lastSourceId \in Nat /\ NextId = lastSourceId + 1 /\ NextId \in 1 .. MaxSourceId /\ MaxSourceId \in Nat
  BY BoundsAssumption DEF Types, Insert, NextId
<1>1. CASE u \in Listed
  <2>1. rows' = rows /\ lastSourceId' = lastSourceId
    BY <1>1 DEF Insert, InsertedAt
  <2>2. shown' = shown
    BY <2>1 DEF Insert, OneRowEach
  <2>. QED BY <1>1, <2>1, <2>2 DEF Types, OneRowEach, Listed
<1>2. CASE u \notin Listed
  <2>1. rows' = rows \cup {new} /\ new \notin rows
    BY <1>2 DEF Insert, InsertedAt, Listed
  <2>2. lastSourceId' = NextId
    BY <2>1 DEF Insert
  <2>3. shown' = shown \cup {<<NextId, u>>}
    BY <2>1 DEF Insert, OneRowEach
  <2>4. new \in Rows /\ new.url = u /\ new.id = NextId /\ new.enabled
    BY <1>0 DEF Rows
  <2>5. \A r \in rows : r.url # u
    BY <1>2 DEF Listed
  <2>6. \A s \in shown : s[1] # NextId
    BY <1>0 DEF OneRowEach
  <2>7. OneRowEach'
    <3> HIDE DEF new
    <3>1. \A r, s \in rows' : r.url = s.url => r = s
      BY <2>1, <2>4, <2>5 DEF OneRowEach
    <3>2. \A r \in rows' : <<r.id, r.url>> \in shown'
      BY <2>1, <2>3, <2>4 DEF OneRowEach
    <3>3. shown' \subseteq (1 .. lastSourceId') \X Urls
      BY <1>0, <2>2, <2>3 DEF OneRowEach
    <3>4. \A s, t \in shown' : s[1] = t[1] => s = t
      BY <2>3, <2>6 DEF OneRowEach
    <3>. QED BY <3>1, <3>2, <3>3, <3>4 DEF OneRowEach
  <2>8. Listed' = Listed \cup {u}
    BY <2>1, <2>4 DEF Listed
  <2> HIDE DEF new
  <2>. QED BY <1>0, <2>1, <2>2, <2>4, <2>7, <2>8 DEF Types
<1>. QED BY <1>1, <1>2
-----------------------------------------------------------------------------
(* The steps of the processes *)

LEMMA ProcessKeeps ==
  ASSUME IInv, NEW p \in Procs, ProcessStep(p) PROVE IInv'
<1>0. Types /\ OneRowEach /\ OneWish /\ WishesHold /\ GoneIsSafe
  BY DEF IInv
<1>1. CASE Start(p)
  <2>1. todo' \in [Procs -> Seq(Static)]
    BY <1>0, <1>1, FeedsAreStatic, EmptySeq DEF Start, Types
  <2>2. pc' \in [Procs -> {"down", "up"}]
    BY <1>0, <1>1 DEF Start, Types
  <2>3. /\ todo' = [todo EXCEPT ![p] = <<>>] \/ todo' = [todo EXCEPT ![p] = Feeds]
        /\ rows # {} => todo' = [todo EXCEPT ![p] = <<>>]
    BY <1>1 DEF Start, Imports
  <2>4. Final \cap Pending' = {}
    <3>1. CASE todo' = [todo EXCEPT ![p] = <<>>]
      <4>1. Pending' \subseteq Pending
        BY <1>0, <3>1 DEF Pending, Types
      <4>. QED BY <1>0, <4>1 DEF GoneIsSafe
    <3>2. CASE rows = {} /\ todo' = [todo EXCEPT ![p] = Feeds]
      <4>1. Pending' \subseteq Pending \cup Static
        BY <1>0, <3>2 DEF Pending, Types, Static
      <4>. QED BY <1>0, <3>2, <4>1 DEF GoneIsSafe
    <3>. QED BY <2>3, <3>1, <3>2
  <2>. QED BY <1>0, <1>1, <2>1, <2>2, <2>4
       DEF Start, table, wishes, IInv, Types, OneRowEach, OneWish, WishesHold, GoneIsSafe, Final, Listed
<1>2. CASE ImportOne(p)
  <2>1. todo[p] \in Seq(Static) /\ todo[p] # <<>>
    BY <1>0, <1>2 DEF ImportOne, Types
  <2>2. Head(todo[p]) \in Urls /\ Tail(todo[p]) \in Seq(Static) /\ Head(todo[p]) \in Pending
    BY <2>1, FeedsAreStatic, TailPends, PendingIs
  <2>3. todo' \in [Procs -> Seq(Static)]
    BY <1>0, <1>2, <2>2 DEF ImportOne, Types
  <2>4. /\ rows' \subseteq Rows /\ lastSourceId' \in 0 .. MaxSourceId /\ OneRowEach'
        /\ rows \subseteq rows' /\ Listed' \subseteq Listed \cup {Head(todo[p])}
    <3>1. CASE Insert(Head(todo[p]))
      BY <1>0, <2>2, <3>1, InsertKeeps
    <3>2. CASE UNCHANGED table
      BY <1>0, <3>2 DEF table, Types, OneRowEach, Listed
    <3>. QED BY <1>2, <3>1, <3>2 DEF ImportOne
  <2>5. UNCHANGED <<pc, list, changes, wishes>>
    BY <1>2 DEF ImportOne
  <2>7. Pending' \subseteq Pending
    <3> SUFFICES ASSUME NEW u \in Pending' PROVE u \in Pending
      OBVIOUS
    <3>1. todo' = [todo EXCEPT ![p] = Tail(@)]
      BY <1>2 DEF ImportOne
    <3>2. PICK q \in Procs : \E i \in 1 .. Len(todo'[q]) : u = todo'[q][i]
      BY DEF Pending
    <3>3. CASE q = p
      <4>1. todo'[p] = Tail(todo[p])
        BY <1>0, <3>1 DEF Types
      <4>. QED BY <2>1, <3>2, <3>3, <4>1, TailPends, PendingIs
    <3>4. CASE q # p
      BY <1>0, <3>1, <3>2, <3>4, PendingIs DEF Types
    <3>. QED BY <3>3, <3>4
  <2>6. Types' /\ OneWish' /\ WishesHold' /\ GoneIsSafe'
    <3>1. Final' = Final
      BY <2>5 DEF wishes, Final
    <3>2. GoneIsSafe'
      BY <1>0, <2>2, <2>4, <2>7, <3>1 DEF GoneIsSafe
    <3>. QED BY <1>0, <2>3, <2>4, <2>5, <3>2 DEF wishes, Types, OneWish, WishesHold
  <2>. QED BY <2>4, <2>6 DEF IInv
<1>3. CASE Stop(p)
  <2>1. Pending' \subseteq Pending
    BY <1>0, <1>3 DEF Stop, Pending, Types
  <2>2. Types'
    BY <1>0, <1>3, EmptySeq DEF Stop, table, Types
  <2>. QED BY <1>0, <1>3, <2>1, <2>2
       DEF Stop, table, wishes, IInv, OneRowEach, OneWish, WishesHold, GoneIsSafe, Final, Listed
<1>4. CASE StartRun(p) \/ EndRun(p)
  <2>1. Resolved \in [from : Origins, urls : SUBSET Urls]
    <3>1. Enabled \subseteq Urls
      BY <1>0 DEF Types, Enabled, Rows
    <3>. QED BY <3>1, FeedsAreStatic DEF Resolved, Origins
  <2>2. [from |-> "static", urls |-> Static] \in [from : Origins, urls : SUBSET Urls]
    BY FeedsAreStatic DEF Origins
  <2>3. list' \in [Procs -> {NoList} \cup [from : Origins, urls : SUBSET Urls]]
    BY <1>0, <1>4, <2>1, <2>2 DEF StartRun, EndRun, Types
  <2>4. UNCHANGED <<rows, lastSourceId, shown, pc, todo, changes, paused, kept, gone, reopened>>
    BY <1>4 DEF StartRun, EndRun, table, wishes
  <2>. QED BY <1>0, <2>3, <2>4
       DEF IInv, Types, OneRowEach, OneWish, WishesHold, GoneIsSafe, Final, Listed, Pending
<1>. QED BY <1>1, <1>2, <1>3, <1>4 DEF ProcessStep
-----------------------------------------------------------------------------
(* The calls of the API *)

LEMMA AddKeeps ==
  ASSUME IInv, NEW u \in Urls, AddSource(u) PROVE IInv'
<1>0. Types /\ OneRowEach /\ OneWish /\ WishesHold /\ GoneIsSafe
  BY DEF IInv
<1>1. u \notin Listed /\ Insert(u) /\ Acknowledge(u, FALSE, TRUE, FALSE)
  BY DEF AddSource
<1>2. /\ rows' \subseteq Rows /\ lastSourceId' \in 0 .. MaxSourceId /\ OneRowEach'
      /\ rows \subseteq rows' /\ Listed' = Listed \cup {u}
      /\ \E r \in rows' : r.url = u /\ r.enabled
  BY <1>0, <1>1, InsertKeeps
<1>3. changes' \in 0 .. MaxChanges /\ UNCHANGED <<pc, todo, list>>
  BY <1>0, BoundsAssumption DEF AddSource, Served, Types
<1>4. /\ paused' = paused \ {u} /\ gone' = gone \ {u} /\ kept' \in {kept \cup {u}, kept \ {u}}
      /\ reopened' = reopened \ {u}
  BY <1>1 DEF Acknowledge, AddSource
<1>5. OneWish' /\ WishesHold'
  BY <1>0, <1>2, <1>4 DEF OneWish, WishesHold
<1>6. GoneIsSafe'
  <2>1. Final' = Final \ {u} /\ Pending' = Pending /\ rows' # {}
    BY <1>2, <1>3, <1>4 DEF Final, Pending
  <2>. QED BY <1>0, <1>2, <2>1 DEF GoneIsSafe
<1>. QED BY <1>0, <1>2, <1>3, <1>5, <1>6 DEF IInv, Types

LEMMA SetKeeps ==
  ASSUME IInv, NEW s \in shown, NEW on \in BOOLEAN, SetSourceEnabled(s[1], s[2], on) PROVE IInv'
<1> DEFINE id == s[1]  u == s[2]
<1>0. Types /\ OneRowEach /\ OneWish /\ WishesHold /\ GoneIsSafe
  BY DEF IInv
<1>1. PICK r \in rows : r.id = id
  BY DEF SetSourceEnabled
<1>2. r.url = u /\ \A q \in rows : q.id = id \/ q.url = u => q = r
  BY <1>0, <1>1, RowOf
<1> DEFINE new == [r EXCEPT !.enabled = on]
<1>3. new \in Rows /\ new.url = u /\ new.id = id /\ new.enabled = on
  BY <1>0, <1>1, <1>2 DEF Types, Rows
<1>4. rows' = (rows \ {r}) \cup {new}
  BY <1>1, <1>2 DEF SetSourceEnabled
<1>5. /\ UNCHANGED <<lastSourceId, shown, pc, todo, list>> /\ Acknowledge(u, ~on, on, FALSE)
      /\ reopened' = reopened \ {u}
  BY DEF SetSourceEnabled
<1>6. changes' \in 0 .. MaxChanges
  BY <1>0, BoundsAssumption DEF SetSourceEnabled, Served, Types
<1> HIDE DEF new, id, u
<1>7. OneRowEach'
  BY <1>0, <1>1, <1>2, <1>3, <1>4, <1>5 DEF OneRowEach
<1>8. /\ paused' \in {paused \ {u}, paused \cup {u}} /\ (on => paused' = paused \ {u})
      /\ kept' \in {kept \ {u}, kept \cup {u}} /\ (~on => kept' = kept \ {u})
      /\ gone' = gone \ {u} /\ reopened' = reopened \ {u}
  BY <1>5 DEF Acknowledge
<1>9. OneWish' /\ WishesHold'
  BY <1>0, <1>2, <1>3, <1>4, <1>8 DEF OneWish, WishesHold
<1>10. GoneIsSafe'
  <2>1. Listed' = Listed /\ rows' # {}
    BY <1>1, <1>2, <1>3, <1>4 DEF Listed
  <2>2. Final' = Final \ {u} /\ Pending' = Pending
    BY <1>5, <1>8 DEF Final, Pending
  <2>. QED BY <1>0, <2>1, <2>2 DEF GoneIsSafe
<1>11. Types'
  BY <1>0, <1>3, <1>4, <1>5, <1>6 DEF Types
<1>. QED BY <1>7, <1>9, <1>10, <1>11 DEF IInv

LEMMA RemoveKeeps ==
  ASSUME IInv, NEW s \in shown, RemoveSource(s[1], s[2]) PROVE IInv'
<1> DEFINE id == s[1]  u == s[2]
<1>0. Types /\ OneRowEach /\ OneWish /\ WishesHold /\ GoneIsSafe
  BY DEF IInv
<1>1. PICK r \in rows : r.id = id
  BY DEF RemoveSource
<1>2. r.url = u /\ \A q \in rows : q.id = id \/ q.url = u => q = r
  BY <1>0, <1>1, RowOf
<1>3. rows' = rows \ {r}
  BY <1>1, <1>2 DEF RemoveSource
<1>4. /\ UNCHANGED <<lastSourceId, shown, pc, todo, list>>
      /\ Acknowledge(u, FALSE, FALSE, TRUE)
      /\ reopened' = IF rows' = {} THEN gone' \cap Static
                                  ELSE (reopened \ {u}) \cup (gone' \cap Pending \cap {u})
  BY DEF RemoveSource
<1>5. changes' \in 0 .. MaxChanges
  BY <1>0, BoundsAssumption DEF RemoveSource, Served, Types
<1> HIDE DEF id, u
<1>6. /\ paused' = paused \ {u} /\ kept' = kept \ {u}
      /\ gone' \in {gone \cup {u}, gone \ {u}}
  BY <1>4 DEF Acknowledge
<1>11. Pending \subseteq Static
  BY <1>0, LenProperties, ElementOfSeq DEF Pending, Types
<1>7. OneRowEach'
  BY <1>0, <1>3, <1>4 DEF OneRowEach
<1>8. OneWish' /\ WishesHold'
  <2>1. OneWish'
    BY <1>0, <1>4, <1>6, <1>11 DEF OneWish
  <2>2. WishesHold'
    BY <1>0, <1>2, <1>3, <1>6 DEF WishesHold
  <2>. QED BY <2>1, <2>2
<1>9. GoneIsSafe'
  <2>1. Listed' = Listed \ {u}
    BY <1>2, <1>3 DEF Listed
  <2>2. Pending' = Pending
    BY <1>4 DEF Pending
  <2>3. CASE rows' = {}
    <3>1. Final' \cap Static = {} /\ Listed' = {}
      BY <1>4, <2>3 DEF Final, Listed
    <3>. QED BY <1>11, <2>2, <3>1 DEF GoneIsSafe
  <2>4. CASE rows' # {}
    <3>1. Final' \subseteq (Final \ {u}) \cup ({u} \ Pending)
      BY <1>4, <1>6, <2>4 DEF Final
    <3>. QED BY <1>0, <2>1, <2>2, <2>4, <3>1 DEF GoneIsSafe
  <2>. QED BY <2>3, <2>4
<1>10. Types'
  BY <1>0, <1>3, <1>4, <1>5 DEF Types
<1>. QED BY <1>7, <1>8, <1>9, <1>10 DEF IInv
-----------------------------------------------------------------------------
(* The results *)

LEMMA NextIInv == IInv /\ [Next]_vars => IInv'
<1> SUFFICES ASSUME IInv, [Next]_vars PROVE IInv'
  OBVIOUS
<1>1. CASE Call
  BY <1>1, AddKeeps, SetKeeps, RemoveKeeps DEF Call
<1>2. CASE \E p \in Procs : ProcessStep(p)
  BY <1>2, ProcessKeeps
<1>3. CASE UNCHANGED vars
  BY <1>3 DEF vars, table, wishes, IInv, Types, OneRowEach, OneWish, WishesHold, GoneIsSafe,
              Final, Listed, Pending
<1>. QED BY <1>1, <1>2, <1>3 DEF Next

THEOREM Invariance == Spec => []IInv
<1>. QED BY InitIInv, NextIInv, PTL DEF Spec

(* A URL keeps one row whatever is added, imported and removed by several   *)
(* processes, an id never comes to name another URL, and the users were     *)
(* told one thing at most of each (the sources table of store.go).          *)
THEOREM TypeCorrect == Spec => []TypeOK
<1>1. IInv => TypeOK
  BY DEF IInv, Types, OneRowEach, OneWish, TypeOK
<1>. QED BY <1>1, Invariance, PTL

(* What a user removed stays out of the table, whatever imports, starts,    *)
(* stops and calls with old ids follow, until the user adds it again; the   *)
(* exceptions, removals that emptied the table or that an import had still  *)
(* to pass, are feeds of RSS_FEEDS and no other URL (seedSources leaves a   *)
(* table that holds rows alone).                                            *)
THEOREM RemovedStaysRemoved == Spec => []GoneStaysGone
<1>1. IInv => GoneStaysGone
  BY DEF IInv, GoneIsSafe, Final, GoneStaysGone
<1>. QED BY <1>1, Invariance, PTL

(* A run that reads the table fetches nothing the user was told is paused   *)
(* and all the user was told is added or resumed; what it fetches of the    *)
(* removed, the static list brings back or an import in progress did        *)
(* (resolveSourceURLs, SourceURLProvider in main.go).                       *)
THEOREM UserDecides == Spec => RunsFollowTheUser
<1> DEFINE Follows(p) ==
      list[p] = NoList /\ list'[p] = Resolved =>
          /\ list'[p].urls \cap paused = {}
          /\ list'[p].urls \cap gone \subseteq reopened
          /\ kept \subseteq list'[p].urls
<1>1. ASSUME IInv, NEW p \in Procs, Resolved.urls = list'[p].urls PROVE Follows(p)
  <2>1. OneRowEach /\ OneWish /\ WishesHold /\ GoneIsSafe
    BY <1>1 DEF IInv
  <2>2. CASE rows = {}
    <3>1. paused = {} /\ kept = {}
      BY <2>1, <2>2 DEF WishesHold
    <3>2. Resolved.urls = Static
      BY <2>2 DEF Resolved
    <3>3. Static \cap gone \subseteq reopened
      BY <2>1, <2>2 DEF GoneIsSafe, Final
    <3>. QED BY <1>1, <3>1, <3>2, <3>3
  <2>3. CASE rows # {}
    <3>1. Resolved.urls = Enabled
      BY <2>3 DEF Resolved
    <3>2. Enabled \cap paused = {}
      BY <2>1 DEF Enabled, WishesHold, OneRowEach
    <3>3. Enabled \cap gone \subseteq reopened
      BY <2>1 DEF Enabled, GoneIsSafe, Final, Listed
    <3>4. kept \subseteq Enabled
      BY <2>1 DEF Enabled, WishesHold
    <3>. QED BY <1>1, <3>1, <3>2, <3>3, <3>4
  <2>. QED BY <2>2, <2>3
<1>2. IInv /\ [Next]_vars => [\A p \in Procs : Follows(p)]_vars
  BY <1>1
<1>. QED BY <1>2, Invariance, PTL DEF Spec, RunsFollowTheUser
=============================================================================
