------------------------- MODULE ScheduleMode_proofs -------------------------
(***************************************************************************)
(* The run-health file, the alerts and the exit codes of any number of      *)
(* processes, on one host or one machine each, for any threshold, number of *)
(* channels and freshness limit.                                            *)
(***************************************************************************)
EXTENDS ScheduleMode, FiniteSetTheorems, TLAPS

Busy(p)    == pc[p] \notin {"idle", "save"}
Ended(p)   == Busy(p) /\ pc[p] # "running"           \* its pipeline run has returned
Writing(p) == pc[p] \in {"open", "flush"}
Judged(p)  == pc[p] \in {"alert", "gate"}

Unfinished == {p \in Runs : pc[p] = "running"}
Recorders  == {p \in Runs : Busy(p) /\ ~Judged(p)}   \* those still to write their snapshot

(* The types, but for the upper bounds of the streaks. *)
Types ==
    /\ now \in 0 .. MaxNow /\ hosted \in BOOLEAN
    /\ files \in [Runs \cup {Shared} -> Files]
    /\ pc \in [Runs -> Steps] /\ code \in [Runs -> {"none", "ok", "fail"}]
    /\ outcome \in [Runs -> Outcomes] /\ finished \in [Runs -> 0 .. MaxNow]
    /\ prev \in [Runs -> Snapshots]
    /\ said \in [Runs -> Outcomes \cup {Unknown}]
    /\ channel \in [Runs -> 1 .. Senders + 1] /\ spent \in [Runs -> BOOLEAN]
    /\ tried \in [Runs -> SUBSET Channels] /\ starved \in [Runs -> SUBSET Channels]
    /\ started \in 0 .. MaxRuns
    /\ bad \in Nat /\ good \in Times /\ calm \in BOOLEAN
    /\ \A p \in Runs : pc[p] = "save" => ~hosted
    /\ \A p \in Runs : pc[p] \in {"digest", "alert"} => channel[p] <= Senders

(* Each failure counted in a file, in memory or in the history is one of    *)
(* another process than those that are still to be counted.                 *)
CountsFit ==
    /\ IsFiniteSet(Recorders) /\ Cardinality(Recorders) <= started
    /\ bad + Cardinality(Unfinished) <= started
    /\ \A f \in Runs \cup {Shared} :
           files[f] \in Snapshots => files[f].fails + Cardinality(Recorders) <= started
    /\ \A p \in Runs : Writing(p) => prev[p].fails + Cardinality(Recorders) <= started

(* No file, and nothing a process is about to write, knows a later success  *)
(* than the last one.                                                       *)
NoLaterSuccess ==
    /\ good <= now
    /\ \A f \in Runs \cup {Shared} : files[f] \in Snapshots => files[f].successAt <= good
    /\ \A p \in Runs : prev[p].successAt <= good
    /\ \A p \in Runs : Ended(p) /\ outcome[p] = "success" => finished[p] <= good

(* A process has no exit code before its end, and the snapshot it was given *)
(* back is its own.                                                         *)
CodesAreOwn ==
    \A p \in Runs :
        /\ Busy(p) => code[p] = "none"
        /\ code[p] = "ok" => outcome[p] = "success"
        /\ said[p] = "success" => outcome[p] = "success" /\ Judged(p)

(* What Record makes of a file: one that is absent counts as empty. *)
Base(file) == IF file = Absent THEN Unwritten ELSE file

(* The streak in a file between runs, and the one a process is to write:    *)
(* under Actions no failure outlives its job.                               *)
Kept       == IF hosted THEN bad ELSE 0
Counted(p) == IF hosted THEN bad ELSE IF outcome[p] = "success" THEN 0 ELSE 1

(* The snapshot x tells of n failures since the last success, and when that *)
(* was.                                                                     *)
Tells(x, n) == x.fails = n /\ x.successAt = good

(* The cache that a job found knows the last success before that job. *)
CacheHolds(p) ==
    /\ files[Shared] # Torn /\ Base(files[Shared]).fails = 0
    /\ pc[p] = "running" \/ outcome[p] # "success" => Base(files[Shared]).successAt = good

(* The stages of a process that nothing has disturbed. *)
OnTrack(p) ==
    LET file == files[Path(p)] IN
    /\ pc[p] = "running" => file # Torn /\ Tells(Base(file), Kept)
    /\ pc[p] \in {"digest", "record"} => file # Torn /\ Tells(NextSnapshot(p, Base(file)), Counted(p))
    /\ Writing(p) => Tells(NextSnapshot(p, prev[p]), Counted(p))
    /\ Judged(p) \/ pc[p] = "save" =>
           file \in Snapshots /\ Tells(file, Counted(p)) /\ file.outcome = outcome[p]
    /\ Judged(p) => said[p] = outcome[p]
    /\ Ended(p) => now <= finished[p] + 1 /\ (outcome[p] = "success" => good = finished[p])
    /\ ~hosted => CacheHolds(p)

(* Until something disturbs it, one process is there at a time, and it      *)
(* knows what there is to know.                                             *)
CalmIsExact ==
    calm =>
        /\ \A p, q \in Runs : pc[p] # "idle" /\ pc[q] # "idle" => p = q
        /\ (\A p \in Runs : pc[p] = "idle") =>
               /\ files[Shared] # Torn /\ Tells(Base(files[Shared]), Kept)
               /\ hosted /\ files[Shared] = Absent => started = 0
        /\ \A p \in Runs : pc[p] # "idle" => OnTrack(p)

(* The channels an alert has come to, and those it is to come to. *)
Alerts(p) == outcome[p] # "success" /\ AlertDue(Counted(p))
AlertsAreDue ==
    calm => \A p \in Runs :
        /\ pc[p] = "alert" => Alerts(p) /\ CalledInOrder(p, channel[p] - 1)
        /\ pc[p] = "gate" => IF Alerts(p) THEN CalledInOrder(p, Senders)
                             ELSE tried[p] = {} /\ starved[p] = {}

(* A process that nothing disturbed and that produced output has passed. *)
PassedWhenCalm ==
    calm => \A p \in Runs :
        pc[p] \in {"idle", "save"} /\ code[p] # "none" /\ outcome[p] = "success" => code[p] = "ok"

(* The inductive invariant. *)
IInv == Types /\ CountsFit /\ NoLaterSuccess /\ CodesAreOwn
              /\ CalmIsExact /\ AlertsAreDue /\ PassedWhenCalm

LEMMA InitIInv == Init => IInv
<1> SUFFICES ASSUME Init PROVE IInv
  OBVIOUS
<1>1. Types
  BY BoundsAssumption DEF Init, Types, Files, Steps, Outcomes, Unknown, Snapshots, Unwritten, Times, Never, Channels
<1>2. CountsFit
  <2>1. Recorders = {} /\ Unfinished = {}
    BY DEF Init, Recorders, Unfinished, Busy
  <2>. QED BY <2>1, FS_EmptySet, FilesAssumption DEF Init, CountsFit, Writing
<1>3. NoLaterSuccess /\ CodesAreOwn
  BY FilesAssumption DEF Init, NoLaterSuccess, CodesAreOwn, Never, Unwritten, Unknown, Busy, Ended
<1>4. CalmIsExact /\ AlertsAreDue /\ PassedWhenCalm
  BY FilesAssumption DEF Init, CalmIsExact, AlertsAreDue, PassedWhenCalm, Tells, Kept, Base, Unwritten, Never
<1>. QED BY <1>1, <1>2, <1>3, <1>4 DEF IInv
-----------------------------------------------------------------------------
(* Types *)

(* What Record writes is a snapshot, as long as the streak fits. *)
LEMMA NextSnapshotType ==
  ASSUME Types, NEW p \in Runs, NEW old \in Snapshots, old.fails + 1 <= MaxRuns
  PROVE  NextSnapshot(p, old) \in Snapshots
  BY BoundsAssumption DEF Types, NextSnapshot, Snapshots, Times, Outcomes

(* A step that gives p its new place and leaves the others. *)
LEMMA FanoutTypes ==
  ASSUME Types, NEW p \in Runs, BeginFanout(p)
  PROVE  /\ channel' \in [Runs -> 1 .. Senders + 1] /\ spent' \in [Runs -> BOOLEAN]
         /\ tried' \in [Runs -> SUBSET Channels] /\ starved' \in [Runs -> SUBSET Channels]
         /\ channel'[p] = 1 /\ \A q \in Runs \ {p} : channel'[q] = channel[q]
         /\ tried'[p] = {} /\ \A q \in Runs \ {p} : tried'[q] = tried[q]
         /\ starved'[p] = {} /\ \A q \in Runs \ {p} : starved'[q] = starved[q]
  BY BoundsAssumption DEF Types, BeginFanout

LEMMA RecordedTypes ==
  ASSUME Types, NEW p \in Runs, NEW o \in Outcomes \cup {Unknown}, NEW n, Recorded(p, o, n)
  PROVE  /\ said' \in [Runs -> Outcomes \cup {Unknown}] /\ pc' \in [Runs -> Steps]
         /\ channel' \in [Runs -> 1 .. Senders + 1] /\ spent' \in [Runs -> BOOLEAN]
         /\ tried' \in [Runs -> SUBSET Channels] /\ starved' \in [Runs -> SUBSET Channels]
         /\ \A q \in Runs : pc'[q] = "save" => pc[q] = "save"
         /\ \A q \in Runs : pc'[q] \in {"digest", "alert"} => channel'[q] <= Senders
<1>1. BeginFanout(p)
  BY DEF Recorded
<1>. QED BY <1>1, FanoutTypes, BoundsAssumption DEF Types, Recorded, Goto, Steps

(* A channel is tried, or left out: the next one, or the end of the fan-out. *)
LEMMA TryMoves ==
  ASSUME Types, NEW p \in Runs, Answered(p) \/ Hung(p) \/ NoTime(p)
  PROVE  /\ pc[p] \in {"digest", "alert"} /\ channel[p] \in 1 .. Senders
         /\ channel' = [channel EXCEPT ![p] = @ + 1]
         /\ UNCHANGED <<now, hosted, files, code, run, record, started, truth>>
         /\ tried' \in [Runs -> SUBSET Channels] /\ starved' \in [Runs -> SUBSET Channels]
         /\ IF spent[p]
            THEN spent'[p] /\ tried'[p] = tried[p] /\ starved'[p] = starved[p] \cup {channel[p]}
            ELSE tried'[p] = tried[p] \cup {channel[p]} /\ starved'[p] = starved[p]
         /\ \A q \in Runs \ {p} :
                pc'[q] = pc[q] /\ tried'[q] = tried[q] /\ starved'[q] = starved[q]
         /\ pc' \in [Runs -> Steps]
         /\ IF channel[p] < Senders THEN pc'[p] = pc[p]
            ELSE pc'[p] = IF pc[p] = "digest" THEN "record" ELSE "gate"
<1> USE BoundsAssumption
<1>1. PICK inTime \in {{channel[p]}, {}}, late \in {{channel[p]}, {}} :
          /\ Try(p, inTime, late)
          /\ IF spent[p] THEN spent' = spent /\ inTime = {} /\ late = {channel[p]}
             ELSE inTime = {channel[p]} /\ late = {}
  BY DEF Answered, Hung, NoTime
<1>2. /\ pc[p] \in {"digest", "alert"} /\ channel[p] \in 1 .. Senders
      /\ channel' = [channel EXCEPT ![p] = @ + 1]
      /\ UNCHANGED <<now, hosted, files, code, run, record, started, truth>>
  BY <1>1 DEF Types, Try
<1>3. pc' = [pc EXCEPT ![p] = IF channel[p] < Senders THEN pc[p]
                              ELSE IF pc[p] = "digest" THEN "record" ELSE "gate"]
  <2> DEFINE last == IF pc[p] = "digest" THEN "record" ELSE "gate"
             next == CASE channel[p] < Senders -> pc[p] [] channel[p] = Senders -> last
  <2>1. pc' = [pc EXCEPT ![p] = next]
    BY <1>1 DEF Try, Goto
  <2>2. next = IF channel[p] < Senders THEN pc[p] ELSE last
    <3>. HIDE DEF last
    <3>. QED BY <1>2
  <2>. HIDE DEF next
  <2>. QED BY <2>1, <2>2
<1>4. /\ tried' = [tried EXCEPT ![p] = @ \cup inTime]
      /\ starved' = [starved EXCEPT ![p] = @ \cup late]
      /\ inTime \subseteq Channels /\ late \subseteq Channels
  BY <1>1, <1>2 DEF Try, Channels
<1>5. pc' \in [Runs -> Steps]
  BY <1>3 DEF Types, Steps
<1>. QED BY <1>1, <1>2, <1>3, <1>4, <1>5 DEF Types

(* There was room for the streak: the process has not been counted yet. *)
LEMMA FlushedSnapshot ==
  ASSUME IInv, NEW p \in Runs, pc[p] = "flush" PROVE NextSnapshot(p, prev[p]) \in Snapshots
<1>0. Types /\ CountsFit
  BY DEF IInv
<1>1. p \in Recorders
  BY DEF Recorders, Busy, Judged
<1>2. Cardinality(Recorders) \in Nat /\ Cardinality(Recorders) # 0
  BY <1>0, <1>1, FS_EmptySet, FS_CardinalityType DEF CountsFit
<1>3. prev[p] \in Snapshots /\ prev[p].fails \in Nat
  BY <1>0 DEF Types, Snapshots
<1>4. prev[p].fails + Cardinality(Recorders) <= started /\ started \in Nat /\ started <= MaxRuns
  BY <1>0 DEF Types, CountsFit, Writing
<1>5. prev[p].fails + 1 <= MaxRuns
  BY <1>2, <1>3, <1>4, BoundsAssumption
<1>. QED BY <1>0, <1>3, <1>5, NextSnapshotType

LEMMA NextTypes == ASSUME IInv, [Next]_vars PROVE Types'
<1> USE BoundsAssumption, SharedAssumption
<1>0. Types /\ CountsFit /\ NoLaterSuccess
  BY DEF IInv
<1>1. ASSUME NEW p \in Runs, Start(p) PROVE Types'
  BY <1>0, <1>1 DEF Types, Start, Goto, run, record, fanout, Steps
<1>2. ASSUME NEW p \in Runs, NEW fatal \in BOOLEAN, NEW passing \in BOOLEAN,
             NEW fetched \in 0 .. MaxFetched, NEW skipped \in 0 .. fetched,
             Finish(p, fatal, fetched, skipped, passing)
      PROVE  Types'
  <2>1. Classify(fatal, fetched, skipped) \in Outcomes
    BY DEF Classify, Outcomes
  <2>. QED BY <1>0, <1>2, <2>1, FanoutTypes DEF Types, Finish, Goto, record, Steps, Times
<1>3. ASSUME NEW p \in Runs, Read(p) PROVE Types'
  <2> DEFINE old == files[Path(p)]
  <2>1. Path(p) \in Runs \cup {Shared} /\ old \in Files
    BY <1>0 DEF Types, Path
  <2>2. CASE old = Torn
    BY <1>0, <1>3, <2>2, RecordedTypes DEF Types, Read, run, truth
  <2>3. CASE old # Torn
    <3>1. (IF old = Absent THEN Unwritten ELSE old) \in Snapshots
      BY <2>1, <2>3 DEF Files, Unwritten, Snapshots, Outcomes, Times, Never
    <3>. QED BY <1>0, <1>3, <2>3, <3>1 DEF Types, Read, Goto, fanout, run, truth, Steps
  <2>. QED BY <2>2, <2>3
<1>4. ASSUME NEW p \in Runs, Open(p) PROVE Types'
  BY <1>0, <1>4 DEF Types, Open, Goto, record, fanout, run, truth, Steps, Files, Path
<1>5. ASSUME NEW p \in Runs, Flush(p) PROVE Types'
  <2>1. NextSnapshot(p, prev[p]) \in Snapshots
    BY <1>5, FlushedSnapshot DEF Flush
  <2>2. NextSnapshot(p, prev[p]).outcome \in Outcomes
    BY <2>1 DEF Snapshots
  <2>. QED BY <1>0, <1>5, <2>1, <2>2, RecordedTypes DEF Types, Flush, run, truth, Files, Path
<1>6. ASSUME NEW p \in Runs, WriteFailed(p) PROVE Types'
  BY <1>0, <1>6, RecordedTypes DEF Types, WriteFailed, Disturbed, run
<1>7. ASSUME NEW p \in Runs, Answered(p) \/ Hung(p) \/ NoTime(p) PROVE Types'
  <2>1. spent' \in [Runs -> BOOLEAN]
    BY <1>0, <1>7 DEF Types, Answered, Hung, NoTime
  <2>2. /\ channel' \in [Runs -> 1 .. Senders + 1]
        /\ \A q \in Runs : /\ pc'[q] = "save" => pc[q] = "save"
                           /\ pc'[q] \in {"digest", "alert"} => channel'[q] <= Senders
    BY <1>0, <1>7, TryMoves DEF Types
  <2>. QED BY <1>0, <1>7, <2>1, <2>2, TryMoves DEF Types, run, record, truth
<1>8. ASSUME NEW p \in Runs, Gate(p) \/ Killed(p) PROVE Types'
  <2>1. Unwritten \in Snapshots
    BY DEF Unwritten, Snapshots, Outcomes, Times, Never
  <2>2. Exit(p, "ok") \/ Exit(p, "fail")
    BY <1>8 DEF Gate, Killed
  <2>3. UNCHANGED files /\ calm' \in BOOLEAN /\ bad' = bad /\ good' = good
    BY <1>0, <1>8 DEF Gate, Killed, Disturbed, truth, Types
  <2>. QED BY <1>0, <2>1, <2>2, <2>3, FanoutTypes DEF Types, Exit, Goto, Steps, Unknown
<1>9. ASSUME NEW p \in Runs, Save(p) \/ NotSaved(p) \/ SaveLost(p) PROVE Types'
  <2> USE DEF Save, NotSaved, SaveLost, DropFile
  <2>1. files' \in [Runs \cup {Shared} -> Files]
    BY <1>0, <1>9 DEF Types, Files
  <2>2. calm' \in BOOLEAN /\ bad' = bad /\ good' = good
    BY <1>0, <1>9 DEF Types, Disturbed, truth
  <2>. QED BY <1>0, <1>9, <2>1, <2>2 DEF Types, Goto, run, record, fanout, Steps
<1>10. ASSUME Evicted PROVE Types'
  BY <1>0, <1>10 DEF Types, Evicted, Disturbed, run, record, fanout, Files
<1>11. ASSUME Tick PROVE Types'
  BY <1>0, <1>11 DEF Types, Tick, run, record, fanout, truth
<1>12. ASSUME UNCHANGED vars PROVE Types'
  BY <1>0, <1>12 DEF Types, vars, run, record, fanout, truth
<1>. QED
  BY <1>1, <1>2, <1>3, <1>4, <1>5, <1>6, <1>7, <1>8, <1>9, <1>10, <1>11, <1>12 DEF Next
-----------------------------------------------------------------------------
(* The streaks and the times that files and processes know *)

(* A step after which no process and no file knows anything new: a process  *)
(* may have taken what a file said, a file what another one did.            *)
NothingNew ==
    /\ Recorders' \subseteq Recorders /\ Unfinished' \subseteq Unfinished
    /\ now <= now'
    /\ UNCHANGED <<bad, good, started>>
    /\ \A f \in Runs \cup {Shared} : files'[f] \in Snapshots =>
           \E g \in Runs \cup {Shared} : files'[f] = files[g]
    /\ \A p \in Runs :
           \/ prev'[p] = prev[p] /\ (Writing(p)' => Writing(p))
           \/ prev'[p] = Unwritten
           \/ \E g \in Runs \cup {Shared} : prev'[p] = files[g] /\ files[g] \in Snapshots
    /\ \A p \in Runs : Ended(p)' =>
           Ended(p) /\ outcome'[p] = outcome[p] /\ finished'[p] = finished[p]

LEMMA CountTypes ==
  ASSUME IInv
  PROVE  /\ IsFiniteSet(Recorders) /\ IsFiniteSet(Unfinished)
         /\ Cardinality(Recorders) \in Nat /\ Cardinality(Unfinished) \in Nat
         /\ bad \in Nat /\ started \in Nat /\ started <= MaxRuns
         /\ now \in Nat /\ good \in Int /\ -1 <= good
         /\ \A f \in Runs \cup {Shared} : files[f] \in Snapshots =>
                files[f].fails \in Nat /\ files[f].successAt \in Int
         /\ \A p \in Runs : prev[p].fails \in Nat /\ prev[p].successAt \in Int
<1>1. Unfinished \subseteq Recorders
  BY DEF Unfinished, Recorders, Busy, Judged
<1>2. IsFiniteSet(Recorders) /\ IsFiniteSet(Unfinished)
  BY <1>1, FS_Subset DEF IInv, CountsFit
<1>3. Cardinality(Recorders) \in Nat /\ Cardinality(Unfinished) \in Nat
  BY <1>2, FS_CardinalityType
<1>. QED BY <1>2, <1>3, BoundsAssumption DEF IInv, Types, Snapshots, Times, Never

LEMMA NothingNewKeeps == ASSUME IInv, Types', NothingNew PROVE CountsFit' /\ NoLaterSuccess'
<1> USE CountTypes
<1>0. CountsFit /\ NoLaterSuccess
  BY DEF IInv
<1>1. /\ IsFiniteSet(Recorders') /\ Cardinality(Recorders') <= Cardinality(Recorders)
      /\ Cardinality(Unfinished') <= Cardinality(Unfinished)
      /\ Cardinality(Recorders') \in Nat /\ Cardinality(Unfinished') \in Nat
  BY FS_Subset, FS_CardinalityType DEF NothingNew
<1>2. \A f \in Runs \cup {Shared} : files'[f] \in Snapshots =>
          files'[f].fails + Cardinality(Recorders') <= started /\ files'[f].successAt <= good
  BY <1>0, <1>1 DEF NothingNew, CountsFit, NoLaterSuccess
<1>3. ASSUME NEW p \in Runs
      PROVE  /\ Writing(p)' => prev'[p].fails + Cardinality(Recorders') <= started
             /\ prev'[p].successAt <= good
  <2>1. CASE prev'[p] = prev[p] /\ (Writing(p)' => Writing(p))
    BY <1>0, <1>1, <2>1 DEF CountsFit, NoLaterSuccess
  <2>2. CASE prev'[p] = Unwritten
    BY <1>0, <1>1, <2>2 DEF CountsFit, Unwritten, Never
  <2>3. CASE \E g \in Runs \cup {Shared} : prev'[p] = files[g] /\ files[g] \in Snapshots
    BY <1>0, <1>1, <2>3 DEF CountsFit, NoLaterSuccess
  <2>. QED BY <2>1, <2>2, <2>3 DEF NothingNew
<1>4. CountsFit'
  BY <1>0, <1>1, <1>2, <1>3 DEF CountsFit, NothingNew
<1>5. NoLaterSuccess'
  BY <1>0, <1>2, <1>3 DEF NoLaterSuccess, NothingNew, Types
<1>. QED BY <1>4, <1>5

LEMMA NextCounts == ASSUME IInv, Types', [Next]_vars PROVE CountsFit' /\ NoLaterSuccess'
<1> USE CountTypes
<1>0. Types /\ CountsFit /\ NoLaterSuccess
  BY DEF IInv
<1>1. ASSUME NEW p \in Runs, Start(p) PROVE CountsFit' /\ NoLaterSuccess'
  <2>1. /\ Recorders' = Recorders \cup {p} /\ p \notin Recorders
        /\ Unfinished' = Unfinished \cup {p} /\ p \notin Unfinished
    BY <1>0, <1>1 DEF Start, Goto, Types, Recorders, Unfinished, Busy, Judged
  <2>2. /\ IsFiniteSet(Recorders') /\ Cardinality(Recorders') = Cardinality(Recorders) + 1
        /\ Cardinality(Unfinished') = Cardinality(Unfinished) + 1
    BY <2>1, FS_AddElement
  <2>3. \A f \in Runs \cup {Shared} : \E g \in Runs \cup {Shared} : files'[f] = files[g]
    BY <1>0, <1>1 DEF Start, Types
  <2>4. /\ started' = started + 1 /\ UNCHANGED <<now, bad, good, prev, outcome, finished>>
        /\ \A q \in Runs : (Writing(q)' => Writing(q)) /\ (Ended(q)' => Ended(q))
    BY <1>0, <1>1 DEF Start, Goto, Types, record, run, Writing, Ended, Busy
  <2>. QED BY <1>0, <2>2, <2>3, <2>4 DEF CountsFit, NoLaterSuccess
<1>2. ASSUME NEW p \in Runs, NEW fatal \in BOOLEAN, NEW passing \in BOOLEAN,
             NEW fetched \in 0 .. MaxFetched, NEW skipped \in 0 .. fetched,
             Finish(p, fatal, fetched, skipped, passing)
      PROVE  CountsFit' /\ NoLaterSuccess'
  <2>1. /\ Recorders' = Recorders /\ Unfinished' = Unfinished \ {p} /\ p \in Unfinished
    BY <1>0, <1>2 DEF Finish, Goto, Types, Recorders, Unfinished, Busy, Judged
  <2>2. Cardinality(Unfinished') = Cardinality(Unfinished) - 1
    BY <2>1, FS_RemoveElement
  <2>3. bad' \in {0, bad + 1} /\ (good' = good \/ good' = now) /\ UNCHANGED <<now, started, files, prev>>
    BY <1>2 DEF Finish, record
  <2>4. \A q \in Runs : Writing(q)' => Writing(q)
    BY <1>0, <1>2 DEF Finish, Goto, Types, Writing
  <2>5. \A q \in Runs : Ended(q)' /\ outcome'[q] = "success" => finished'[q] <= good'
    BY <1>0, <1>2 DEF Finish, Goto, Types, Ended, Busy, NoLaterSuccess
  <2>. QED BY <1>0, <2>1, <2>2, <2>3, <2>4, <2>5 DEF CountsFit, NoLaterSuccess
<1>3. ASSUME NEW p \in Runs, Flush(p) PROVE CountsFit' /\ NoLaterSuccess'
  <2> DEFINE snap == NextSnapshot(p, prev[p])
  <2>1. /\ Recorders' = Recorders \ {p} /\ p \in Recorders /\ Unfinished' = Unfinished
        /\ \A q \in Runs : (Writing(q)' => Writing(q)) /\ (Ended(q)' => Ended(q))
    BY <1>0, <1>3 DEF Flush, Recorded, Goto, Types, Recorders, Unfinished, Busy, Judged, Writing, Ended
  <2>2. IsFiniteSet(Recorders') /\ Cardinality(Recorders') = Cardinality(Recorders) - 1
    BY <2>1, FS_RemoveElement
  <2>3. prev[p].fails + Cardinality(Recorders) <= started
    BY <1>0, <1>3 DEF CountsFit, Flush, Writing
  <2>4. outcome[p] = "success" => finished[p] <= good
    BY <1>0, <1>3 DEF NoLaterSuccess, Flush, Ended, Busy
  <2>5. /\ snap.fails \in {0, prev[p].fails + 1}
        /\ snap.successAt <= good
    BY <1>0, <2>4 DEF NextSnapshot, NoLaterSuccess
  <2>6. \A f \in Runs \cup {Shared} : files'[f] = files[f] \/ files'[f] = snap
    BY <1>0, <1>3 DEF Flush, Types
  <2>7. UNCHANGED <<now, started, bad, good, prev, outcome, finished>>
    BY <1>3 DEF Flush, run, truth
  <2>8. \A f \in Runs \cup {Shared} : files'[f] \in Snapshots =>
            files'[f].fails + Cardinality(Recorders') <= started /\ files'[f].successAt <= good
    <3>. HIDE DEF snap
    <3>. QED BY <1>0, <2>1, <2>2, <2>3, <2>5, <2>6 DEF CountsFit, NoLaterSuccess
  <2>9. CountsFit'
    <3>. HIDE DEF snap
    <3>1. bad' + Cardinality(Unfinished') <= started'
      BY <1>0, <2>1, <2>7 DEF CountsFit
    <3>2. \A q \in Runs : Writing(q)' => prev'[q].fails + Cardinality(Recorders') <= started'
      BY <1>0, <2>1, <2>2, <2>7 DEF CountsFit
    <3>3. Cardinality(Recorders') <= started'
      BY <1>0, <2>2, <2>7 DEF CountsFit
    <3>. QED BY <2>2, <2>7, <2>8, <3>1, <3>2, <3>3 DEF CountsFit
  <2>10. NoLaterSuccess'
    <3>. HIDE DEF snap
    <3>. QED BY <1>0, <2>1, <2>7, <2>8 DEF NoLaterSuccess
  <2>. QED BY <2>9, <2>10
<1>4. ASSUME NEW p \in Runs, Read(p) PROVE NothingNew
  <2>1. UNCHANGED <<now, files, bad, good, started, outcome, finished>>
    BY <1>4 DEF Read, run, truth
  <2>2. /\ \A q \in Runs \ {p} : pc'[q] = pc[q] /\ prev'[q] = prev[q]
        /\ pc[p] = "record" /\ pc'[p] \in {"open", "alert", "gate"}
    BY <1>0, <1>4 DEF Read, Recorded, Goto, Types
  <2>3. Recorders' \subseteq Recorders /\ Unfinished' \subseteq Unfinished
    BY <2>2 DEF Recorders, Unfinished, Busy, Judged
  <2>4. /\ \A q \in Runs : Ended(q)' => Ended(q)
        /\ \A q \in Runs \ {p} : Writing(q)' => Writing(q)
    BY <2>2 DEF Ended, Busy, Writing
  <2>5. \/ prev'[p] = prev[p] /\ (Writing(p)' => Writing(p))
        \/ prev'[p] = Unwritten
        \/ \E g \in Runs \cup {Shared} : prev'[p] = files[g] /\ files[g] \in Snapshots
    <3>1. Path(p) \in Runs \cup {Shared} /\ files[Path(p)] \in Files
      BY <1>0 DEF Types, Path
    <3>2. CASE files[Path(p)] = Torn
      BY <1>0, <1>4, <3>2 DEF Read, Recorded, Goto, Types, Writing
    <3>3. CASE files[Path(p)] # Torn
      BY <1>0, <1>4, <3>1, <3>3 DEF Read, Types, Files
    <3>. QED BY <3>2, <3>3
  <2>. QED BY <1>0, <2>1, <2>2, <2>3, <2>4, <2>5 DEF NothingNew, Types
<1>5. ASSUME NEW p \in Runs, Open(p) PROVE NothingNew
  <2>1. /\ UNCHANGED <<now, prev, bad, good, started, outcome, finished>>
        /\ \A f \in Runs \cup {Shared} : files'[f] = files[f] \/ files'[f] = Torn
        /\ \A q \in Runs \ {p} : pc'[q] = pc[q]
        /\ pc[p] = "open" /\ pc'[p] = "flush"
    BY <1>0, <1>5 DEF Open, Goto, Types, run, record, truth
  <2>. QED
    BY <1>0, <2>1, FilesAssumption
    DEF NothingNew, Types, Recorders, Unfinished, Busy, Judged, Writing, Ended
<1>6. ASSUME NEW p \in Runs, WriteFailed(p) \/ Answered(p) \/ Hung(p) \/ NoTime(p)
      PROVE  NothingNew
  <2>1. UNCHANGED <<now, files, prev, bad, good, started, outcome, finished>>
    BY <1>6 DEF WriteFailed, Answered, Hung, NoTime, Try, Disturbed, run, record, truth
  <2>2. /\ \A q \in Runs \ {p} : pc'[q] = pc[q]
        /\ \/ pc[p] \in {"digest", "open", "flush"}
           \/ pc[p] = "alert" /\ pc'[p] \in {"alert", "gate"}
        /\ pc'[p] \in {"digest", "record", "alert", "gate"}
    <3>1. CASE WriteFailed(p)
      BY <1>0, <3>1 DEF WriteFailed, Recorded, Goto, Types
    <3>2. CASE Answered(p) \/ Hung(p) \/ NoTime(p)
      BY <1>0, <3>2, TryMoves
    <3>. QED BY <1>6, <3>1, <3>2
  <2>3. Recorders' \subseteq Recorders /\ Unfinished' \subseteq Unfinished
    BY <2>2 DEF Recorders, Unfinished, Busy, Judged
  <2>4. \A q \in Runs : (Ended(q)' => Ended(q)) /\ (Writing(q)' => Writing(q))
    BY <2>2 DEF Ended, Busy, Writing
  <2>. QED BY <1>0, <2>1, <2>3, <2>4 DEF NothingNew, Types
<1>7. ASSUME NEW p \in Runs, Gate(p) \/ Killed(p) PROVE NothingNew
  <2>1. UNCHANGED <<now, files, bad, good, started, outcome>>
    BY <1>7 DEF Gate, Killed, Exit, Disturbed, truth
  <2>2. /\ \A q \in Runs \ {p} :
               pc'[q] = pc[q] /\ prev'[q] = prev[q] /\ finished'[q] = finished[q]
        /\ pc'[p] \in {"idle", "save"} /\ prev'[p] = Unwritten
    BY <1>0, <1>7 DEF Gate, Killed, Exit, Goto, Types
  <2>3. Recorders' \subseteq Recorders /\ Unfinished' \subseteq Unfinished
    BY <2>2 DEF Recorders, Unfinished, Busy, Judged
  <2>4. /\ \A q \in Runs : Ended(q)' => q # p /\ Ended(q)
        /\ \A q \in Runs : Writing(q)' => Writing(q)
    BY <2>2 DEF Ended, Busy, Writing
  <2>. QED BY <1>0, <2>1, <2>2, <2>3, <2>4 DEF NothingNew, Types
<1>8. ASSUME NEW p \in Runs, Save(p) \/ NotSaved(p) \/ SaveLost(p) PROVE NothingNew
  <2> USE DEF Save, NotSaved, SaveLost, DropFile
  <2>1. UNCHANGED <<now, prev, bad, good, started, outcome, finished>>
    BY <1>8 DEF Disturbed, run, record, truth
  <2>2. \A f \in Runs \cup {Shared} : files'[f] \in Snapshots =>
           \E g \in Runs \cup {Shared} : files'[f] = files[g]
    BY <1>0, <1>8, FilesAssumption DEF Types
  <2>3. /\ \A q \in Runs \ {p} : pc'[q] = pc[q]
        /\ pc'[p] = "idle"
    BY <1>0, <1>8 DEF Goto, Types
  <2>. QED
    BY <1>0, <2>1, <2>2, <2>3
    DEF NothingNew, Types, Recorders, Unfinished, Busy, Judged, Writing, Ended
<1>9. ASSUME Evicted \/ Tick \/ UNCHANGED vars PROVE NothingNew
  <2>1. /\ UNCHANGED <<pc, prev, bad, good, started, outcome, finished>>
        /\ now <= now'
    BY <1>9 DEF Evicted, Tick, vars, Disturbed, run, record, truth
  <2>2. \A f \in Runs \cup {Shared} : files'[f] \in {files[f], Absent}
    BY <1>0, <1>9 DEF Evicted, Tick, vars, Types
  <2>. QED
    BY <1>0, <2>1, <2>2, FilesAssumption
    DEF NothingNew, Types, Recorders, Unfinished, Busy, Judged, Writing, Ended
<1>. QED
  BY <1>1, <1>2, <1>3, <1>4, <1>5, <1>6, <1>7, <1>8, <1>9, NothingNewKeeps DEF Next
-----------------------------------------------------------------------------
(* Exit codes *)

LEMMA NextCodes == ASSUME IInv, Types', [Next]_vars PROVE CodesAreOwn'
<1>0. Types /\ CodesAreOwn
  BY DEF IInv
<1> USE <1>0 DEF CodesAreOwn, Types, Busy, Judged, Goto, run, record
<1>1. ASSUME NEW p \in Runs, Start(p) PROVE CodesAreOwn'
  BY <1>1 DEF Start
<1>2. ASSUME NEW p \in Runs, NEW fatal \in BOOLEAN, NEW passing \in BOOLEAN,
             NEW fetched \in 0 .. MaxFetched, NEW skipped \in 0 .. fetched,
             Finish(p, fatal, fetched, skipped, passing)
      PROVE  CodesAreOwn'
  BY <1>2 DEF Finish
<1>3. ASSUME NEW p \in Runs, Read(p) PROVE CodesAreOwn'
  BY <1>3 DEF Read, Recorded, Unknown
<1>4. ASSUME NEW p \in Runs, Open(p) PROVE CodesAreOwn'
  BY <1>4 DEF Open
<1>5. ASSUME NEW p \in Runs, Flush(p) PROVE CodesAreOwn'
  <2>1. NextSnapshot(p, prev[p]).outcome = outcome[p]
    BY DEF NextSnapshot
  <2>2. Recorded(p, outcome[p], NextSnapshot(p, prev[p]).fails) /\ UNCHANGED <<code, outcome>>
    BY <1>5, <2>1 DEF Flush
  <2>. QED BY <1>5, <2>2 DEF Flush, Recorded
<1>6. ASSUME NEW p \in Runs, WriteFailed(p) PROVE CodesAreOwn'
  BY <1>6 DEF WriteFailed, Recorded, Unknown
<1>7. ASSUME NEW p \in Runs, Answered(p) \/ Hung(p) \/ NoTime(p) PROVE CodesAreOwn'
  <2>1. /\ pc[p] \in {"digest", "alert"} /\ UNCHANGED <<code, outcome, said>>
        /\ \A q \in Runs \ {p} : pc'[q] = pc[q]
        /\ IF pc[p] = "digest" THEN pc'[p] \in {"digest", "record"} ELSE pc'[p] \in {"alert", "gate"}
    BY <1>7, TryMoves
  <2>. QED BY <2>1
<1>8. ASSUME NEW p \in Runs, Gate(p) PROVE CodesAreOwn'
  BY <1>8 DEF Gate, Exit, Passes, Unknown
<1>9. ASSUME NEW p \in Runs, Killed(p) PROVE CodesAreOwn'
  BY <1>9 DEF Killed, Exit, Unknown
<1>10. ASSUME NEW p \in Runs, Save(p) \/ NotSaved(p) \/ SaveLost(p) PROVE CodesAreOwn'
  BY <1>10 DEF Save, NotSaved, SaveLost, DropFile
<1>11. ASSUME Evicted \/ Tick \/ UNCHANGED vars PROVE CodesAreOwn'
  BY <1>11 DEF Evicted, Tick, vars
<1>. QED
  BY <1>1, <1>2, <1>3, <1>4, <1>5, <1>6, <1>7, <1>8, <1>9, <1>10, <1>11 DEF Next
-----------------------------------------------------------------------------
(* As long as nothing disturbs the runs *)

LEMMA Alone ==
  ASSUME IInv, calm, NEW p \in Runs, pc[p] # "idle"
  PROVE  OnTrack(p) /\ \A q \in Runs \ {p} : pc[q] = "idle"
  BY DEF IInv, CalmIsExact

LEMMA StillAlone ==
  ASSUME IInv, calm, NEW p \in Runs, \A q \in Runs \ {p} : pc[q] = "idle" /\ pc'[q] = pc[q],
         pc'[p] # "idle", OnTrack(p)'
  PROVE  CalmIsExact'
  BY DEF CalmIsExact

(* What a process has written tells what happened. *)
LEMMA FlushTells ==
  ASSUME IInv, calm, NEW p \in Runs, Flush(p)
  PROVE  LET snap == NextSnapshot(p, prev[p])
         IN  /\ Tells(snap, Counted(p)) /\ snap.outcome = outcome[p]
             /\ Recorded(p, outcome[p], Counted(p))
  BY Alone DEF Flush, OnTrack, Writing, NextSnapshot, Tells

(* A step within a job leaves the cache as it is. *)
LEMMA CacheStillHolds ==
  ASSUME IInv, calm, NEW p \in Runs, pc[p] # "idle", Types',
         UNCHANGED <<hosted, good, outcome>>, ~hosted => files'[Shared] = files[Shared],
         pc'[p] = "running" => pc[p] = "running"
  PROVE  ~hosted' => CacheHolds(p)'
  BY Alone DEF OnTrack, CacheHolds, Base

LEMMA NextCalm == ASSUME IInv, Types', [Next]_vars PROVE CalmIsExact'
<1> SUFFICES ASSUME calm' PROVE CalmIsExact'
  BY DEF CalmIsExact
<1>0. Types /\ CalmIsExact
  BY DEF IInv
<1> USE SharedAssumption, FilesAssumption
<1>1. ASSUME NEW p \in Runs, Start(p) PROVE CalmIsExact'
  <2>1. calm /\ \A q \in Runs : pc[q] = "idle"
    BY <1>1 DEF Start, Others
  <2>2. files[Shared] # Torn /\ Tells(Base(files[Shared]), Kept)
    BY <1>0, <2>1 DEF CalmIsExact
  <2>3. /\ \A q \in Runs \ {p} : pc'[q] = "idle"
        /\ pc'[p] = "running" /\ files'[Shared] = files[Shared]
        /\ files'[Path(p)'] = files[Shared] /\ hosted' = hosted /\ bad' = bad /\ good' = good
    BY <1>0, <1>1, <2>1 DEF Start, Goto, Types, Path
  <2>4. OnTrack(p)'
    BY <2>2, <2>3 DEF OnTrack, CacheHolds, Tells, Kept, Base, Writing, Judged, Ended
  <2>. QED BY <2>1, <2>3, <2>4, StillAlone
<1>2. ASSUME NEW p \in Runs, NEW fatal \in BOOLEAN, NEW passing \in BOOLEAN,
             NEW fetched \in 0 .. MaxFetched, NEW skipped \in 0 .. fetched,
             Finish(p, fatal, fetched, skipped, passing)
      PROVE  CalmIsExact'
  <2>1. calm /\ pc[p] = "running"
    BY <1>2 DEF Finish
  <2>2. /\ files[Path(p)] # Torn /\ Tells(Base(files[Path(p)]), Kept)
        /\ ~hosted => CacheHolds(p)
    BY <2>1, Alone DEF OnTrack
  <2>3. /\ \A q \in Runs \ {p} : pc'[q] = pc[q]
        /\ pc'[p] \in {"digest", "record"} /\ UNCHANGED <<files, hosted, now>>
        /\ finished'[p] = now
        /\ IF outcome'[p] = "success" THEN bad' = 0 /\ good' = now ELSE bad' = bad + 1 /\ good' = good
    BY <1>0, <1>2 DEF Finish, Goto, Types
  <2>4. Tells(NextSnapshot(p, Base(files[Path(p)])), Counted(p))'
    BY <2>2, <2>3 DEF Tells, Kept, Counted, Base, NextSnapshot, Path
  <2>5. ~hosted' => CacheHolds(p)'
    BY <2>1, <2>2, <2>3 DEF CacheHolds, Base
  <2>6. OnTrack(p)'
    BY <1>0, <2>2, <2>3, <2>4, <2>5 DEF OnTrack, Path, Writing, Judged, Ended, Busy, Types
  <2>. QED BY <2>1, <2>3, <2>6, Alone, StillAlone
<1>3. ASSUME NEW p \in Runs, Read(p) PROVE CalmIsExact'
  <2>1. calm /\ pc[p] = "record"
    BY <1>3 DEF Read, truth
  <2>2. files[Path(p)] # Torn /\ Tells(NextSnapshot(p, Base(files[Path(p)])), Counted(p)) /\ OnTrack(p)
    BY <2>1, Alone DEF OnTrack
  <2>3. /\ \A q \in Runs \ {p} : pc'[q] = pc[q]
        /\ pc'[p] = "open" /\ prev'[p] = Base(files[Path(p)])
        /\ UNCHANGED <<files, hosted, now, outcome, finished, bad, good>>
    BY <1>0, <1>3, <2>2 DEF Read, Goto, Types, Base, run, truth
  <2>4. OnTrack(p)'
    BY <2>1, <2>2, <2>3, CacheStillHolds
    DEF OnTrack, Tells, Counted, NextSnapshot, Writing, Judged, Ended, Busy
  <2>. QED BY <2>1, <2>3, <2>4, Alone, StillAlone
<1>4. ASSUME NEW p \in Runs, Open(p) PROVE CalmIsExact'
  <2>1. calm /\ pc[p] = "open"
    BY <1>4 DEF Open, truth
  <2>2. /\ \A q \in Runs \ {p} : pc'[q] = pc[q]
        /\ pc'[p] = "flush" /\ UNCHANGED <<hosted, prev, now, outcome, finished, bad, good>>
        /\ ~hosted => files'[Shared] = files[Shared]
    BY <1>0, <1>4 DEF Open, Goto, Path, Types, run, record, truth
  <2>3. OnTrack(p)'
    BY <2>1, <2>2, Alone, CacheStillHolds
    DEF OnTrack, Tells, Counted, NextSnapshot, Writing, Judged, Ended, Busy
  <2>. QED BY <2>1, <2>2, <2>3, Alone, StillAlone
<1>5. ASSUME NEW p \in Runs, Flush(p) PROVE CalmIsExact'
  <2> DEFINE snap == NextSnapshot(p, prev[p])
  <2>1. calm /\ pc[p] = "flush"
    BY <1>5 DEF Flush, truth
  <2>2. snap \in Snapshots /\ Tells(snap, Counted(p)) /\ snap.outcome = outcome[p]
    BY <1>5, <2>1, FlushedSnapshot, FlushTells
  <2>3. /\ \A q \in Runs \ {p} : pc'[q] = pc[q]
        /\ pc'[p] \in {"alert", "gate"} /\ said'[p] = outcome[p] /\ files'[Path(p)] = snap
        /\ ~hosted => files'[Shared] = files[Shared]
        /\ UNCHANGED <<hosted, now, outcome, finished, bad, good>>
    <3>1. Recorded(p, outcome[p], Counted(p))
      BY <1>5, <2>1, FlushTells
    <3>. QED BY <1>0, <1>5, <3>1 DEF Flush, Recorded, Goto, Types, Path, run, truth
  <2>. HIDE DEF snap
  <2>4. OnTrack(p)'
    BY <2>1, <2>2, <2>3, Alone, CacheStillHolds
    DEF OnTrack, Tells, Counted, Path, Writing, Judged, Ended, Busy
  <2>. QED BY <2>1, <2>3, <2>4, Alone, StillAlone
<1>6. ASSUME NEW p \in Runs, Answered(p) \/ Hung(p) \/ NoTime(p) PROVE CalmIsExact'
  <2>1. /\ calm /\ pc[p] \in {"digest", "alert"}
        /\ UNCHANGED <<files, hosted, now, outcome, finished, said, bad, good>>
        /\ \A q \in Runs \ {p} : pc'[q] = pc[q]
        /\ IF pc[p] = "digest" THEN pc'[p] \in {"digest", "record"} ELSE pc'[p] \in {"alert", "gate"}
    BY <1>0, <1>6, TryMoves DEF run, record, truth
  <2>2. OnTrack(p)'
    BY <2>1, Alone, CacheStillHolds
    DEF OnTrack, Tells, Counted, Base, NextSnapshot, Path, Writing, Judged, Ended, Busy
  <2>. QED BY <2>1, <2>2, Alone, StillAlone
<1>7. ASSUME NEW p \in Runs, Gate(p) PROVE CalmIsExact'
  <2>1. calm /\ pc[p] = "gate"
    BY <1>7 DEF Gate, truth
  <2>2. /\ files[Path(p)] \in Snapshots /\ Tells(files[Path(p)], Counted(p))
        /\ files[Path(p)].outcome = outcome[p]
    BY <2>1, Alone DEF OnTrack, Judged
  <2>3. /\ \A q \in Runs \ {p} : pc'[q] = pc[q]
        /\ pc'[p] = IF hosted THEN "idle" ELSE "save"
        /\ UNCHANGED <<files, hosted, outcome, bad, good>>
    BY <1>0, <1>7 DEF Gate, Exit, Goto, Types, truth
  <2>4. CASE hosted
    BY <2>1, <2>2, <2>3, <2>4, Alone DEF CalmIsExact, Tells, Kept, Counted, Base, Path
  <2>5. CASE ~hosted
    <3>1. OnTrack(p)'
      BY <2>1, <2>2, <2>3, <2>5, CacheStillHolds
      DEF OnTrack, Tells, Counted, Path, Writing, Judged, Ended, Busy
    <3>. QED BY <2>1, <2>3, <2>5, <3>1, Alone, StillAlone
  <2>. QED BY <2>4, <2>5
<1>8. ASSUME NEW p \in Runs, Save(p) PROVE CalmIsExact'
  <2>1. calm /\ pc[p] = "save" /\ ~hosted /\ outcome[p] = "success"
    BY <1>0, <1>8 DEF Save, truth, Types, IInv, CodesAreOwn
  <2>2. files[p] \in Snapshots /\ Tells(files[p], Counted(p))
    BY <2>1, Alone DEF OnTrack, Path
  <2>3. /\ \A q \in Runs \ {p} : pc'[q] = pc[q]
        /\ pc'[p] = "idle" /\ files'[Shared] = files[p] /\ UNCHANGED <<hosted, bad, good>>
    BY <1>0, <1>8, <2>2 DEF Save, Goto, Types, truth
  <2>. QED BY <2>1, <2>2, <2>3, Alone DEF CalmIsExact, Tells, Kept, Counted, Base
<1>13. ASSUME NEW p \in Runs, NotSaved(p) PROVE CalmIsExact'
  <2>1. calm /\ pc[p] = "save" /\ ~hosted /\ outcome[p] # "success"
    BY <1>0, <1>13 DEF NotSaved, truth, Types, IInv, PassedWhenCalm
  <2>2. CacheHolds(p)
    BY <2>1, Alone DEF OnTrack
  <2>3. /\ \A q \in Runs \ {p} : pc'[q] = pc[q]
        /\ pc'[p] = "idle" /\ files'[Shared] = files[Shared] /\ UNCHANGED <<hosted, bad, good>>
    BY <1>0, <1>13 DEF NotSaved, DropFile, Goto, Types, truth
  <2>. QED BY <2>1, <2>2, <2>3, Alone DEF CalmIsExact, CacheHolds, Tells, Kept, Base
<1>9. ASSUME Tick PROVE CalmIsExact'
  <2>1. /\ calm /\ UNCHANGED <<files, hosted, pc, prev, outcome, finished, said, started, bad, good>>
        /\ now' = now + 1 /\ \A p \in Runs : Ended(p) => finished[p] = now
    BY <1>9 DEF Tick, Ended, Busy, run, record, truth
  <2>2. ASSUME NEW p \in Runs, OnTrack(p) PROVE OnTrack(p)'
    BY <1>0, <2>1, <2>2
    DEF OnTrack, CacheHolds, Tells, Kept, Counted, Base, NextSnapshot, Path, Writing, Judged, Ended, Busy, Types
  <2>. QED BY <1>0, <2>1, <2>2 DEF CalmIsExact, Tells, Kept, Base
<1>10. ASSUME UNCHANGED vars PROVE CalmIsExact'
  <2>1. UNCHANGED <<now, calm, files, hosted, pc, prev, outcome, finished, said, started, bad, good>>
    BY <1>10 DEF vars, run, record, truth
  <2>2. ASSUME NEW p \in Runs, OnTrack(p) PROVE OnTrack(p)'
    BY <2>1, <2>2
    DEF OnTrack, CacheHolds, Tells, Kept, Counted, Base, NextSnapshot, Path, Writing, Judged, Ended, Busy
  <2>. QED BY <1>0, <2>1, <2>2 DEF CalmIsExact, Tells, Kept, Base
<1>11. \A p \in Runs : ~WriteFailed(p) /\ ~Killed(p) /\ ~SaveLost(p)
  BY DEF WriteFailed, Killed, SaveLost, Evicted, Disturbed
<1>12. ~Evicted
  BY DEF Evicted, Disturbed
<1>. QED
  BY <1>1, <1>2, <1>3, <1>4, <1>5, <1>6, <1>7, <1>8, <1>9, <1>10, <1>11, <1>12, <1>13 DEF Next

(* A channel that answers or hangs in time extends those that were tried,   *)
(* one without time those that were not.                                    *)
LEMMA OneMoreChannel ==
  ASSUME Types, NEW p \in Runs, CalledInOrder(p, channel[p] - 1), channel[p] \in 1 .. Senders,
         IF spent[p]
         THEN spent'[p] /\ tried'[p] = tried[p] /\ starved'[p] = starved[p] \cup {channel[p]}
         ELSE tried'[p] = tried[p] \cup {channel[p]} /\ starved'[p] = starved[p],
         NEW n, n = channel[p]
  PROVE  CalledInOrder(p, n)'
<1>1. PICK k \in 0 .. channel[p] - 1 :
          /\ tried[p] = 1 .. k /\ starved[p] = k + 1 .. channel[p] - 1
          /\ IF spent[p] THEN k >= 1 ELSE k = channel[p] - 1
  BY DEF CalledInOrder
<1>2. channel[p] \in Nat
  BY BoundsAssumption
<1>3. CASE spent[p]
  <2>1. (k + 1 .. channel[p] - 1) \cup {channel[p]} = k + 1 .. n
    BY <1>2
  <2>2. k \in 0 .. n
    BY <1>2
  <2>. QED BY <1>1, <1>3, <2>1, <2>2 DEF CalledInOrder
<1>4. CASE ~spent[p]
  <2>1. (1 .. channel[p] - 1) \cup {channel[p]} = 1 .. n
    BY <1>2
  <2>2. channel[p] - 1 + 1 .. channel[p] - 1 = n + 1 .. n
    BY <1>2
  <2>3. tried'[p] = 1 .. n /\ starved'[p] = n + 1 .. n
    BY <1>1, <1>4, <2>1, <2>2
  <2>4. n \in 0 .. n /\ n >= 1
    BY <1>2
  <2>. QED BY <2>3, <2>4 DEF CalledInOrder
<1>. QED BY <1>3, <1>4

(* An alert comes to one channel after the other. *)
LEMMA NextAlerts == ASSUME IInv, Types', [Next]_vars PROVE AlertsAreDue'
<1> SUFFICES ASSUME calm' PROVE AlertsAreDue'
  BY DEF AlertsAreDue
<1>0. Types /\ AlertsAreDue
  BY DEF IInv
<1> USE BoundsAssumption
<1>1. ASSUME NEW p \in Runs, Start(p) PROVE AlertsAreDue'
  <2>1. calm /\ UNCHANGED <<hosted, outcome, spent, tried, starved, channel, bad>>
        /\ \A q \in Runs : pc'[q] \in {"alert", "gate"} => pc'[q] = pc[q]
    BY <1>0, <1>1 DEF Start, Goto, Types, run, fanout
  <2>. QED BY <1>0, <2>1 DEF AlertsAreDue, Alerts, Counted, CalledInOrder, AlertDue
<1>2. ASSUME NEW p \in Runs, NEW fatal \in BOOLEAN, NEW passing \in BOOLEAN,
             NEW fetched \in 0 .. MaxFetched, NEW skipped \in 0 .. fetched,
             Finish(p, fatal, fetched, skipped, passing)
      PROVE  AlertsAreDue'
  <2>1. calm /\ pc[p] = "running" /\ \A q \in Runs : pc'[q] \notin {"alert", "gate"}
    <3>1. calm /\ pc[p] = "running"
      BY <1>2 DEF Finish
    <3>. QED BY <1>0, <1>2, <3>1, Alone DEF Finish, Goto, Types
  <2>. QED BY <2>1 DEF AlertsAreDue
<1>3. ASSUME NEW p \in Runs, Read(p) \/ Open(p) PROVE AlertsAreDue'
  <2>1. calm /\ pc[p] \in {"record", "open"}
    BY <1>3 DEF Read, Open, truth
  <2>2. \A q \in Runs : pc'[q] \notin {"alert", "gate"}
    BY <1>0, <1>3, <2>1, Alone DEF Read, Open, Goto, Types, OnTrack
  <2>. QED BY <2>2 DEF AlertsAreDue
<1>4. ASSUME NEW p \in Runs, Flush(p) PROVE AlertsAreDue'
  <2>1. /\ calm /\ pc[p] = "flush" /\ Recorded(p, outcome[p], Counted(p))
        /\ UNCHANGED <<hosted, outcome, bad>>
    BY <1>4, FlushTells DEF Flush, run, truth
  <2>2. /\ channel'[p] = 1 /\ ~spent'[p] /\ tried'[p] = {} /\ starved'[p] = {}
        /\ pc'[p] = IF Alerts(p) /\ Senders > 0 THEN "alert" ELSE "gate"
        /\ \A q \in Runs \ {p} : pc'[q] = pc[q]
    BY <1>0, <2>1 DEF Recorded, BeginFanout, Goto, Types, Alerts
  <2>3. Alerts(p)' = Alerts(p)
    BY <2>1 DEF Alerts, Counted, AlertDue
  <2>4. CalledInOrder(p, 0)'
    BY <2>2 DEF CalledInOrder
  <2>5. CalledInOrder(p, channel[p] - 1)' /\ (Senders = 0 => CalledInOrder(p, Senders)')
    BY <2>2, <2>4 DEF CalledInOrder
  <2>. QED BY <2>1, <2>2, <2>3, <2>5, Alone DEF AlertsAreDue
<1>5. ASSUME NEW p \in Runs, Answered(p) \/ Hung(p) \/ NoTime(p) PROVE AlertsAreDue'
  <2>1. /\ pc[p] \in {"digest", "alert"} /\ channel[p] \in 1 .. Senders
        /\ channel' = [channel EXCEPT ![p] = @ + 1] /\ UNCHANGED <<hosted, run, truth>>
        /\ \A q \in Runs \ {p} : pc'[q] = pc[q]
        /\ IF channel[p] < Senders THEN pc'[p] = pc[p]
           ELSE pc'[p] = IF pc[p] = "digest" THEN "record" ELSE "gate"
    BY <1>0, <1>5, TryMoves
  <2>2. calm /\ UNCHANGED <<outcome, bad>> /\ channel'[p] = channel[p] + 1
    BY <1>0, <2>1 DEF Types, run, truth
  <2>3. Alerts(p)' = Alerts(p)
    BY <2>1, <2>2 DEF Alerts, Counted, AlertDue
  <2>4. \A q \in Runs \ {p} : pc'[q] = "idle"
    BY <2>1, <2>2, Alone
  <2>5. CASE pc[p] = "digest"
    BY <2>1, <2>4, <2>5 DEF AlertsAreDue
  <2>6. CASE pc[p] = "alert"
    <3>1. Alerts(p) /\ CalledInOrder(p, channel[p] - 1)
      BY <1>0, <2>2, <2>6 DEF AlertsAreDue
    <3>2. IF spent[p]
          THEN spent'[p] /\ tried'[p] = tried[p] /\ starved'[p] = starved[p] \cup {channel[p]}
          ELSE tried'[p] = tried[p] \cup {channel[p]} /\ starved'[p] = starved[p]
      BY <1>0, <1>5, TryMoves
    <3>3. \A n : n = channel[p] => CalledInOrder(p, n)'
      BY <1>0, <2>1, <3>1, <3>2, OneMoreChannel
    <3>4. channel'[p] - 1 = channel[p] /\ (channel[p] < Senders \/ channel[p] = Senders)
      BY <2>1, <2>2
    <3>5. CalledInOrder(p, channel[p] - 1)' /\ (channel[p] = Senders => CalledInOrder(p, Senders)')
      BY <3>3, <3>4 DEF CalledInOrder
    <3>. QED BY <2>1, <2>3, <2>4, <2>6, <3>1, <3>4, <3>5 DEF AlertsAreDue
  <2>. QED BY <2>1, <2>5, <2>6
<1>6. ASSUME NEW p \in Runs, Gate(p) \/ Save(p) \/ NotSaved(p) PROVE AlertsAreDue'
  <2>1. calm /\ pc[p] # "idle" /\ \A q \in Runs : pc'[q] \notin {"alert", "gate"}
    <3>1. calm /\ pc[p] # "idle"
      BY <1>6 DEF Gate, Save, NotSaved, truth
    <3>. QED BY <1>0, <1>6, <3>1, Alone DEF Gate, Exit, Save, NotSaved, DropFile, Goto, Types
  <2>. QED BY <2>1 DEF AlertsAreDue
<1>7. ASSUME Tick \/ UNCHANGED vars PROVE AlertsAreDue'
  <2>1. calm /\ UNCHANGED <<pc, hosted, outcome, spent, tried, starved, channel, bad>>
    BY <1>7 DEF Tick, vars, run, fanout, truth
  <2>. QED BY <1>0, <2>1 DEF AlertsAreDue, Alerts, Counted, CalledInOrder, AlertDue
<1>8. \A p \in Runs : ~WriteFailed(p) /\ ~Killed(p) /\ ~SaveLost(p)
  BY DEF WriteFailed, Killed, SaveLost, Disturbed
<1>9. ~Evicted
  BY DEF Evicted, Disturbed
<1>. QED
  BY <1>1, <1>2, <1>3, <1>4, <1>5, <1>6, <1>7, <1>8, <1>9 DEF Next

(* At the gate the file holds the success of this process, a tick old at    *)
(* most.                                                                    *)
LEMMA NextPassed == ASSUME IInv, Types', [Next]_vars PROVE PassedWhenCalm'
<1> SUFFICES ASSUME calm' PROVE PassedWhenCalm'
  BY DEF PassedWhenCalm
<1>0. Types /\ PassedWhenCalm
  BY DEF IInv
<1>1. ASSUME NEW p \in Runs, Start(p) PROVE PassedWhenCalm'
  BY <1>0, <1>1 DEF PassedWhenCalm, Start, Goto, Types, run
<1>2. ASSUME NEW p \in Runs, NEW fatal \in BOOLEAN, NEW passing \in BOOLEAN,
             NEW fetched \in 0 .. MaxFetched, NEW skipped \in 0 .. fetched,
             Finish(p, fatal, fetched, skipped, passing)
      PROVE  PassedWhenCalm'
  BY <1>0, <1>2 DEF PassedWhenCalm, Finish, Goto, Types
<1>3. ASSUME NEW p \in Runs, Read(p) \/ Open(p) \/ Flush(p) PROVE PassedWhenCalm'
  BY <1>0, <1>3 DEF PassedWhenCalm, Read, Open, Flush, Recorded, Goto, Types, run, truth
<1>4. ASSUME NEW p \in Runs, Answered(p) \/ Hung(p) \/ NoTime(p) PROVE PassedWhenCalm'
  <2>1. /\ calm /\ UNCHANGED <<code, outcome>> /\ \A q \in Runs \ {p} : pc'[q] = pc[q]
        /\ pc'[p] \in {"digest", "alert", "record", "gate"}
    BY <1>4, TryMoves, <1>0 DEF run, truth
  <2>. QED BY <1>0, <2>1 DEF PassedWhenCalm
<1>5. ASSUME NEW p \in Runs, Gate(p) PROVE PassedWhenCalm'
  <2>1. calm /\ pc[p] = "gate"
    BY <1>5 DEF Gate, truth
  <2>2. OnTrack(p)
    BY <2>1, Alone
  <2>3. outcome[p] = "success" => Passes(p)
    <3> SUFFICES ASSUME outcome[p] = "success" PROVE Passes(p)
      OBVIOUS
    <3>1. /\ said[p] = "success" /\ files[Path(p)] \in Snapshots
          /\ files[Path(p)].outcome = "success" /\ files[Path(p)].successAt = good
          /\ good = finished[p] /\ now <= finished[p] + 1
      BY <2>1, <2>2 DEF OnTrack, Tells, Judged, Ended, Busy
    <3>2. finished[p] \in Nat /\ now \in Nat
      BY <1>0, BoundsAssumption DEF Types
    <3>. QED BY <3>1, <3>2, BoundsAssumption DEF Passes, Healthy, Never
  <2>. QED BY <1>0, <1>5, <2>1, <2>3 DEF PassedWhenCalm, Gate, Exit, Goto, Types
<1>6. ASSUME NEW p \in Runs, Save(p) \/ NotSaved(p) PROVE PassedWhenCalm'
  BY <1>0, <1>6 DEF PassedWhenCalm, Save, NotSaved, DropFile, Goto, Types, run, truth
<1>7. ASSUME Tick \/ UNCHANGED vars PROVE PassedWhenCalm'
  BY <1>0, <1>7 DEF PassedWhenCalm, Tick, vars, run, truth
<1>8. \A p \in Runs : ~WriteFailed(p) /\ ~Killed(p) /\ ~SaveLost(p)
  BY DEF WriteFailed, Killed, SaveLost, Disturbed
<1>9. ~Evicted
  BY DEF Evicted, Disturbed
<1>. QED
  BY <1>1, <1>2, <1>3, <1>4, <1>5, <1>6, <1>7, <1>8, <1>9 DEF Next
-----------------------------------------------------------------------------
LEMMA NextIInv == IInv /\ [Next]_vars => IInv'
<1> SUFFICES ASSUME IInv, [Next]_vars PROVE IInv'
  OBVIOUS
<1>1. Types'
  BY NextTypes
<1>2. CountsFit' /\ NoLaterSuccess'
  BY <1>1, NextCounts
<1>3. CodesAreOwn' /\ CalmIsExact' /\ AlertsAreDue' /\ PassedWhenCalm'
  BY <1>1, NextCodes, NextCalm, NextAlerts, NextPassed
<1>. QED BY <1>1, <1>2, <1>3 DEF IInv

(* The inductive invariant holds in every reachable state. *)
THEOREM Invariance == Spec => []IInv
  BY InitIInv, NextIInv, PTL DEF Spec

(* Every variable has its type; no streak counts more failures than         *)
(* processes were started (health.Store.Record).                            *)
THEOREM TypeCorrect == Spec => []TypeOK
<1>1. IInv => TypeOK
  <2> SUFFICES ASSUME IInv PROVE TypeOK
    OBVIOUS
  <2>1. bad \in 0 .. MaxRuns
    BY CountTypes, BoundsAssumption DEF IInv, CountsFit
  <2>. QED BY <2>1 DEF IInv, Types, TypeOK
<1>. QED BY <1>1, Invariance, PTL

(* Between runs that nothing disturbed the file holds the time of the last  *)
(* success, and the length of the streak on one host, no streak under       *)
(* Actions, whichever processes they were (health.Store.Record, the cache   *)
(* steps of daily-fetch.yml).                                               *)
THEOREM SignalExact == Spec => []SignalIsExact
<1>1. IInv => SignalIsExact
  <2> SUFFICES ASSUME IInv, calm, \A p \in Runs : pc[p] = "idle"
               PROVE  \/ files[Shared] = Absent /\ (IF hosted THEN started = 0 ELSE good = Never)
                      \/ /\ files[Shared] \in Snapshots /\ files[Shared].successAt = good
                         /\ files[Shared].fails = IF hosted THEN bad ELSE 0
    BY DEF SignalIsExact
  <2>1. /\ files[Shared] # Torn /\ Tells(Base(files[Shared]), Kept)
        /\ hosted /\ files[Shared] = Absent => started = 0
    BY DEF IInv, CalmIsExact
  <2>2. files[Shared] \in Files
    BY DEF IInv, Types
  <2>. QED BY <2>1, <2>2 DEF Files, Tells, Kept, Base, Unwritten
<1>. QED BY <1>1, Invariance, PTL

(* An alert comes, on one host, on the first failure and at each multiple   *)
(* of the threshold, under Actions on every failure, and at no other time.  *)
(* It comes to the channels in their order, all of them or those up to the  *)
(* first that hangs, for any number of channels (runScheduleMode,           *)
(* notifier.Multi).                                                         *)
THEOREM AlertsFollow == Spec => []AlertsFollowStreak
<1>1. IInv => AlertsFollowStreak
  <2> SUFFICES ASSUME IInv, NEW p \in Runs, calm, pc[p] = "gate"
               PROVE  IF outcome[p] # "success" /\ (hosted => AlertDue(bad))
                      THEN CalledInOrder(p, Senders) ELSE tried[p] = {} /\ starved[p] = {}
    BY DEF AlertsFollowStreak
  <2>1. AlertDue(1)
    BY DEF AlertDue
  <2>2. Alerts(p) <=> outcome[p] # "success" /\ (hosted => AlertDue(bad))
    BY <2>1 DEF Alerts, Counted
  <2>. QED BY <2>2 DEF IInv, AlertsAreDue
<1>. QED BY <1>1, Invariance, PTL

(* A process that produced nothing never exits with 0, whatever others do   *)
(* to the file; undisturbed, one that did produce output does               *)
(* (runScheduleMode's gate).                                                *)
THEOREM ExitCodesTrue == Spec => []ExitCodeIsTrue
<1>1. IInv => ExitCodeIsTrue
  BY DEF IInv, CodesAreOwn, PassedWhenCalm, ExitCodeIsTrue
<1>. QED BY <1>1, Invariance, PTL

(* GET /health answers 200 only while some run has produced output within   *)
(* the freshness limit, through any overlap, crash or loss (health.Check).  *)
THEOREM HealthHonest == Spec => []HealthIsHonest
<1>1. IInv => HealthIsHonest
  <2> SUFFICES ASSUME IInv, NEW db, NEW llmKey, NEW cacheReadable,
                      HealthReply(db, llmKey, cacheReadable) = 200
               PROVE  good # Never /\ now - good <= MaxAge
    BY DEF HealthIsHonest
  <2>1. Healthy(files[Shared])
    BY DEF HealthReply
  <2>2. /\ files[Shared] \in Snapshots /\ files[Shared].successAt # Never
        /\ now - files[Shared].successAt <= MaxAge /\ files[Shared].successAt <= good
    BY <2>1 DEF Healthy, IInv, NoLaterSuccess
  <2>3. files[Shared].successAt \in Times /\ good \in Times /\ now \in Nat
    BY <2>2, BoundsAssumption DEF Snapshots, IInv, Types
  <2>. QED BY <2>2, <2>3, BoundsAssumption DEF Times, Never
<1>. QED BY <1>1, Invariance, PTL
=============================================================================
