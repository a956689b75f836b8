----------------------------- MODULE ScheduleMode -----------------------------
(***************************************************************************)
(* Processes started with --mode=schedule (src/cmd/agent/main.go) and the  *)
(* run-health file they share (src/internal/health): each process runs the *)
(* pipeline once, records the result, alerts over the notification         *)
(* channels (src/internal/notifier) and passes or fails its gate.          *)
(* On one host all processes use the same file.  Under GitHub Actions      *)
(* (src/.github/workflows/daily-fetch.yml) a job restores a copy of the    *)
(* last saved file and saves its own at the end, if it succeeded.          *)
(* GET /health of a server reads the file too.                             *)
(***************************************************************************)
EXTENDS Integers

CONSTANTS
    Runs,         \* processes that may be alive at once
    Senders,      \* number of notification channels; they are tried in order
    Threshold,    \* FailureAlertThreshold, as main.go resolves it
    MinExpected,  \* MIN_EXPECTED_ITEMS, 0 when unset
    MaxFetched,   \* bound: items a run fetches
    MaxAge,       \* the freshness limit of 24 hours, in ticks of the clock
    MaxRuns,      \* bound: processes ever started
    MaxNow,       \* bound: clock
    Shared,       \* the file on the host, or in the cache of GitHub Actions
    Absent, Torn  \* a file that does not exist, and one that does not parse

ASSUME BoundsAssumption ==
    /\ Senders \in Nat /\ Threshold \in Nat \ {0} /\ MinExpected \in Nat
    /\ MaxFetched \in Nat /\ MaxAge \in Nat \ {0} /\ MaxRuns \in Nat /\ MaxNow \in Nat
ASSUME SharedAssumption == Shared \notin Runs

Never     == -1                                \* the zero time
Times     == {Never} \cup 0 .. MaxNow
Outcomes  == {"success", "failure", "empty"}
Snapshots == [outcome : Outcomes, fails : 0 .. MaxRuns, successAt : Times]
Unwritten == [outcome |-> "failure", fails |-> 0, successAt |-> Never]
Files     == Snapshots \cup {Absent, Torn}
ASSUME FilesAssumption == Absent # Torn /\ {Absent, Torn} \cap Snapshots = {}
Channels  == 1 .. Senders
Unknown   == "unknown"                         \* Snapshot{}.LastOutcome
Steps     == {"idle", "running", "digest", "record", "open", "flush", "alert", "gate", "save"}

VARIABLES
    now,                      \* the clock
    hosted,                   \* one host, or one virtual machine per run
    files,                    \* the shared file and each machine's copy
    pc, code,                 \* next step of each process, and its exit code
    outcome, finished,        \* result of its pipeline run, and when it finished
    prev,                     \* the snapshot it read
    said,                     \* LastOutcome of the snapshot Record returned
    channel, spent,           \* next channel of a fan-out; its deadline has passed
    tried, starved,           \* channels that had time, and those left without
    started,                  \* processes started so far
    bad, good, calm           \* history: failed runs in a row, end of the last
                              \* success, and no event so far that loses track of them

run    == <<outcome, finished>>
record == <<prev, said>>
fanout == <<channel, spent, tried, starved>>
truth  == <<bad, good, calm>>
vars   == <<now, hosted, files, pc, code, run, record, fanout, started, truth>>

Init ==
    /\ now = 0 /\ hosted \in BOOLEAN
    /\ files = [f \in Runs \cup {Shared} |-> Absent]
    /\ pc = [p \in Runs |-> "idle"] /\ code = [p \in Runs |-> "none"]
    /\ outcome = [p \in Runs |-> "empty"] /\ finished = [p \in Runs |-> 0]
    /\ prev = [p \in Runs |-> Unwritten]
    /\ said = [p \in Runs |-> Unknown]
    /\ channel = [p \in Runs |-> 1] /\ spent = [p \in Runs |-> FALSE]
    /\ tried = [p \in Runs |-> {}] /\ starved = [p \in Runs |-> {}]
    /\ started = 0
    /\ bad = 0 /\ good = Never /\ calm = TRUE

Path(p)     == IF hosted THEN Shared ELSE p
Others(p)   == {q \in Runs \ {p} : pc[q] # "idle"}
Disturbed   == calm' = FALSE /\ UNCHANGED <<bad, good>>
Goto(p, s)  == pc' = [pc EXCEPT ![p] = s]

-----------------------------------------------------------------------------
(* The pipeline *)

(* Mutant: a thin run gets an outcome of its own. *)
ThinOutcome(fatal, fetched, skipped) ==
    IF fatal THEN "failure" ELSE IF fetched < MinExpected THEN "thin" ELSE "success"

(* classify: too few items are as bad as none, and so is a run whose every  *)
(* item was skipped by the model.                                           *)
Classify(fatal, fetched, skipped) ==
    IF fatal                                       THEN "failure"
    ELSE IF fetched = 0 \/ fetched < MinExpected   THEN "empty"
    ELSE IF skipped >= fetched                     THEN "failure"
    ELSE "success"

(* The process starts; a job restores the file last saved. *)
Start(p) ==
    /\ pc[p] = "idle" /\ started < MaxRuns
    /\ started' = started + 1
    /\ Goto(p, "running")
    /\ code' = [code EXCEPT ![p] = "none"]
    /\ files' = IF hosted THEN files ELSE [files EXCEPT ![p] = files[Shared]]
    /\ calm' = (calm /\ Others(p) = {})
    /\ UNCHANGED <<now, hosted, run, record, fanout, bad, good>>

(* A fan-out begins at the first channel with a deadline of its own. *)
BeginFanout(p) ==
    /\ channel' = [channel EXCEPT ![p] = 1]
    /\ spent' = [spent EXCEPT ![p] = FALSE]
    /\ tried' = [tried EXCEPT ![p] = {}]
    /\ starved' = [starved EXCEPT ![p] = {}]

(* Run returns.  A digest goes out when articles passed. *)
Finish(p, fatal, fetched, skipped, passing) ==
    LET o == Classify(fatal, fetched, skipped) IN
    /\ pc[p] = "running"
    /\ fatal => fetched = 0
    /\ passing => fetched > skipped
    /\ outcome' = [outcome EXCEPT ![p] = o]
    /\ finished' = [finished EXCEPT ![p] = now]
    /\ bad' = IF o = "success" THEN 0 ELSE bad + 1
    /\ good' = IF o = "success" THEN now ELSE good
    /\ Goto(p, IF passing /\ Senders > 0 THEN "digest" ELSE "record")
    /\ BeginFanout(p)
    /\ UNCHANGED <<now, hosted, files, code, record, started, calm>>

-----------------------------------------------------------------------------
(* health.Store *)

(* Mutants: a counter that starts anew in each process; a failure that      *)
(* clears the freshness baseline.                                           *)
CounterPerProcess(p, old) ==
    IF outcome[p] = "success"
    THEN [outcome |-> "success", fails |-> 0, successAt |-> finished[p]]
    ELSE [outcome |-> outcome[p], fails |-> 1, successAt |-> old.successAt]
FailureClearsBaseline(p, old) ==
    IF outcome[p] = "success"
    THEN [outcome |-> "success", fails |-> 0, successAt |-> finished[p]]
    ELSE [outcome |-> outcome[p], fails |-> old.fails + 1, successAt |-> Never]

(* The next snapshot: a success resets the streak, a failure keeps the time *)
(* of the last success.                                                     *)
NextSnapshot(p, old) ==
    IF outcome[p] = "success"
    THEN [outcome |-> "success", fails |-> 0, successAt |-> finished[p]]
    ELSE [outcome |-> outcome[p], fails |-> old.fails + 1, successAt |-> old.successAt]

(* ConsecutiveFailure is 1 or a multiple of the threshold. *)
AlertDue(n) == n = 1 \/ n % Threshold = 0

(* Record has returned snapshot outcome o and streak n.  An alert has a     *)
(* deadline of its own, 30 seconds for all channels together.               *)
Recorded(p, o, n) ==
    /\ said' = [said EXCEPT ![p] = o]
    /\ Goto(p, IF o # "success" /\ Senders > 0 /\ AlertDue(n) THEN "alert" ELSE "gate")
    /\ BeginFanout(p)

(* Record's read.  A file that does not parse is left as it is. *)
Read(p) ==
    LET old == files[Path(p)] IN
    /\ pc[p] = "record"
    /\ IF old = Torn
       THEN Recorded(p, Unknown, 0) /\ UNCHANGED prev
       ELSE /\ prev' = [prev EXCEPT ![p] = IF old = Absent THEN Unwritten ELSE old]
            /\ Goto(p, "open")
            /\ UNCHANGED <<said, fanout>>
    /\ UNCHANGED <<now, hosted, files, code, run, started, truth>>

(* os.WriteFile creates or truncates the file ...                           *)
Open(p) ==
    /\ pc[p] = "open"
    /\ files' = [files EXCEPT ![Path(p)] = Torn]
    /\ Goto(p, "flush")
    /\ UNCHANGED <<now, hosted, code, run, record, fanout, started, truth>>

(* ... and writes it. *)
Flush(p) ==
    LET snap == NextSnapshot(p, prev[p]) IN
    /\ pc[p] = "flush"
    /\ files' = [files EXCEPT ![Path(p)] = snap]
    /\ Recorded(p, snap.outcome, snap.fails)
    /\ UNCHANGED <<now, hosted, code, run, prev, started, truth>>

(* Creating the directory, opening or writing the file failed. *)
WriteFailed(p) ==
    /\ pc[p] \in {"open", "flush"}
    /\ Recorded(p, Unknown, 0)
    /\ Disturbed
    /\ UNCHANGED <<now, hosted, files, code, run, prev, started>>

(* Mutant: no freshness limit. *)
HealthyForever(file) == file \in Snapshots /\ file.outcome = "success"

(* Check, for the gate and for GET /health. *)
Healthy(file) ==
    /\ file \in Snapshots
    /\ file.outcome = "success"
    /\ file.successAt # Never
    /\ now - file.successAt <= MaxAge

(* GET /health *)
HealthReply(db, llmKey, cacheReadable) ==
    IF db \in {"ok", "disabled"} /\ llmKey /\ cacheReadable /\ Healthy(files[Shared])
    THEN 200 ELSE 503

-----------------------------------------------------------------------------
(* notifier.Multi *)

(* A fan-out tries its channels in order.  A channel succeeds or fails, or  *)
(* hangs until the deadline that all channels share has passed, which       *)
(* leaves no time to the ones after it.  The result is only logged.         *)
Try(p, inTime, late) ==
    /\ pc[p] \in {"digest", "alert"}
    /\ channel' = [channel EXCEPT ![p] = @ + 1]
    /\ tried' = [tried EXCEPT ![p] = @ \cup inTime]
    /\ starved' = [starved EXCEPT ![p] = @ \cup late]
    /\ Goto(p, CASE channel[p] < Senders -> pc[p]
                 [] channel[p] = Senders -> IF pc[p] = "digest" THEN "record" ELSE "gate")
    /\ UNCHANGED <<now, hosted, files, code, run, record, started, truth>>

Answered(p) == ~spent[p] /\ Try(p, {channel[p]}, {}) /\ UNCHANGED spent
Hung(p)     == ~spent[p] /\ Try(p, {channel[p]}, {}) /\ spent' = [spent EXCEPT ![p] = TRUE]
NoTime(p)   == spent[p] /\ Try(p, {}, {channel[p]}) /\ UNCHANGED spent

-----------------------------------------------------------------------------
(* The exit code *)

(* The process is gone, with its locals. *)
Exit(p, c) ==
    /\ code' = [code EXCEPT ![p] = c]
    /\ Goto(p, IF hosted THEN "idle" ELSE "save")
    /\ finished' = [finished EXCEPT ![p] = 0]
    /\ prev' = [prev EXCEPT ![p] = Unwritten]
    /\ said' = [said EXCEPT ![p] = Unknown]
    /\ BeginFanout(p)
    /\ UNCHANGED <<now, hosted, outcome, started>>

(* Mutant: only the file is asked. *)
PassesByFile(p) == Healthy(files[Path(p)])

(* This run's own record decides first, then the file as it is now. *)
Passes(p) == said[p] = "success" /\ Healthy(files[Path(p)])
Gate(p) ==
    /\ pc[p] = "gate"
    /\ Exit(p, IF Passes(p) THEN "ok" ELSE "fail")
    /\ UNCHANGED <<files, truth>>

(* The job is over.  actions/cache keeps its file, in place of the one kept *)
(* before, in a step that runs only after a job that succeeded: the         *)
(* condition always() of the workflow's last cache step is about restoring. *)
Save(p) ==
    /\ pc[p] = "save" /\ code[p] = "ok"
    /\ files' = [files EXCEPT ![Shared] = IF files[p] = Absent THEN @ ELSE files[p], ![p] = Absent]
    /\ Goto(p, "idle")
    /\ UNCHANGED <<now, hosted, code, run, record, fanout, started, truth>>

DropFile(p) ==
    /\ files' = [files EXCEPT ![p] = Absent]
    /\ Goto(p, "idle")
    /\ UNCHANGED <<now, hosted, code, run, record, fanout, started>>

(* What a failed job wrote is gone with its machine. *)
NotSaved(p) ==
    /\ pc[p] = "save" /\ code[p] = "fail"
    /\ DropFile(p)
    /\ UNCHANGED truth

(* The process passed, but the save, or another step of the job, fails. *)
SaveLost(p) ==
    /\ pc[p] = "save" /\ code[p] = "ok"
    /\ DropFile(p)
    /\ Disturbed

(* The process crashes, or the job hits its hard limit. *)
Killed(p) ==
    /\ pc[p] \notin {"idle", "save"}
    /\ Exit(p, "fail")
    /\ Disturbed
    /\ UNCHANGED files

(* Someone removes the file, or the cache expires. *)
Evicted ==
    /\ files[Shared] # Absent
    /\ files' = [files EXCEPT ![Shared] = Absent]
    /\ Disturbed
    /\ UNCHANGED <<now, hosted, pc, code, run, record, fanout, started>>

(* Time passes; no process needs a whole tick after its run has finished. *)
Tick ==
    /\ now < MaxNow
    /\ \A p \in Runs : pc[p] \in {"idle", "running", "save"} \/ finished[p] = now
    /\ now' = now + 1
    /\ UNCHANGED <<hosted, files, pc, code, run, record, fanout, started, truth>>

Next ==
    \/ \E p \in Runs :
          \/ Start(p)
          \/ \E fatal, passing \in BOOLEAN, fetched \in 0 .. MaxFetched :
                \E skipped \in 0 .. fetched : Finish(p, fatal, fetched, skipped, passing)
          \/ Read(p) \/ Open(p) \/ Flush(p) \/ WriteFailed(p)
          \/ Answered(p) \/ Hung(p) \/ NoTime(p)
          \/ Gate(p) \/ Save(p) \/ NotSaved(p) \/ SaveLost(p) \/ Killed(p)
    \/ Evicted \/ Tick

Spec == Init /\ [][Next]_vars

-----------------------------------------------------------------------------
(* Properties *)

TypeOK ==
    /\ now \in 0 .. MaxNow /\ hosted \in BOOLEAN
    /\ files \in [Runs \cup {Shared} -> Files]
    /\ pc \in [Runs -> Steps] /\ code \in [Runs -> {"none", "ok", "fail"}]
    /\ outcome \in [Runs -> Outcomes] /\ finished \in [Runs -> 0 .. MaxNow]
    /\ prev \in [Runs -> Snapshots \cup {Unwritten}]
    /\ said \in [Runs -> Outcomes \cup {Unknown}]
    /\ channel \in [Runs -> 1 .. Senders + 1] /\ spent \in [Runs -> BOOLEAN]
    /\ tried \in [Runs -> SUBSET Channels] /\ starved \in [Runs -> SUBSET Channels]
    /\ started \in 0 .. MaxRuns
    /\ bad \in 0 .. MaxRuns /\ good \in Times /\ calm \in BOOLEAN

(* Between runs the file says when the last success finished, however many *)
(* processes failed since, and on one host how many those were.  Under     *)
(* Actions it never counts a failure, as only jobs that succeeded keep     *)
(* theirs.  Only overlapping runs, a crash, a failed write, a lost save or  *)
(* a removed file can make it wrong (health.Store.Record).                  *)
SignalIsExact ==
    calm /\ (\A p \in Runs : pc[p] = "idle") =>
        \/ files[Shared] = Absent /\ (IF hosted THEN started = 0 ELSE good = Never)
        \/ /\ files[Shared] \in Snapshots /\ files[Shared].successAt = good
           /\ files[Shared].fails = IF hosted THEN bad ELSE 0

(* Violated: a streak of failures survives the processes of GitHub Actions *)
(* (package comment of internal/health, README: the cache keeps            *)
(* run-health.json, or every process would start counting at zero).        *)
StreakSurvives ==
    calm /\ (\A p \in Runs : pc[p] = "idle") /\ bad > 0 =>
        files[Shared] \in Snapshots /\ files[Shared].fails = bad

(* The channels were called one after the other: all of them had their time *)
(* or the k-th one hung and used up the time of those after it.             *)
CalledInOrder(p, n) ==
    \E k \in 0 .. n : /\ tried[p] = 1 .. k /\ starved[p] = k + 1 .. n
                      /\ IF spent[p] THEN k >= 1 ELSE k = n

(* On one host an alert goes out on the first failure after a success and   *)
(* again each time the number of failed runs in a row reaches a multiple of *)
(* the threshold, and at no other time; under Actions on every failure,     *)
(* since each is the first one its job knows of (runScheduleMode).  It goes *)
(* to every channel up to the first that hangs.                             *)
AlertsFollowStreak ==
    \A p \in Runs : calm /\ pc[p] = "gate" =>
        IF outcome[p] # "success" /\ (hosted => AlertDue(bad)) THEN CalledInOrder(p, Senders)
        ELSE tried[p] = {} /\ starved[p] = {}

(* The exit code tells what the process did.  One that produced nothing     *)
(* never exits with 0, not even when another process has just recorded a    *)
(* success in the same file; and no failed run locks out the next ones:     *)
(* unless the file was lost or another process was in the way, a run that   *)
(* produced output exits with 0, whatever failed before it (the freshness   *)
(* gate of runScheduleMode; Record keeps the freshness baseline).           *)
ExitCodeIsTrue ==
    \A p \in Runs :
        /\ code[p] = "ok" => outcome[p] = "success"
        /\ calm /\ pc[p] \in {"idle", "save"} /\ code[p] # "none" /\ outcome[p] = "success" =>
               code[p] = "ok"

(* GET /health answers 200 only while some run did produce output within    *)
(* the freshness limit, whatever overlapped, crashed or was lost.           *)
HealthIsHonest ==
    \A db \in {"ok", "error", "disabled"}, llmKey, cacheReadable \in BOOLEAN :
        HealthReply(db, llmKey, cacheReadable) = 200 => good # Never /\ now - good <= MaxAge
=============================================================================
