------------------------------ MODULE FetchApi ------------------------------
(***************************************************************************)
(* Pipeline runs started over HTTP (src/internal/api/handler.go):          *)
(* TriggerFetch and StreamFetch take the single pipeline slot and start a  *)
(* worker goroutine; StreamFetch's handler forwards the worker's progress  *)
(* events from a bounded channel to the client; GetFetchStatus reads the   *)
(* in-memory results, the slot and the run log, each under its own lock.   *)
(***************************************************************************)
EXTENDS Integers

CONSTANTS
    Runs,           \* run identifiers (uuid.New: never used twice)
    Readers,        \* GetFetchStatus requests that may be open at once
    NoRun,          \* activeRunID = ""
    Cap,            \* capacity of eventCh
    MaxEvents,      \* bound: progress events of a run before its last one
    StoreEnabled,   \* DATABASE_DSN is set
    MaxRestarts     \* bound: process restarts

ASSUME NoRunAssumption == NoRun \notin Runs
ASSUME ApiAssumption ==
    Cap \in Nat \ {0} /\ MaxEvents \in Nat /\ MaxRestarts \in Nat /\ StoreEnabled \in BOOLEAN

VARIABLES
    pipelineRunning, activeRunID,   \* the slot, under pipelineMu
    worker,      \* stage of each run's goroutine
    streamed,    \* runs started by StreamFetch
    handler,     \* StreamFetch's own goroutine
    ctxDone,     \* runs whose context is cancelled or timed out
    sent,        \* progress events emitted so far
    queue,       \* events in eventCh
    runs,        \* in-memory results, under runsMu
    logs,        \* runs with a run_logs row
    step, asked, \* GetFetchStatus: next step and run_id of each request
    told,        \* history: some client had been told that it has finished
    seenDone,    \* history: runs some client was told had finished
    restarts

slot    == <<pipelineRunning, activeRunID>>
stream  == <<streamed, handler, ctxDone, sent, queue>>
status  == <<step, asked, told, seenDone>>
apiVars == <<slot, worker, stream, runs, logs, status, restarts>>

ApiInit ==
    /\ pipelineRunning = FALSE /\ activeRunID = NoRun
    /\ worker = [r \in Runs |-> "none"]
    /\ streamed = {} /\ ctxDone = {}
    /\ handler = [r \in Runs |-> "none"]
    /\ sent = [r \in Runs |-> 0] /\ queue = [r \in Runs |-> 0]
    /\ runs = {} /\ logs = {}
    /\ step = [q \in Readers |-> "idle"] /\ asked = [q \in Readers |-> NoRun]
    /\ told = [q \in Readers |-> FALSE]
    /\ seenDone = {}
    /\ restarts = 0

Goto(r, stage) == worker' = [worker EXCEPT ![r] = stage]

(* TriggerFetch, or StreamFetch when streaming: test and take the slot in   *)
(* one critical section.  A request that finds it taken changes nothing.    *)
StartUnguarded(r, streaming) ==                                   \* mutant: test dropped
    /\ worker[r] = "none"
    /\ pipelineRunning' = TRUE /\ activeRunID' = r
    /\ Goto(r, "stages")
    /\ streamed' = IF streaming THEN streamed \cup {r} ELSE streamed
    /\ handler' = [handler EXCEPT ![r] = IF streaming THEN "reading" ELSE @]
    /\ UNCHANGED <<ctxDone, sent, queue, runs, logs, status, restarts>>
Start(r, streaming) ==
    /\ worker[r] = "none"
    /\ ~pipelineRunning
    /\ pipelineRunning' = TRUE /\ activeRunID' = r
    /\ Goto(r, "stages")
    /\ streamed' = IF streaming THEN streamed \cup {r} ELSE streamed
    /\ handler' = [handler EXCEPT ![r] = IF streaming THEN "reading" ELSE @]
    /\ UNCHANGED <<ctxDone, sent, queue, runs, logs, status, restarts>>

-----------------------------------------------------------------------------
(* The worker *)

(* The emit callback: queue the event, or drop it once the context is done; *)
(* it blocks while neither is possible.  TriggerFetch passes no callback.   *)
EmitUnchecked(r) == queue' = [queue EXCEPT ![r] = @ + 1]          \* mutant: Cap ignored
EmitBlocking(r) ==                                                \* mutant: no ctx.Done case
    IF r \in streamed
    THEN queue[r] < Cap /\ queue' = [queue EXCEPT ![r] = @ + 1]
    ELSE UNCHANGED queue
Emit(r) ==
    IF r \in streamed
    THEN \/ queue[r] < Cap /\ queue' = [queue EXCEPT ![r] = @ + 1]
         \/ r \in ctxDone /\ UNCHANGED queue
    ELSE UNCHANGED queue

Progress(r) ==
    /\ worker[r] = "stages" /\ sent[r] < MaxEvents
    /\ Emit(r)
    /\ sent' = [sent EXCEPT ![r] = @ + 1]
    /\ UNCHANGED <<slot, worker, streamed, handler, ctxDone, runs, logs, status, restarts>>

(* The stages end: a run that aborted or fetched nothing writes no run log; *)
(* a full one tries to, in the run's own context, and ignores the error.    *)
EndStages(r, how, saved) ==
    /\ worker[r] = "stages"
    /\ how = "short" => ~saved
    /\ saved => StoreEnabled /\ r \notin ctxDone
    /\ logs' = IF saved THEN logs \cup {r} ELSE logs
    /\ sent' = [sent EXCEPT ![r] = 0]
    /\ Goto(r, "done")
    /\ UNCHANGED <<slot, streamed, handler, ctxDone, queue, runs, status, restarts>>

(* The last event: "done", or the fetch stage's error. *)
LastEvent(r) ==
    /\ worker[r] = "done"
    /\ Emit(r)
    /\ Goto(r, "recording")
    /\ UNCHANGED <<slot, streamed, handler, ctxDone, sent, runs, logs, status, restarts>>

RecordUnlessStreamed(r) ==                                        \* mutant
    /\ worker[r] = "recording"
    /\ runs' = IF r \in streamed THEN runs ELSE runs \cup {r}
    /\ Goto(r, "finishing")
    /\ UNCHANGED <<slot, stream, logs, status, restarts>>
Record(r) ==
    /\ worker[r] = "recording"
    /\ runs' = runs \cup {r}
    /\ Goto(r, "finishing")
    /\ UNCHANGED <<slot, stream, logs, status, restarts>>

(* finishPipeline *)
FinishPipeline(r) ==
    /\ worker[r] = "finishing"
    /\ IF activeRunID = r
       THEN pipelineRunning' = FALSE /\ activeRunID' = NoRun
       ELSE UNCHANGED slot
    /\ Goto(r, "closing")
    /\ UNCHANGED <<stream, runs, logs, status, restarts>>

(* close(eventCh), for a streamed run; the goroutine ends. *)
Close(r) ==
    /\ worker[r] = "closing"
    /\ Goto(r, "gone")
    /\ UNCHANGED <<slot, stream, runs, logs, status, restarts>>

Work(r) ==
    \/ Progress(r)
    \/ \E how \in {"full", "short"}, saved \in BOOLEAN : EndStages(r, how, saved)
    \/ LastEvent(r)
    \/ Record(r)
    \/ FinishPipeline(r)
    \/ Close(r)

(* The fifteen minutes are over. *)
Timeout(r) ==
    /\ worker[r] = "stages" \/ worker[r] = "done"
    /\ r \notin ctxDone
    /\ ctxDone' = ctxDone \cup {r}
    /\ UNCHANGED <<slot, worker, streamed, handler, sent, queue, runs, logs, status, restarts>>

-----------------------------------------------------------------------------
(* StreamFetch's handler *)

Forward(r) ==
    /\ handler[r] = "reading" /\ queue[r] > 0
    /\ queue' = [queue EXCEPT ![r] = @ - 1]
    /\ UNCHANGED <<slot, worker, streamed, handler, ctxDone, sent, runs, logs, status, restarts>>

(* It returns when the channel is closed and empty, or at any time when the *)
(* client is gone, and its deferred cancel ends the run's context.          *)
HandlerReturns(r, clientGone) ==
    /\ handler[r] = "reading"
    /\ clientGone \/ (worker[r] = "gone" /\ queue[r] = 0)
    /\ handler' = [handler EXCEPT ![r] = "returned"]
    /\ ctxDone' = ctxDone \cup {r}
    /\ UNCHANGED <<slot, worker, streamed, sent, queue, runs, logs, status, restarts>>

-----------------------------------------------------------------------------
(* GetFetchStatus *)

(* A client learns a run_id from the reply to the request that started it. *)
Ask(q, r) ==
    /\ step[q] = "idle"
    /\ worker[r] # "none"
    /\ step' = [step EXCEPT ![q] = "memory"]
    /\ asked' = [asked EXCEPT ![q] = r]
    /\ told' = [told EXCEPT ![q] = r \in seenDone]
    /\ UNCHANGED <<slot, worker, stream, runs, logs, seenDone, restarts>>

Reply(q, answer) ==
    /\ step' = [step EXCEPT ![q] = answer]
    /\ seenDone' = IF answer = "finished" THEN seenDone \cup {asked[q]} ELSE seenDone

ReadRunsOnce(q) ==                                                \* mutant: entry given once
    /\ step[q] = "memory"
    /\ Reply(q, IF asked[q] \in runs THEN "finished" ELSE "slot")
    /\ runs' = runs \ {asked[q]}
    /\ UNCHANGED <<slot, worker, stream, logs, asked, told, restarts>>
ReadRuns(q) ==
    /\ step[q] = "memory"
    /\ Reply(q, IF asked[q] \in runs THEN "finished" ELSE "slot")
    /\ UNCHANGED <<slot, worker, stream, runs, logs, asked, told, restarts>>

ReadSlot(q) ==
    /\ step[q] = "slot"
    /\ Reply(q, IF pipelineRunning /\ activeRunID = asked[q] THEN "running"
                ELSE IF StoreEnabled THEN "log" ELSE "missing")
    /\ UNCHANGED <<slot, worker, stream, runs, logs, asked, told, restarts>>

ReadLog(q, dbError) ==
    /\ step[q] = "log"
    /\ Reply(q, IF dbError THEN "error" ELSE IF asked[q] \in logs THEN "finished" ELSE "missing")
    /\ UNCHANGED <<slot, worker, stream, runs, logs, asked, told, restarts>>

Answers == {"finished", "running", "missing", "error"}

(* The reply is on its way; the request is over. *)
StatusAnswered(q) ==
    /\ step[q] \in Answers
    /\ step' = [step EXCEPT ![q] = "idle"]
    /\ asked' = [asked EXCEPT ![q] = NoRun]
    /\ told' = [told EXCEPT ![q] = FALSE]
    /\ UNCHANGED <<slot, worker, stream, runs, logs, seenDone, restarts>>

GetFetchStatus(q) ==
    \/ ReadRuns(q) \/ ReadSlot(q)
    \/ \E dbError \in BOOLEAN : ReadLog(q, dbError)
    \/ StatusAnswered(q)

-----------------------------------------------------------------------------
(* The process dies and starts again: only the run log is left. *)
ApiRestart ==
    /\ restarts < MaxRestarts
    /\ restarts' = restarts + 1
    /\ pipelineRunning' = FALSE /\ activeRunID' = NoRun
    /\ worker' = [r \in Runs |-> IF worker[r] = "none" THEN "none" ELSE "gone"]
    /\ handler' = [r \in Runs |-> IF handler[r] = "none" THEN "none" ELSE "returned"]
    /\ ctxDone' = {}
    /\ sent' = [r \in Runs |-> 0] /\ queue' = [r \in Runs |-> 0]
    /\ runs' = {}
    /\ step' = [q \in Readers |-> "idle"] /\ asked' = [q \in Readers |-> NoRun]
    /\ told' = [q \in Readers |-> FALSE]
    /\ UNCHANGED <<streamed, logs, seenDone>>

ApiNext ==
    \/ \E r \in Runs :
           \/ \E streaming \in BOOLEAN : Start(r, streaming)
           \/ Work(r)
           \/ Timeout(r)
           \/ Forward(r)
           \/ \E clientGone \in BOOLEAN : HandlerReturns(r, clientGone)
    \/ \E q \in Readers : (\E r \in Runs : Ask(q, r)) \/ GetFetchStatus(q)
    \/ ApiRestart

(* A worker that can go on does, and a run's deadline passes.  Nothing is   *)
(* assumed of a client: it may stop reading, stay, or leave.                *)
ApiFairness == \A r \in Runs : WF_apiVars(Work(r)) /\ WF_apiVars(Timeout(r))

ApiSpec == ApiInit /\ [][ApiNext]_apiVars

-----------------------------------------------------------------------------
Executing == {"stages", "done", "recording"}
Holding   == Executing \cup {"finishing"}
Stages    == Holding \cup {"none", "closing", "gone"}

(* Every variable has its type. *)
ApiTypeOK ==
    /\ pipelineRunning \in BOOLEAN /\ activeRunID \in Runs \cup {NoRun}
    /\ worker \in [Runs -> Stages]
    /\ streamed \subseteq Runs /\ ctxDone \subseteq Runs
    /\ handler \in [Runs -> {"none", "reading", "returned"}]
    /\ sent \in [Runs -> 0 .. MaxEvents] /\ queue \in [Runs -> 0 .. Cap]
    /\ runs \subseteq Runs /\ logs \subseteq Runs /\ seenDone \subseteq Runs
    /\ step \in [Readers -> {"idle", "memory", "slot", "log"} \cup Answers]
    /\ asked \in [Readers -> Runs \cup {NoRun}]
    /\ told \in [Readers -> BOOLEAN]
    /\ restarts \in 0 .. MaxRestarts

(* The slot is taken exactly when one worker has not yet released it, and   *)
(* it names that worker's run: no run starts while another executes, and no *)
(* slot stays taken by a run that is gone.                                  *)
SlotIsHeldByWorker ==
    \A r \in Runs : worker[r] \in Holding <=> pipelineRunning /\ activeRunID = r

(* Once a client has been told that a run has finished, no later request is *)
(* told that it is still running -- although a run has its result recorded  *)
(* for a while before it gives up the slot, and has its row in the log for  *)
(* longer.                                                                  *)
NeverBackToRunning == \A q \in Readers : step[q] = "running" => ~told[q]

(* Each taken slot is given up, whatever the client of a stream does.       *)
SlotIsReleased == \A r \in Runs : worker[r] \in Holding ~> ~(worker[r] \in Holding)

(* Runs execute one at a time and each once; see PipelineSlot. *)
Slot == INSTANCE PipelineSlot WITH
            started   <- {r \in Runs : worker[r] # "none"},
            executing <- {r \in Runs : worker[r] \in Executing},
            results   <- runs
SlotSpec == Slot!Spec
=============================================================================
