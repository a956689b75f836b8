--------------------------- MODULE FetchApi_proofs ---------------------------
(***************************************************************************)
(* Proofs about FetchApi, for any runs, status requests, channel capacity  *)
(* and number of restarts: one run at a time holds the slot, the API       *)
(* implements PipelineSlot, and no client is told that a run is running    *)
(* after some client was told that it had finished.                        *)
(***************************************************************************)
EXTENDS FetchApi, TLAPS

-----------------------------------------------------------------------------
(* The initial values have their types. *)
LEMMA InitTypeOK == ApiInit => ApiTypeOK
<1> SUFFICES ASSUME ApiInit PROVE ApiTypeOK
  OBVIOUS
<1>1. 0 \in 0 .. MaxEvents /\ 0 \in 0 .. Cap /\ 0 \in 0 .. MaxRestarts
  BY ApiAssumption
<1>2. sent \in [Runs -> 0 .. MaxEvents] /\ queue \in [Runs -> 0 .. Cap]
  BY <1>1 DEF ApiInit
<1>3. worker \in [Runs -> Stages] /\ handler \in [Runs -> {"none", "reading", "returned"}]
  BY DEF ApiInit, Stages
<1>. QED
  BY <1>1, <1>2, <1>3 DEF ApiInit, ApiTypeOK, Answers

(* Every step preserves the types: in particular it queues no event beyond  *)
(* the channel's capacity.                                                  *)
LEMMA NextTypeOK == ApiTypeOK /\ [ApiNext]_apiVars => ApiTypeOK'
<1> SUFFICES ASSUME ApiTypeOK, [ApiNext]_apiVars PROVE ApiTypeOK'
  OBVIOUS
<1> USE ApiAssumption DEF ApiTypeOK, Stages, Holding, Executing, Answers, slot, stream, status, Goto, Reply
<1>1. ASSUME NEW r \in Runs, NEW streaming \in BOOLEAN, Start(r, streaming) PROVE ApiTypeOK'
  BY <1>1 DEF Start
<1>2. ASSUME NEW r \in Runs, Progress(r) PROVE ApiTypeOK'
  <2>1. queue' \in [Runs -> 0 .. Cap]
    BY <1>2 DEF Progress, Emit
  <2>2. sent' \in [Runs -> 0 .. MaxEvents]
    BY <1>2 DEF Progress
  <2>. QED BY <1>2, <2>1, <2>2 DEF Progress
<1>3. ASSUME NEW r \in Runs, NEW how \in {"full", "short"}, NEW saved \in BOOLEAN,
             EndStages(r, how, saved)
      PROVE  ApiTypeOK'
  BY <1>3 DEF EndStages
<1>4. ASSUME NEW r \in Runs, LastEvent(r) PROVE ApiTypeOK'
  <2>1. queue' \in [Runs -> 0 .. Cap]
    BY <1>4 DEF LastEvent, Emit
  <2>. QED BY <1>4, <2>1 DEF LastEvent
<1>5. ASSUME NEW r \in Runs, Record(r) PROVE ApiTypeOK'
  BY <1>5 DEF Record
<1>6. ASSUME NEW r \in Runs, FinishPipeline(r) PROVE ApiTypeOK'
  BY <1>6 DEF FinishPipeline
<1>7. ASSUME NEW r \in Runs, Close(r) PROVE ApiTypeOK'
  BY <1>7 DEF Close
<1>8. ASSUME NEW r \in Runs, Timeout(r) PROVE ApiTypeOK'
  BY <1>8 DEF Timeout
<1>9. ASSUME NEW r \in Runs, Forward(r) PROVE ApiTypeOK'
  <2>1. queue' \in [Runs -> 0 .. Cap]
    BY <1>9 DEF Forward
  <2>. QED BY <1>9, <2>1 DEF Forward
<1>10. ASSUME NEW r \in Runs, NEW clientGone \in BOOLEAN, HandlerReturns(r, clientGone)
       PROVE  ApiTypeOK'
  BY <1>10 DEF HandlerReturns
<1>11. ASSUME NEW q \in Readers, NEW r \in Runs, Ask(q, r) PROVE ApiTypeOK'
  BY <1>11 DEF Ask
<1>12. ASSUME NEW q \in Readers, ReadRuns(q) PROVE ApiTypeOK'
  BY <1>12 DEF ReadRuns
<1>13. ASSUME NEW q \in Readers, ReadSlot(q) PROVE ApiTypeOK'
  BY <1>13 DEF ReadSlot
<1>14. ASSUME NEW q \in Readers, NEW dbError \in BOOLEAN, ReadLog(q, dbError) PROVE ApiTypeOK'
  BY <1>14 DEF ReadLog
<1>15. ASSUME NEW q \in Readers, StatusAnswered(q) PROVE ApiTypeOK'
  BY <1>15 DEF StatusAnswered
<1>16. CASE ApiRestart
  <2>1. sent' \in [Runs -> 0 .. MaxEvents] /\ queue' \in [Runs -> 0 .. Cap]
    BY <1>16 DEF ApiRestart
  <2>2. restarts' \in 0 .. MaxRestarts
    BY <1>16 DEF ApiRestart
  <2>3. worker' \in [Runs -> Stages] /\ handler' \in [Runs -> {"none", "reading", "returned"}]
    BY <1>16 DEF ApiRestart
  <2>. QED BY <1>16, <2>1, <2>2, <2>3 DEF ApiRestart
<1>17. CASE UNCHANGED apiVars
  BY <1>17 DEF apiVars
<1>. QED
  BY <1>1, <1>2, <1>3, <1>4, <1>5, <1>6, <1>7, <1>8, <1>9, <1>10, <1>11, <1>12, <1>13,
     <1>14, <1>15, <1>16, <1>17 DEF ApiNext, Work, GetFetchStatus

(* The variables keep their types: no event is queued beyond the channel's  *)
(* capacity, and no request holds the id of a run that does not exist.      *)
THEOREM TypeCorrect == ApiSpec => []ApiTypeOK
  BY InitTypeOK, NextTypeOK, PTL DEF ApiSpec
-----------------------------------------------------------------------------
Released == {"closing", "gone"}
Over     == {"finishing"} \cup Released

(* A run's result is in memory from the moment it stops executing until it  *)
(* has at least given up the slot, and never before it stops.               *)
ResultsAreOfOverRuns ==
    \A r \in Runs : /\ r \in runs => worker[r] \in Over
                    /\ worker[r] \in Over \ {"gone"} => r \in runs

(* What clients were told, and the request q, agree with the workers: a run *)
(* told to have finished is over; a request that has gone past the slot, or *)
(* past the results for a run it must know as finished, asks about a run    *)
(* that no longer holds the slot.                                           *)
RequestFollows(q) ==
    /\ step[q] # "idle" => asked[q] \in Runs /\ worker[asked[q]] # "none"
    /\ step[q] = "log" => worker[asked[q]] \in Released
    /\ told[q] => step[q] # "idle" /\ asked[q] \in seenDone
    /\ told[q] /\ step[q] = "slot" => worker[asked[q]] \in Released
RequestsFollow ==
    /\ \A r \in seenDone : worker[r] \in Over
    /\ \A q \in Readers : RequestFollows(q)

(* The inductive invariant. *)
IInv ==
    /\ ApiTypeOK /\ SlotIsHeldByWorker /\ ResultsAreOfOverRuns /\ RequestsFollow
    /\ NeverBackToRunning

(* The initial state satisfies it. *)
LEMMA InitIInv == ApiInit => IInv
<1> SUFFICES ASSUME ApiInit PROVE IInv
  OBVIOUS
<1>1. ApiTypeOK
  BY InitTypeOK
<1>2. SlotIsHeldByWorker /\ ResultsAreOfOverRuns
  BY DEF ApiInit, SlotIsHeldByWorker, ResultsAreOfOverRuns, Holding, Executing, Over, Released
<1>3. RequestsFollow /\ NeverBackToRunning
  BY DEF ApiInit, RequestsFollow, RequestFollows, NeverBackToRunning
<1>. QED
  BY <1>1, <1>2, <1>3 DEF IInv

(* Every step preserves it.  The workers' part: a run is started only when  *)
(* the slot is free, so only one worker holds it, and that one releases it. *)
LEMMA NextWorkers ==
    ApiTypeOK /\ SlotIsHeldByWorker /\ ResultsAreOfOverRuns /\ [ApiNext]_apiVars
      => SlotIsHeldByWorker' /\ ResultsAreOfOverRuns'
<1> SUFFICES ASSUME ApiTypeOK, SlotIsHeldByWorker, ResultsAreOfOverRuns, [ApiNext]_apiVars
             PROVE  SlotIsHeldByWorker' /\ ResultsAreOfOverRuns'
  OBVIOUS
<1> USE DEF SlotIsHeldByWorker, ResultsAreOfOverRuns, Holding, Executing, Over, Released, slot, Goto
<1>1. worker \in [Runs -> Stages] /\ runs \subseteq Runs /\ activeRunID \in Runs \cup {NoRun}
  BY DEF ApiTypeOK
<1>2. ASSUME NEW r \in Runs, NEW streaming \in BOOLEAN, Start(r, streaming)
      PROVE  SlotIsHeldByWorker' /\ ResultsAreOfOverRuns'
  BY <1>1, <1>2 DEF Start
<1>3. ASSUME NEW r \in Runs, NEW how \in {"full", "short"}, NEW saved \in BOOLEAN,
             EndStages(r, how, saved)
      PROVE  SlotIsHeldByWorker' /\ ResultsAreOfOverRuns'
  BY <1>1, <1>3 DEF EndStages
<1>4. ASSUME NEW r \in Runs, LastEvent(r)
      PROVE  SlotIsHeldByWorker' /\ ResultsAreOfOverRuns'
  BY <1>1, <1>4 DEF LastEvent
<1>5. ASSUME NEW r \in Runs, Record(r)
      PROVE  SlotIsHeldByWorker' /\ ResultsAreOfOverRuns'
  BY <1>1, <1>5 DEF Record
<1>6. ASSUME NEW r \in Runs, FinishPipeline(r)
      PROVE  SlotIsHeldByWorker' /\ ResultsAreOfOverRuns'
  BY <1>1, <1>6 DEF FinishPipeline
<1>7. ASSUME NEW r \in Runs, Close(r)
      PROVE  SlotIsHeldByWorker' /\ ResultsAreOfOverRuns'
  BY <1>1, <1>7 DEF Close
<1>8. CASE ApiRestart
  BY <1>1, <1>8 DEF ApiRestart
<1>9. CASE UNCHANGED <<slot, worker, runs>>
  BY <1>9
<1>10. CASE \E r \in Runs : Progress(r) \/ Timeout(r) \/ Forward(r)
                          \/ \E clientGone \in BOOLEAN : HandlerReturns(r, clientGone)
  BY <1>9, <1>10 DEF Progress, Timeout, Forward, HandlerReturns
<1>11. CASE \E q \in Readers : (\E r \in Runs : Ask(q, r)) \/ GetFetchStatus(q)
  BY <1>9, <1>11 DEF Ask, GetFetchStatus, ReadRuns, ReadSlot, ReadLog, StatusAnswered
<1>. QED
  BY <1>2, <1>3, <1>4, <1>5, <1>6, <1>7, <1>8, <1>9, <1>10, <1>11 DEF ApiNext, Work, apiVars

(* No run's worker goes back: once over it stays over, once it has released *)
(* the slot it never holds it again, once started it is never unstarted.    *)
LEMMA WorkersGoOn ==
    ASSUME ApiTypeOK, [ApiNext]_apiVars, NEW r \in Runs
    PROVE  /\ worker[r] # "none" => worker'[r] # "none"
           /\ worker[r] \in Over => worker'[r] \in Over
           /\ worker[r] \in Released => worker'[r] \in Released
<1> USE DEF Over, Released, Goto
<1>1. worker \in [Runs -> Stages]
  BY DEF ApiTypeOK
<1>2. CASE \E x \in Runs, streaming \in BOOLEAN : Start(x, streaming)
  BY <1>1, <1>2 DEF Start
<1>3. CASE \E x \in Runs : Work(x)
  BY <1>1, <1>3 DEF Work, Progress, EndStages, LastEvent, Record, FinishPipeline, Close
<1>4. CASE ApiRestart
  BY <1>1, <1>4 DEF ApiRestart
<1>5. CASE UNCHANGED worker
  BY <1>5
<1>6. CASE \E x \in Runs : Timeout(x) \/ Forward(x)
                         \/ \E clientGone \in BOOLEAN : HandlerReturns(x, clientGone)
  BY <1>5, <1>6 DEF Timeout, Forward, HandlerReturns
<1>7. CASE \E q \in Readers : (\E x \in Runs : Ask(q, x)) \/ GetFetchStatus(q)
  BY <1>5, <1>7 DEF Ask, GetFetchStatus, ReadRuns, ReadSlot, ReadLog, StatusAnswered
<1>. QED
  BY <1>2, <1>3, <1>4, <1>5, <1>6, <1>7 DEF ApiNext, apiVars

(* The requests' part.  A request that leaves the slot for the log saw that *)
(* a started run does not hold it; one that leaves the results for the slot *)
(* although it was told of the end did not find a result that a run has     *)
(* until it releases the slot.                                              *)
LEMMA NextRequests == IInv /\ [ApiNext]_apiVars => RequestsFollow' /\ NeverBackToRunning'
<1> SUFFICES ASSUME IInv, [ApiNext]_apiVars PROVE RequestsFollow' /\ NeverBackToRunning'
  OBVIOUS
<1> USE DEF RequestsFollow, RequestFollows, NeverBackToRunning
<1>1. /\ worker \in [Runs -> Stages] /\ seenDone \subseteq Runs
      /\ step \in [Readers -> {"idle", "memory", "slot", "log"} \cup Answers]
      /\ asked \in [Readers -> Runs \cup {NoRun}] /\ told \in [Readers -> BOOLEAN]
  BY DEF IInv, ApiTypeOK
<1>2. /\ RequestsFollow /\ NeverBackToRunning
      /\ SlotIsHeldByWorker /\ ResultsAreOfOverRuns
  BY DEF IInv
<1>3. \A r \in Runs : /\ worker[r] # "none" => worker'[r] # "none"
                      /\ worker[r] \in Over => worker'[r] \in Over
                      /\ worker[r] \in Released => worker'[r] \in Released
  BY WorkersGoOn DEF IInv
<1>4. CASE UNCHANGED status
  BY <1>1, <1>2, <1>3, <1>4 DEF status
<1>5. ASSUME NEW q \in Readers, NEW r \in Runs, Ask(q, r)
      PROVE  RequestsFollow' /\ NeverBackToRunning'
  BY <1>1, <1>2, <1>3, <1>5 DEF Ask
<1>6. ASSUME NEW q \in Readers, ReadRuns(q)
      PROVE  RequestsFollow' /\ NeverBackToRunning'
  <2>1. asked[q] \in Runs
    BY <1>2, <1>6 DEF ReadRuns
  <2>2. asked[q] \in runs => worker[asked[q]] \in Over
    BY <1>2, <2>1 DEF ResultsAreOfOverRuns
  <2>3. told[q] /\ asked[q] \notin runs => worker[asked[q]] \in Released
    BY <1>2, <2>1 DEF ResultsAreOfOverRuns, Over, Released
  <2>4. UNCHANGED worker
    BY <1>6 DEF ReadRuns
  <2>. QED
    BY <1>1, <1>2, <1>6, <2>1, <2>2, <2>3, <2>4 DEF ReadRuns, Reply
<1>7. ASSUME NEW q \in Readers, ReadSlot(q)
      PROVE  RequestsFollow' /\ NeverBackToRunning'
  <2>1. asked[q] \in Runs /\ worker[asked[q]] # "none"
    BY <1>2, <1>7 DEF ReadSlot
  <2>2. ~(pipelineRunning /\ activeRunID = asked[q]) => worker[asked[q]] \in Released
    BY <1>1, <1>2, <2>1 DEF SlotIsHeldByWorker, Released, Stages, Holding
  <2>3. told[q] => ~(pipelineRunning /\ activeRunID = asked[q])
    BY <1>2, <1>7, <2>1 DEF ReadSlot, SlotIsHeldByWorker, Released, Holding, Executing
  <2>4. UNCHANGED worker
    BY <1>7 DEF ReadSlot
  <2>. QED
    BY <1>1, <1>2, <1>7, <2>1, <2>2, <2>3, <2>4 DEF ReadSlot, Reply
<1>8. ASSUME NEW q \in Readers, NEW dbError \in BOOLEAN, ReadLog(q, dbError)
      PROVE  RequestsFollow' /\ NeverBackToRunning'
  <2>1. asked[q] \in Runs /\ worker[asked[q]] \in Over
    BY <1>2, <1>8 DEF ReadLog, Over
  <2>2. UNCHANGED worker
    BY <1>8 DEF ReadLog
  <2>. QED
    BY <1>1, <1>2, <1>8, <2>1, <2>2 DEF ReadLog, Reply
<1>9. ASSUME NEW q \in Readers, StatusAnswered(q)
      PROVE  RequestsFollow' /\ NeverBackToRunning'
  BY <1>1, <1>2, <1>3, <1>9 DEF StatusAnswered
<1>10. CASE ApiRestart
  BY <1>1, <1>2, <1>3, <1>10 DEF ApiRestart
<1>11. CASE \E r \in Runs : \/ \E streaming \in BOOLEAN : Start(r, streaming)
                          \/ Work(r) \/ Timeout(r) \/ Forward(r)
                          \/ \E clientGone \in BOOLEAN : HandlerReturns(r, clientGone)
  BY <1>4, <1>11 DEF Start, Work, Progress, EndStages, LastEvent, Record, FinishPipeline,
                     Close, Timeout, Forward, HandlerReturns, stream
<1>. QED
  BY <1>4, <1>5, <1>6, <1>7, <1>8, <1>9, <1>10, <1>11 DEF ApiNext, GetFetchStatus, apiVars

(* The inductive invariant holds in every state. *)
THEOREM Invariance == ApiSpec => []IInv
<1>1. IInv /\ [ApiNext]_apiVars => IInv'
  BY NextTypeOK, NextWorkers, NextRequests DEF IInv
<1>. QED
  BY InitIInv, <1>1, PTL DEF ApiSpec

(* The slot is taken exactly while one worker has not released it, and it   *)
(* names that worker's run (TriggerFetch, StreamFetch, finishPipeline).     *)
THEOREM SlotHeld == ApiSpec => []SlotIsHeldByWorker
<1>1. IInv => SlotIsHeldByWorker
  BY DEF IInv
<1>. QED
  BY Invariance, <1>1, PTL

(* GetFetchStatus never tells a client that a run is running after it told  *)
(* some client that it had finished, although it reads the results, the     *)
(* slot and the log at three different moments.                             *)
THEOREM StatusGoesForward == ApiSpec => []NeverBackToRunning
<1>1. IInv => NeverBackToRunning
  BY DEF IInv
<1>. QED
  BY Invariance, <1>1, PTL

-----------------------------------------------------------------------------
(* Implementation of PipelineSlot *)

startedRuns   == {r \in Runs : worker[r] # "none"}
executingRuns == {r \in Runs : worker[r] \in Executing}

(* Each step is a step of PipelineSlot or leaves its variables alone: only  *)
(* Start, Record and ApiRestart change them.                                *)
LEMMA SlotStep == IInv /\ [ApiNext]_apiVars => [Slot!Next]_<<startedRuns, executingRuns, runs>>
<1> SUFFICES ASSUME IInv, [ApiNext]_apiVars
             PROVE  [Slot!Next]_<<startedRuns, executingRuns, runs>>
  OBVIOUS
<1> USE DEF startedRuns, executingRuns, Executing
<1>1. /\ worker \in [Runs -> Stages] /\ runs \subseteq Runs
      /\ \A r \in Runs : worker[r] \in Holding <=> pipelineRunning /\ activeRunID = r
  BY DEF IInv, ApiTypeOK, SlotIsHeldByWorker
<1>2. ASSUME NEW r \in Runs, NEW streaming \in BOOLEAN, Start(r, streaming)
      PROVE  Slot!Start(r)
  <2>1. \A x \in Runs : worker[x] \notin Executing
    BY <1>1, <1>2 DEF Start, Holding
  <2>2. worker' = [worker EXCEPT ![r] = "stages"] /\ worker[r] = "none" /\ UNCHANGED runs
    BY <1>2 DEF Start, Goto
  <2>3. executingRuns = {} /\ r \notin startedRuns
    BY <2>1, <2>2
  <2>4. startedRuns' = startedRuns \cup {r}
    BY <1>1, <2>2
  <2>5. executingRuns' = {r}
    BY <1>1, <2>1, <2>2
  <2>. QED
    BY <2>2, <2>3, <2>4, <2>5 DEF Slot!Start
<1>3. ASSUME NEW r \in Runs, Record(r)
      PROVE  Slot!Finish(r)
  <2>1. worker' = [worker EXCEPT ![r] = "finishing"] /\ worker[r] = "recording"
        /\ runs' = runs \cup {r}
    BY <1>3 DEF Record, Goto
  <2>2. \A x \in Runs : worker[x] \in Executing => x = r
    BY <1>1, <2>1 DEF Holding
  <2>3. executingRuns = {r}
    BY <2>1, <2>2
  <2>4. executingRuns' = {}
    BY <1>1, <2>1, <2>2
  <2>5. UNCHANGED startedRuns
    BY <1>1, <2>1
  <2>. QED
    BY <2>1, <2>3, <2>4, <2>5 DEF Slot!Finish
<1>4. ASSUME ApiRestart PROVE Slot!Restart
  BY <1>1, <1>4 DEF ApiRestart, Slot!Restart
<1>5. ASSUME NEW r \in Runs,
             \/ \E how \in {"full", "short"}, saved \in BOOLEAN : EndStages(r, how, saved)
             \/ LastEvent(r) \/ FinishPipeline(r) \/ Close(r)
      PROVE  UNCHANGED <<startedRuns, executingRuns, runs>>
  BY <1>1, <1>5 DEF EndStages, LastEvent, FinishPipeline, Close, Goto, stream
<1>6. ASSUME UNCHANGED <<worker, runs>>
      PROVE  UNCHANGED <<startedRuns, executingRuns, runs>>
  BY <1>6
<1>7. CASE \E r \in Runs : Progress(r) \/ Timeout(r) \/ Forward(r)
                          \/ \E clientGone \in BOOLEAN : HandlerReturns(r, clientGone)
  BY <1>6, <1>7 DEF Progress, Timeout, Forward, HandlerReturns
<1>8. CASE \E q \in Readers : (\E r \in Runs : Ask(q, r)) \/ GetFetchStatus(q)
  BY <1>6, <1>8 DEF Ask, GetFetchStatus, ReadRuns, ReadSlot, ReadLog, StatusAnswered
<1>9. CASE UNCHANGED apiVars
  BY <1>6, <1>9 DEF apiVars
<1>. QED
  BY <1>2, <1>3, <1>4, <1>5, <1>7, <1>8, <1>9 DEF ApiNext, Work, Slot!Next

(* The fetch API implements PipelineSlot: runs execute one at a time, each  *)
(* once, and a result is known from the end of a run to the next restart.   *)
THEOREM ImplementsSlot == ApiSpec => SlotSpec
<1>1. ApiInit => Slot!Init
  BY DEF ApiInit, Slot!Init, Executing
<1>2. IInv /\ [ApiNext]_apiVars => [Slot!Next]_<<startedRuns, executingRuns, runs>>
  BY SlotStep
<1>. QED
  BY <1>1, <1>2, Invariance, PTL DEF ApiSpec, SlotSpec, Slot!Spec, startedRuns, executingRuns
-----------------------------------------------------------------------------
(* Runs end *)

(* The steps a run's worker may still take by itself. *)
StepsLeft(r) ==
    CASE worker[r] = "stages"    -> 5 + MaxEvents - sent[r]
      [] worker[r] = "done"      -> 4
      [] worker[r] = "recording" -> 3
      [] worker[r] = "finishing" -> 2
      [] worker[r] = "closing"   -> 1
      [] OTHER                   -> 0

(* The values this takes. *)
StepsAre(r) ==
    /\ MaxEvents \in Nat /\ sent[r] \in 0 .. MaxEvents /\ worker[r] \in Stages
    /\ worker[r] = "stages" => StepsLeft(r) = 5 + MaxEvents - sent[r]
    /\ worker[r] = "done" => StepsLeft(r) = 4
    /\ worker[r] = "recording" => StepsLeft(r) = 3
    /\ worker[r] = "finishing" => StepsLeft(r) = 2
    /\ worker[r] = "closing" => StepsLeft(r) = 1
    /\ worker[r] \in {"none", "gone"} => StepsLeft(r) = 0

LEMMA StepsCounted == ApiTypeOK => \A r \in Runs : StepsAre(r)
<1> SUFFICES ASSUME ApiTypeOK, NEW r \in Runs PROVE StepsAre(r)
  OBVIOUS
<1>1. MaxEvents \in Nat /\ sent[r] \in 0 .. MaxEvents /\ worker[r] \in Stages
  BY ApiAssumption DEF ApiTypeOK
<1>2. CASE worker[r] = "stages"
  BY <1>1, <1>2 DEF StepsAre, StepsLeft
<1>3. CASE worker[r] # "stages"
  BY <1>1, <1>3 DEF StepsAre, StepsLeft
<1>. QED BY <1>2, <1>3

(* A step of a worker is one more event, or the next stage. *)
LEMMA WorkGoesOn ==
  ASSUME ApiTypeOK, NEW r \in Runs, Work(r)
  PROVE  \/ worker[r] = "stages" /\ worker'[r] = "stages" /\ sent'[r] = sent[r] + 1
         \/ worker[r] = "stages" /\ worker'[r] = "done"
         \/ worker[r] = "done" /\ worker'[r] = "recording"
         \/ worker[r] = "recording" /\ worker'[r] = "finishing"
         \/ worker[r] = "finishing" /\ worker'[r] = "closing"
         \/ worker[r] = "closing" /\ worker'[r] = "gone"
<1>1. worker \in [Runs -> Stages] /\ sent \in [Runs -> 0 .. MaxEvents]
  BY DEF ApiTypeOK
<1>2. ASSUME Progress(r) PROVE worker[r] = "stages" /\ worker'[r] = "stages" /\ sent'[r] = sent[r] + 1
  BY <1>1, <1>2 DEF Progress
<1>3. ASSUME NEW how \in {"full", "short"}, NEW saved \in BOOLEAN, EndStages(r, how, saved)
      PROVE  worker[r] = "stages" /\ worker'[r] = "done"
  BY <1>1, <1>3 DEF EndStages, Goto
<1>4. ASSUME LastEvent(r) PROVE worker[r] = "done" /\ worker'[r] = "recording"
  BY <1>1, <1>4 DEF LastEvent, Goto
<1>5. ASSUME Record(r) PROVE worker[r] = "recording" /\ worker'[r] = "finishing"
  BY <1>1, <1>5 DEF Record, Goto
<1>6. ASSUME FinishPipeline(r) PROVE worker[r] = "finishing" /\ worker'[r] = "closing"
  BY <1>1, <1>6 DEF FinishPipeline, Goto
<1>7. ASSUME Close(r) PROVE worker[r] = "closing" /\ worker'[r] = "gone"
  BY <1>1, <1>7 DEF Close, Goto
<1>. QED BY <1>2, <1>3, <1>4, <1>5, <1>6, <1>7 DEF Work

(* Nobody else moves a worker, but a restart ends it. *)
LEMMA OthersLeaveWorker ==
  ASSUME ApiTypeOK, [ApiNext]_apiVars, NEW r \in Runs, worker[r] # "none", ~Work(r)
  PROVE  worker'[r] = "gone" \/ (worker'[r] = worker[r] /\ sent'[r] = sent[r])
<1>1. worker \in [Runs -> Stages] /\ sent \in [Runs -> 0 .. MaxEvents]
  BY DEF ApiTypeOK
<1>2. CASE \E x \in Runs, streaming \in BOOLEAN : Start(x, streaming)
  BY <1>1, <1>2 DEF Start, Goto
<1>3. ASSUME NEW x \in Runs, x # r, Work(x) PROVE worker'[r] = worker[r] /\ sent'[r] = sent[r]
  BY <1>1, <1>3
  DEF Work, Progress, EndStages, LastEvent, Record, FinishPipeline, Close, Goto, stream
<1>4. CASE ApiRestart
  BY <1>1, <1>4 DEF ApiRestart
<1>5. CASE UNCHANGED <<worker, sent>>
  BY <1>5
<1>6. CASE \E x \in Runs : Timeout(x) \/ Forward(x)
                         \/ \E clientGone \in BOOLEAN : HandlerReturns(x, clientGone)
  BY <1>5, <1>6 DEF Timeout, Forward, HandlerReturns
<1>7. CASE \E q \in Readers : (\E x \in Runs : Ask(q, x)) \/ GetFetchStatus(q)
  BY <1>5, <1>7 DEF Ask, GetFetchStatus, ReadRuns, ReadSlot, ReadLog, StatusAnswered, stream
<1>. QED BY <1>2, <1>3, <1>4, <1>5, <1>6, <1>7 DEF ApiNext, apiVars, stream

(* A started run gives up its slot after at most five steps and one for     *)
(* each event: every step of its worker leaves it fewer, and no client,     *)
(* request, deadline or restart gives it more. This is the part of          *)
(* SlotIsReleased that needs no fairness.                                   *)
THEOREM RunsAreShort ==
    ApiSpec => [][\A r \in Runs : worker[r] # "none" =>
                      /\ StepsLeft(r) \in 0 .. 5 + MaxEvents
                      /\ StepsLeft(r)' <= StepsLeft(r)
                      /\ Work(r) => StepsLeft(r)' < StepsLeft(r)]_apiVars
<1> DEFINE Shorter == \A r \in Runs : worker[r] # "none" =>
                          /\ StepsLeft(r) \in 0 .. 5 + MaxEvents
                          /\ StepsLeft(r)' <= StepsLeft(r)
                          /\ Work(r) => StepsLeft(r)' < StepsLeft(r)
<1>1. ASSUME ApiTypeOK, [ApiNext]_apiVars, \A r \in Runs : StepsAre(r), \A r \in Runs : StepsAre(r)'
      PROVE  Shorter
  <2> SUFFICES ASSUME NEW r \in Runs, worker[r] # "none"
               PROVE  /\ StepsLeft(r) \in 0 .. 5 + MaxEvents
                      /\ StepsLeft(r)' <= StepsLeft(r)
                      /\ Work(r) => StepsLeft(r)' < StepsLeft(r)
    OBVIOUS
  <2>1. StepsAre(r) /\ StepsAre(r)'
    BY <1>1
  <2>2. StepsLeft(r) \in 0 .. 5 + MaxEvents
    BY <2>1 DEF StepsAre, Stages, Holding, Executing
  <2>3. CASE Work(r)
    <3>1. StepsLeft(r)' < StepsLeft(r) /\ StepsLeft(r)' <= StepsLeft(r)
      BY <1>1, <2>1, <2>3, WorkGoesOn DEF StepsAre
    <3>. QED BY <2>2, <3>1
  <2>4. CASE ~Work(r)
    <3>1. worker'[r] = "gone" \/ (worker'[r] = worker[r] /\ sent'[r] = sent[r])
      BY <1>1, <2>4, OthersLeaveWorker
    <3>2. CASE worker'[r] = "gone"
      BY <2>1, <2>2, <2>4, <3>2 DEF StepsAre
    <3>3. CASE worker'[r] = worker[r] /\ sent'[r] = sent[r]
      <4>1. StepsLeft(r)' = StepsLeft(r)
        BY <3>3 DEF StepsLeft
      <4>. QED BY <2>2, <2>4, <4>1
    <3>. QED BY <3>1, <3>2, <3>3
  <2>. QED BY <2>3, <2>4
<1>2. ApiTypeOK /\ [ApiNext]_apiVars /\ (\A r \in Runs : StepsAre(r)) /\ (\A r \in Runs : StepsAre(r))'
        => [Shorter]_apiVars
  BY <1>1
<1>. QED BY <1>2, StepsCounted, TypeCorrect, PTL DEF ApiSpec
=============================================================================
