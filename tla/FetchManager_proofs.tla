-------------------------- MODULE FetchManager_proofs --------------------------
(***************************************************************************)
(* Source health and the fingerprint cache for any finite number of callers *)
(* and configs, any sharing of health keys, any threshold, window and set   *)
(* of URLs, and any outcomes of the saves.                                  *)
(***************************************************************************)
EXTENDS FetchManager, TLAPS, FiniteSetTheorems

(* The types of what the health of sources depends on, and that a call asks *)
(* only configs of its plans.                                               *)
Asked(c) == UNION Plans[c]
HealthTypeOK ==
    /\ fails \in [Keys -> Nat] /\ skipped \in [Keys -> BOOLEAN]
    /\ restarts \in Nat
    /\ unchecked \in [Callers -> SUBSET Jobs] /\ pending \in [Callers -> SUBSET Jobs]
    /\ \A c \in Callers : unchecked[c] \subseteq Asked(c) /\ pending[c] \subseteq Asked(c)

LEMMA InitHealth == ManagerInit => HealthTypeOK
  BY DEF ManagerInit, HealthTypeOK

(* A config's answer changes the health of its key alone and ends its        *)
(* request; a turn of the loop adds a request only to a key that is not      *)
(* skipped; no other step touches requests or health, but for a restart.     *)
HealthStep(k) ==
    \/ fails'[k] = fails[k] /\ skipped'[k] = skipped[k] /\ InFlight(k)' = InFlight(k)
    \/ /\ fails'[k] = fails[k] /\ skipped'[k] = skipped[k] /\ ~skipped[k]
    \/ \E cj \in InFlight(k) :
          /\ InFlight(k)' = InFlight(k) \ {cj}
          /\ \/ fails'[k] = 0 /\ ~skipped'[k]
             \/ /\ fails'[k] = fails[k] + 1
                /\ skipped'[k] = (skipped[k] \/ fails[k] + 1 >= MaxFailures)
    \/ fails'[k] = 0 /\ ~skipped'[k] /\ InFlight(k)' = {} /\ restarts' # restarts

LEMMA NextHealth ==
  ASSUME HealthTypeOK, [ManagerNext]_managerVars
  PROVE  HealthTypeOK' /\ \A k \in Keys : HealthStep(k)
<1> USE DEF HealthTypeOK
<1>0. KeyOf \in [Jobs -> Keys] /\ Plans \in [Callers -> SUBSET SUBSET Jobs] /\ Sched \in Callers
  BY CallersAssumption, JobsAssumption, PlansAssumption
<1>1. ASSUME NEW c \in Callers, NEW cfgs \in Plans[c], Begin(c, cfgs)
      PROVE  HealthTypeOK' /\ \A k \in Keys : HealthStep(k)
  <2>1. /\ unchecked' = [unchecked EXCEPT ![c] = cfgs] /\ cfgs \subseteq Asked(c) /\ cfgs \subseteq Jobs
        /\ UNCHANGED <<fails, skipped, pending, restarts>>
    BY <1>0, <1>1 DEF Begin, health, Asked
  <2>. QED BY <2>1 DEF HealthStep, InFlight
<1>2. ASSUME NEW c \in Callers, NEW j \in Jobs, ConsiderSource(c, j)
      PROVE  HealthTypeOK' /\ \A k \in Keys : HealthStep(k)
  <2>1. /\ j \in unchecked[c] /\ unchecked' = [unchecked EXCEPT ![c] = @ \ {j}]
        /\ pending' = [pending EXCEPT ![c] = IF ~skipped[KeyOf[j]] THEN @ \cup {j} ELSE @]
        /\ UNCHANGED <<fails, skipped, restarts>>
    BY <1>2 DEF ConsiderSource, Askable, health
  <2>2. HealthTypeOK'
    BY <2>1
  <2>3. ASSUME NEW k \in Keys PROVE HealthStep(k)
    <3>1. CASE KeyOf[j] = k /\ ~skipped[k]
      BY <2>1, <3>1 DEF HealthStep
    <3>2. CASE ~(KeyOf[j] = k /\ ~skipped[k])
      <4>1. InFlight(k)' = InFlight(k)
        BY <2>1, <3>2 DEF InFlight
      <4>. QED BY <2>1, <4>1 DEF HealthStep
    <3>. QED BY <3>1, <3>2
  <2>. QED BY <2>2, <2>3
<1>3. ASSUME NEW c \in Callers, NEW j \in Jobs,
             FetchFailed(c, j) \/ \E items \in Offers(c) : FetchOK(c, j, items)
      PROVE  HealthTypeOK' /\ \A k \in Keys : HealthStep(k)
  <2>0. KeyOf[j] \in Keys
    BY <1>0
  <2>1. /\ j \in pending[c] /\ pending' = [pending EXCEPT ![c] = @ \ {j}]
        /\ unchecked' = unchecked
        /\ \/ /\ fails' = [fails EXCEPT ![KeyOf[j]] = 0]
              /\ skipped' = [skipped EXCEPT ![KeyOf[j]] = FALSE]
           \/ /\ fails' = [fails EXCEPT ![KeyOf[j]] = @ + 1]
              /\ skipped' = [skipped EXCEPT ![KeyOf[j]] = @ \/ fails[KeyOf[j]] + 1 >= MaxFailures]
    BY <1>3 DEF FetchOK, FetchFailed, CountAfterSuccess, Disables
  <2>2. HealthTypeOK'
    <3>1. fails' \in [Keys -> Nat]
      BY <2>0, <2>1
    <3>2. skipped' \in [Keys -> BOOLEAN]
      <4>1. (skipped[KeyOf[j]] \/ fails[KeyOf[j]] + 1 >= MaxFailures) \in BOOLEAN
        OBVIOUS
      <4>2. \E b \in BOOLEAN : skipped' = [skipped EXCEPT ![KeyOf[j]] = b]
        BY <2>1, <4>1, Zenon
      <4>. QED BY <4>2
    <3>. QED BY <1>3, <2>1, <3>1, <3>2 DEF FetchOK, FetchFailed
  <2>3. ASSUME NEW k \in Keys PROVE HealthStep(k)
    <3>1. CASE KeyOf[j] = k
      <4>1. <<c, j>> \in InFlight(k) /\ InFlight(k)' = InFlight(k) \ {<<c, j>>}
        BY <2>1, <3>1 DEF InFlight
      <4>2. \/ fails'[k] = 0 /\ ~skipped'[k]
            \/ fails'[k] = fails[k] + 1 /\ skipped'[k] = (skipped[k] \/ fails[k] + 1 >= MaxFailures)
        BY <2>1, <3>1
      <4>. QED BY <4>1, <4>2 DEF HealthStep
    <3>2. CASE KeyOf[j] # k
      <4>1. InFlight(k)' = InFlight(k)
        BY <2>1, <3>2 DEF InFlight
      <4>. QED BY <2>0, <2>1, <3>2, <4>1 DEF HealthStep
    <3>. QED BY <3>1, <3>2
  <2>. QED BY <2>2, <2>3
<1>4. CASE UNCHANGED <<fails, skipped, unchecked, pending, restarts>>
  BY <1>4 DEF HealthStep, InFlight
<1>5. ASSUME NEW c \in Callers, Launch(c) \/ GiveUp(c) \/ Gather(c)
      PROVE  UNCHANGED <<fails, skipped, unchecked, pending, restarts>>
  BY <1>5 DEF Launch, GiveUp, Gather, Return, health
<1>6. ASSUME \/ \E res \in SaveResults : MarkSeen(res)
             \/ ReadRunFailures \/ ManagerTick \/ UNCHANGED managerVars
      PROVE  UNCHANGED <<fails, skipped, unchecked, pending, restarts>>
  BY <1>6 DEF MarkSeen, ReadRunFailures, Return, ManagerTick, health, call, managerVars
<1>7. ASSUME Restart PROVE HealthTypeOK' /\ \A k \in Keys : HealthStep(k)
  <2>1. /\ fails' = [k \in Keys |-> 0] /\ skipped' = [k \in Keys |-> FALSE]
        /\ unchecked' = [c \in Callers |-> {}] /\ pending' = [c \in Callers |-> {}]
        /\ restarts' = restarts + 1
    BY <1>7 DEF Restart
  <2>2. HealthTypeOK'
    BY <2>1
  <2>3. ASSUME NEW k \in Keys PROVE HealthStep(k)
    <3>1. InFlight(k)' = {}
      BY <2>1 DEF InFlight
    <3>2. fails'[k] = 0 /\ ~skipped'[k] /\ restarts' # restarts
      BY <2>1
    <3>. QED BY <3>1, <3>2 DEF HealthStep
  <2>. QED BY <2>2, <2>3
<1>. QED
  BY <1>1, <1>2, <1>3, <1>4, <1>5, <1>6, <1>7 DEF ManagerNext, Step

-----------------------------------------------------------------------------
(* A source that is not skipped has failed fewer times than the threshold,  *)
(* and the bound on failures and open requests holds.                       *)
FewFailures == \A k \in Keys : ~skipped[k] => fails[k] <= MaxFailures - 1
HealthInv == HealthTypeOK /\ FewFailures /\ FailingSourceIsLeftAlone

(* The requests under way to a source are among those its callers may make. *)
LEMMA RequestsAreSlots ==
  ASSUME HealthTypeOK, NEW k \in Keys
  PROVE  /\ IsFiniteSet(Slots(k)) /\ IsFiniteSet(InFlight(k))
         /\ Cardinality(Slots(k)) \in Nat /\ Cardinality(InFlight(k)) \in Nat
         /\ Cardinality(InFlight(k)) <= Cardinality(Slots(k))
<1>1. IsFiniteSet(Callers \X Jobs)
  BY CallersAssumption, JobsAssumption, FS_Product
<1>2. Slots(k) \in SUBSET (Callers \X Jobs) /\ InFlight(k) \in SUBSET Slots(k)
  BY DEF Slots, InFlight, HealthTypeOK, Asked
<1>3. IsFiniteSet(Slots(k))
  BY <1>1, <1>2, FS_Subset
<1>. QED BY <1>2, <1>3, FS_Subset, FS_CardinalityType

LEMMA InitHealthInv == ManagerInit => HealthInv
<1> SUFFICES ASSUME ManagerInit PROVE HealthInv
  OBVIOUS
<1>1. HealthTypeOK
  BY InitHealth
<1>2. ASSUME NEW k \in Keys PROVE fails[k] = 0 /\ InFlight(k) = {}
  BY DEF ManagerInit, InFlight
<1>3. FailingSourceIsLeftAlone
  <2>1. ASSUME NEW k \in Keys
        PROVE  fails[k] + Cardinality(InFlight(k)) <= MaxFailures - 1 + Cardinality(Slots(k))
    BY <1>1, <1>2, RequestsAreSlots, FS_EmptySet, FailuresAssumption
  <2>. QED BY <2>1 DEF FailingSourceIsLeftAlone
<1>4. FewFailures
  BY <1>2, FailuresAssumption DEF FewFailures
<1>. QED BY <1>1, <1>3, <1>4 DEF HealthInv

LEMMA NextHealthInv == HealthInv /\ [ManagerNext]_managerVars => HealthInv'
<1> SUFFICES ASSUME HealthInv, [ManagerNext]_managerVars PROVE HealthInv'
  OBVIOUS
<1>1. HealthTypeOK /\ HealthTypeOK' /\ \A k \in Keys : HealthStep(k)
  BY NextHealth DEF HealthInv
<1>2. ASSUME NEW k \in Keys
      PROVE  /\ ~skipped'[k] => fails'[k] <= MaxFailures - 1
             /\ fails'[k] + Cardinality(InFlight(k)') <= MaxFailures - 1 + Cardinality(Slots(k))
  <2>0. /\ MaxFailures \in Nat \ {0} /\ fails[k] \in Nat /\ fails'[k] \in Nat
        /\ skipped[k] \in BOOLEAN /\ skipped'[k] \in BOOLEAN
        /\ ~skipped[k] => fails[k] <= MaxFailures - 1
        /\ fails[k] + Cardinality(InFlight(k)) <= MaxFailures - 1 + Cardinality(Slots(k))
        /\ HealthStep(k)
    BY <1>1, FailuresAssumption DEF HealthInv, HealthTypeOK, FewFailures, FailingSourceIsLeftAlone
  <2>1. /\ IsFiniteSet(InFlight(k)) /\ Cardinality(InFlight(k)) \in Nat
        /\ Cardinality(Slots(k)) \in Nat
        /\ Cardinality(InFlight(k)) <= Cardinality(Slots(k))
    BY <1>1, RequestsAreSlots
  <2>2. /\ Cardinality(InFlight(k)') \in Nat
        /\ Cardinality(InFlight(k)') <= Cardinality(Slots(k))
    <3>1. Slots(k)' = Slots(k)
      BY DEF Slots
    <3>2. InFlight(k)' \in SUBSET Slots(k)
      BY <1>1 DEF Slots, InFlight, HealthTypeOK, Asked
    <3>3. IsFiniteSet(Slots(k))
      BY <1>1, RequestsAreSlots
    <3>. QED BY <3>2, <3>3, FS_Subset, FS_CardinalityType
  <2>3. ASSUME NEW cj \in InFlight(k), InFlight(k)' = InFlight(k) \ {cj}
        PROVE  Cardinality(InFlight(k)') = Cardinality(InFlight(k)) - 1
    BY <2>1, <2>3, FS_RemoveElement
  <2>4. ~skipped'[k] => fails'[k] <= MaxFailures - 1
    BY <2>0 DEF HealthStep
  <2>5. CASE fails'[k] <= MaxFailures - 1
    <3>1. fails'[k] + Cardinality(InFlight(k)') <= MaxFailures - 1 + Cardinality(Slots(k))
      BY <2>0, <2>1, <2>2, <2>5
    <3>. QED BY <2>5, <3>1
  <2>6. CASE fails'[k] = fails[k] /\ InFlight(k)' = InFlight(k)
    <3>1. Cardinality(InFlight(k)') = Cardinality(InFlight(k))
      BY <2>6
    <3>2. fails'[k] + Cardinality(InFlight(k)') <= MaxFailures - 1 + Cardinality(Slots(k))
      BY <2>0, <2>6, <3>1
    <3>. QED BY <2>4, <3>2
  <2>7. CASE fails'[k] = fails[k] + 1 /\ \E cj \in InFlight(k) : InFlight(k)' = InFlight(k) \ {cj}
    <3>1. Cardinality(InFlight(k)') = Cardinality(InFlight(k)) - 1
      BY <2>3, <2>7
    <3>2. fails'[k] + Cardinality(InFlight(k)') <= MaxFailures - 1 + Cardinality(Slots(k))
      BY <2>0, <2>1, <2>7, <3>1
    <3>. QED BY <2>4, <3>2
  <2>. QED BY <2>0, <2>4, <2>5, <2>6, <2>7 DEF HealthStep
<1>3. FewFailures' /\ FailingSourceIsLeftAlone'
  BY <1>2 DEF FewFailures, FailingSourceIsLeftAlone, Slots
<1>. QED BY <1>1, <1>3 DEF HealthInv

(* The threshold limits how often a source that only fails is asked.        *)
THEOREM FailingSourceLeftAlone == ManagerSpec => []FailingSourceIsLeftAlone
<1>1. ManagerSpec => []HealthInv
  BY InitHealthInv, NextHealthInv, PTL DEF ManagerSpec
<1>2. HealthInv => FailingSourceIsLeftAlone
  BY DEF HealthInv
<1>. QED BY <1>1, <1>2, PTL

(* A skipped source that no request is under way to stays skipped and is    *)
(* asked by nobody until the process restarts.                              *)
THEOREM SkippedForGood == ManagerSpec => SkipIsFinal
<1>1. HealthTypeOK /\ [ManagerNext]_managerVars
        => [\A k \in Keys : skipped[k] /\ InFlight(k) = {} /\ restarts' = restarts
                               => skipped'[k] /\ InFlight(k)' = {}]_managerVars
  BY NextHealth DEF HealthStep
<1>2. ManagerSpec => []HealthTypeOK
  <2>1. HealthTypeOK /\ [ManagerNext]_managerVars => HealthTypeOK'
    BY NextHealth
  <2>. QED BY <2>1, InitHealth, PTL DEF ManagerSpec
<1>. QED BY <1>1, <1>2, PTL DEF ManagerSpec, SkipIsFinal
-----------------------------------------------------------------------------
(* Types *)

LEMMA InitType == ManagerInit => ManagerTypeOK
  BY TimeAssumption DEF ManagerInit, ManagerTypeOK, Marks, Blank, None, Time

LEMMA MarksStay ==
  ASSUME ManagerTypeOK, NEW res \in SaveResults, MarkSeen(res)
  PROVE  cache' \in Marks /\ disk' \in Marks /\ first' \in Marks /\ onDisk' \subseteq ItemUrls
<1>1. Added \in Marks /\ Blank \in Marks /\ first' \in Marks
  BY DEF ManagerTypeOK, MarkSeen, Added, Marks, Blank
<1>2. CASE Added = cache
  BY <1>1, <1>2 DEF ManagerTypeOK, MarkSeen
<1>3. CASE Added # cache
  <2>1. cache' \in Marks
    <3>1. Pruned(Added) \in Marks
      BY <1>1 DEF Pruned, Marks
    <3>. QED BY <1>3, <3>1 DEF MarkSeen
  <2>2. /\ disk' = Written(cache', res)
        /\ onDisk' = CASE res = "ok"   -> {u \in ItemUrls : first'[u] # None}
                       [] res = "kept" -> onDisk
                       [] res = "torn" -> {}
    BY <1>3 DEF MarkSeen
  <2>3. res \in {"ok", "kept", "torn"}
    BY SaveAssumption
  <2>4. disk' \in Marks
    BY <1>1, <2>1, <2>2, <2>3 DEF ManagerTypeOK, Written
  <2>5. onDisk' \subseteq ItemUrls
    BY <2>2, <2>3 DEF ManagerTypeOK
  <2>. QED BY <1>1, <2>1, <2>4, <2>5
<1>. QED BY <1>2, <1>3

LEMMA NextType == ASSUME ManagerTypeOK, [ManagerNext]_managerVars PROVE ManagerTypeOK'
<1> USE CallersAssumption, JobsAssumption, PlansAssumption, TimeAssumption
<1>1. ASSUME NEW c \in Callers, NEW cfgs \in Plans[c], Begin(c, cfgs) PROVE ManagerTypeOK'
  <2>1. cfgs \in SUBSET Jobs
    OBVIOUS
  <2>. QED BY <1>1, <2>1 DEF ManagerTypeOK, Begin, file, history, health
<1>2. ASSUME NEW c \in Callers, NEW j \in Jobs, ConsiderSource(c, j) PROVE ManagerTypeOK'
  BY <1>2 DEF ManagerTypeOK, ConsiderSource, file, history, health
<1>3. ASSUME NEW c \in Callers, Launch(c) PROVE ManagerTypeOK'
  <2>1. Cardinality(pending[c]) \in Nat
    BY FS_Subset, FS_CardinalityType DEF ManagerTypeOK
  <2>. QED BY <1>3, <2>1 DEF ManagerTypeOK, Launch, file, history, health
<1>4. ASSUME NEW c \in Callers, NEW j \in Jobs, FetchFailed(c, j) PROVE ManagerTypeOK'
  <2>1. fails' \in [Keys -> Nat] /\ errs' \in [Callers -> Nat]
    BY <1>4 DEF ManagerTypeOK, FetchFailed
  <2>2. pending' \in [Callers -> SUBSET Jobs]
    BY <1>4 DEF ManagerTypeOK, FetchFailed
  <2>3. skipped' \in [Keys -> BOOLEAN]
    <3>1. (skipped[KeyOf[j]] \/ Disables(fails[KeyOf[j]] + 1)) \in BOOLEAN
      OBVIOUS
    <3>2. \E b \in BOOLEAN : skipped' = [skipped EXCEPT ![KeyOf[j]] = b]
      BY <1>4, <3>1, Zenon DEF FetchFailed
    <3>. QED BY <3>2 DEF ManagerTypeOK
  <2>4. UNCHANGED <<clock, cache, disk, first, onDisk, lastRun, phase, unchecked, asked, got, restarts>>
    BY <1>4 DEF FetchFailed, file, history
  <2>. QED BY <2>1, <2>2, <2>3, <2>4 DEF ManagerTypeOK
<1>5. ASSUME NEW c \in Callers, NEW j \in Jobs, NEW items \in Offers(c), FetchOK(c, j, items)
      PROVE  ManagerTypeOK'
  <2>1. items \subseteq ItemUrls
    BY DEF Offers
  <2>2. fails' \in [Keys -> Nat] /\ skipped' \in [Keys -> BOOLEAN]
    BY <1>5 DEF ManagerTypeOK, FetchOK, CountAfterSuccess
  <2>. QED BY <1>5, <2>1, <2>2 DEF ManagerTypeOK, FetchOK, file, history
<1>6. ASSUME NEW c \in Callers, GiveUp(c) PROVE ManagerTypeOK'
  BY <1>6 DEF ManagerTypeOK, GiveUp, Return, file, history, health
<1>7. ASSUME NEW c \in Callers, Gather(c) PROVE ManagerTypeOK'
  <2>1. lastRun' \in [attempted : Nat, failed : Nat]
    BY <1>7 DEF ManagerTypeOK, Gather
  <2>. QED BY <1>7, <2>1 DEF ManagerTypeOK, Gather, Return, file, history, health
<1>8. ASSUME NEW res \in SaveResults, MarkSeen(res) PROVE ManagerTypeOK'
  <2>1. cache' \in Marks /\ disk' \in Marks /\ first' \in Marks /\ onDisk' \subseteq ItemUrls
    BY <1>8, MarksStay
  <2>. QED BY <1>8, <2>1 DEF ManagerTypeOK, MarkSeen, health, call
<1>9. CASE ReadRunFailures
  BY <1>9 DEF ManagerTypeOK, ReadRunFailures, Return, file, history, health
<1>10. CASE Restart
  <2>1. first' \in Marks
    BY <1>10 DEF ManagerTypeOK, Restart, Marks
  <2>2. restarts' \in 0 .. MaxRestarts
    BY <1>10 DEF ManagerTypeOK, Restart
  <2>. QED BY <1>10, <2>1, <2>2 DEF ManagerTypeOK, Restart
<1>11. CASE ManagerTick
  BY <1>11 DEF ManagerTypeOK, ManagerTick, Time, file, history, health, call
<1>12. CASE UNCHANGED managerVars
  BY <1>12 DEF ManagerTypeOK, managerVars, file, history, health, call
<1>. QED
  BY <1>1, <1>2, <1>3, <1>4, <1>5, <1>6, <1>7, <1>8, <1>9, <1>10, <1>11, <1>12 DEF ManagerNext, Step

(* Every variable has its type. *)
THEOREM TypeCorrect == ManagerSpec => []ManagerTypeOK
<1>1. ManagerTypeOK /\ [ManagerNext]_managerVars => ManagerTypeOK'
  BY NextType
<1>. QED BY <1>1, InitType, PTL DEF ManagerSpec

-----------------------------------------------------------------------------
(* The seven-day window *)

(* A mark m of u covers the window that began when u was first returned. *)
Covers(m, u) == m[u] # None /\ m[u] >= first[u]

(* What the memory and the file know of a URL:  no more than was returned,  *)
(* and all that was returned within the window and not lost; the file, all  *)
(* that a save wrote.                                                       *)
Known(u) ==
    /\ cache[u] # None => first[u] # None
    /\ Fresh(first[u]) => Covers(cache, u)
    /\ disk[u] # None => u \in onDisk
    /\ u \in onDisk => first[u] # None
    /\ u \in onDisk /\ Fresh(first[u]) => Covers(disk, u)
MarksInv == \A u \in ItemUrls : Known(u)

LEMMA InitMarks == ManagerInit => MarksInv
  BY DEF ManagerInit, MarksInv, Known, Fresh, Blank

(* FetchAll marks what it returns: a mark that is there is kept while it is *)
(* fresh, and one that is not there is made now, whether the save prunes,   *)
(* fails, or does not happen.                                               *)
LEMMA MarkSeenKnows ==
  ASSUME ManagerTypeOK, MarksInv, NEW res \in SaveResults, MarkSeen(res) PROVE MarksInv'
<1> SUFFICES ASSUME NEW u \in ItemUrls PROVE Known(u)'
  BY DEF MarksInv
<1>0. clock \in Nat /\ TTL \in Nat \ {0} /\ cache[u] \in Int /\ first[u] \in Int /\ disk[u] \in Int
  BY TimeAssumption DEF ManagerTypeOK, Marks, Time, None
<1>1. clock' = clock /\ Known(u)
  BY DEF MarkSeen, MarksInv
<1>2. first'[u] = IF u \in got /\ first[u] = None THEN clock ELSE first[u]
  BY DEF MarkSeen
<1>3. CASE Added = cache
  <2>1. u \in got => cache[u] # None
    BY <1>0, <1>3 DEF Added, None
  <2>2. UNCHANGED <<cache, disk, onDisk>>
    BY <1>3 DEF MarkSeen
  <2>3. first'[u] = first[u]
    BY <1>1, <1>2, <2>1 DEF Known
  <2>. QED BY <1>1, <2>2, <2>3 DEF Known, Fresh, Covers
<1>4. CASE Added # cache
  <2>1. Added[u] = IF u \in got /\ cache[u] = None THEN clock ELSE cache[u]
    BY DEF Added
  <2>2. cache'[u] = IF Fresh(Added[u]) THEN Added[u] ELSE None
    BY <1>4 DEF MarkSeen, Pruned
  <2>3. cache'[u] # None => first'[u] # None
    BY <1>0, <1>1, <1>2, <2>1, <2>2 DEF Known, None
  <2>4. Fresh(first'[u]) => cache'[u] # None /\ cache'[u] >= first'[u]
    BY <1>0, <1>1, <1>2, <2>1, <2>2 DEF Known, Fresh, Covers, None
  <2>5. CASE res = "ok"
    <3>1. disk' = cache' /\ (u \in onDisk' <=> first'[u] # None)
      BY <1>4, <2>5 DEF MarkSeen, Written
    <3>. QED BY <1>1, <2>3, <2>4, <3>1 DEF Known, Fresh, Covers
  <2>6. CASE res = "kept"
    <3>1. disk' = disk /\ onDisk' = onDisk
      BY <1>4, <2>6 DEF MarkSeen, Written
    <3>2. u \in onDisk => first'[u] = first[u]
      BY <1>1, <1>2 DEF Known
    <3>. QED BY <1>1, <2>3, <2>4, <3>1, <3>2 DEF Known, Fresh, Covers
  <2>7. CASE res = "torn"
    <3>1. disk'[u] = None /\ onDisk' = {}
      BY <1>4, <2>7 DEF MarkSeen, Written, Blank
    <3>. QED BY <1>1, <2>3, <2>4, <3>1 DEF Known, Fresh, Covers
  <2>. QED BY <2>5, <2>6, <2>7, SaveAssumption
<1>. QED BY <1>3, <1>4

LEMMA NextMarks == ASSUME ManagerTypeOK, MarksInv, [ManagerNext]_managerVars PROVE MarksInv'
<1>1. CASE UNCHANGED <<clock, cache, disk, first, onDisk>>
  BY <1>1 DEF MarksInv, Known, Fresh, Covers
<1>2. ASSUME NEW c \in Callers, (\E cfgs \in Plans[c] : Begin(c, cfgs)) \/ Step(c)
      PROVE  UNCHANGED <<clock, cache, disk, first, onDisk>>
  BY <1>2 DEF Begin, Step, ConsiderSource, Launch, FetchFailed, FetchOK, GiveUp, Gather, file, history
<1>3. ASSUME ReadRunFailures \/ UNCHANGED managerVars PROVE UNCHANGED <<clock, cache, disk, first, onDisk>>
  BY <1>3 DEF ReadRunFailures, managerVars, file, history
<1>4. CASE ManagerTick
  <2> SUFFICES ASSUME NEW u \in ItemUrls PROVE Known(u)'
    BY DEF MarksInv
  <2>1. Known(u) /\ first[u] \in Int /\ clock \in Nat /\ TTL \in Nat
    BY TimeAssumption DEF MarksInv, ManagerTypeOK, Marks, Time, None
  <2>2. clock' = clock + 1 /\ UNCHANGED <<cache, disk, first, onDisk>>
    BY <1>4 DEF ManagerTick, file, history
  <2>3. Fresh(first[u])' => Fresh(first[u])
    BY <2>1, <2>2 DEF Fresh
  <2>. QED BY <2>1, <2>2, <2>3 DEF Known, Covers
<1>5. CASE Restart
  <2> SUFFICES ASSUME NEW u \in ItemUrls PROVE Known(u)'
    BY DEF MarksInv
  <2>1. Known(u)
    BY DEF MarksInv
  <2>2. /\ cache' = disk /\ UNCHANGED <<clock, disk, onDisk>>
        /\ first'[u] = IF u \in onDisk THEN first[u] ELSE None
    BY <1>5 DEF Restart
  <2>. QED BY <2>1, <2>2 DEF Known, Fresh, Covers
<1>. QED BY <1>1, <1>2, <1>3, <1>4, <1>5, MarkSeenKnows DEF ManagerNext

(* A URL that FetchAll returns is not one it first returned less than seven *)
(* days ago, whatever restarts, failed saves and saves that prune lie       *)
(* between, unless the mark was lost with the process or with the file      *)
(* (dedupCache in manager.go).                                              *)
THEOREM NoRepeatInWindow == ManagerSpec => FirstWindowKept
<1>1. ASSUME ManagerTypeOK, MarksInv, [ManagerNext]_managerVars, NEW u \in ItemUrls, Returns(u)
      PROVE  ~Fresh(first[u])
  <2>1. phase[Sched] = "fetching" /\ phase'[Sched] = "marking" /\ u \in got'
    BY <1>1 DEF Returns
  <2>2. Gather(Sched)
    <3>1. Sched \in Callers /\ phase \in [Callers -> {"idle", "building", "fetching", "marking", "reporting"}]
      BY <1>1, CallersAssumption DEF ManagerTypeOK
    <3>2. phase' # phase
      BY <2>1
    <3>3. ASSUME NEW c \in Callers, NEW cfgs \in Plans[c], Begin(c, cfgs) PROVE FALSE
      <4>1. c # Sched
        BY <2>1, <3>3 DEF Begin
      <4>. QED BY <2>1, <3>1, <3>3, <4>1 DEF Begin
    <3>4. ASSUME NEW c \in Callers, Launch(c) PROVE FALSE
      BY <2>1, <3>1, <3>4 DEF Launch
    <3>5. ASSUME NEW c \in Callers, GiveUp(c) PROVE FALSE
      BY <2>1, <3>1, <3>5 DEF GiveUp, Return
    <3>6. ASSUME NEW c \in Callers \ {Sched}, Gather(c) PROVE FALSE
      BY <2>1, <3>1, <3>6 DEF Gather, Return
    <3>7. ASSUME NEW c \in Callers, NEW j \in Jobs,
                 \/ ConsiderSource(c, j) \/ FetchFailed(c, j)
                 \/ \E items \in Offers(c) : FetchOK(c, j, items)
          PROVE  FALSE
      BY <3>2, <3>7 DEF ConsiderSource, FetchFailed, FetchOK
    <3>8. ASSUME \/ \E res \in SaveResults : MarkSeen(res)
                 \/ ReadRunFailures \/ ManagerTick \/ UNCHANGED managerVars
          PROVE  FALSE
      BY <2>1, <3>2, <3>8 DEF MarkSeen, ReadRunFailures, ManagerTick, managerVars
    <3>9. ~Restart
      BY <2>1, <3>1 DEF Restart
    <3>. QED BY <1>1, <3>3, <3>4, <3>5, <3>6, <3>7, <3>8, <3>9 DEF ManagerNext, Step
  <2>3. ~Fresh(cache[u])
    BY <2>1, <2>2 DEF Gather, Has
  <2>4. /\ clock \in Nat /\ TTL \in Nat /\ cache[u] \in Int /\ first[u] \in Int
        /\ Fresh(first[u]) => Covers(cache, u)
    BY <1>1, TimeAssumption DEF ManagerTypeOK, Marks, Time, None, MarksInv, Known
  <2>. QED BY <2>3, <2>4 DEF Fresh, Covers
<1>2. ManagerTypeOK /\ MarksInv /\ [ManagerNext]_managerVars =>
          [\A u \in ItemUrls : Returns(u) => ~Fresh(first[u])]_managerVars
  BY <1>1
<1>3. ManagerSpec => []MarksInv
  <2>1. ManagerTypeOK /\ MarksInv /\ [ManagerNext]_managerVars => MarksInv'
    BY NextMarks
  <2>. QED BY <2>1, InitMarks, TypeCorrect, PTL DEF ManagerSpec
<1>. QED BY <1>2, <1>3, TypeCorrect, PTL DEF ManagerSpec, FirstWindowKept
===============================================================================
