---------------------------- MODULE Conversation ----------------------------
(***************************************************************************)
(* The turns of chat sessions: the agent loop of Run and RunStream         *)
(* (src/internal/agent/agent.go, stream.go) over the SessionStore          *)
(* (session.go), which keeps histories in memory, saves each of them to    *)
(* the sessions table from a goroutine of its own, and reads the table     *)
(* when memory has no entry.  A turn holds no lock while it runs.          *)
(* The server has a database.  Messages are their role and their turn.     *)
(***************************************************************************)
EXTENDS Integers, SequencesExt

CONSTANTS
    Sessions, Turns,
    SessionOf,      \* the session each turn's request names
    MaxHistory,     \* maxHistoryMessages
    MaxSessions,    \* maxSessions
    MaxIterations,  \* maxIterations
    MaxCalls,       \* bound: tool calls in one LLM reply
    NoTurn          \* of the system message

ASSUME SessionAssumption == SessionOf \in [Turns -> Sessions]
ASSUME LimitAssumption   == /\ MaxHistory \in Nat /\ MaxHistory >= 2
                            /\ MaxSessions \in Nat \ {0}
                            /\ MaxIterations \in Nat \ {0}
                            /\ MaxCalls \in Nat
ASSUME NoTurnAssumption  == NoTurn \notin Turns

Message(role, t) == [role |-> role, turn |-> t]
System           == Message("system", NoTurn)
Messages         == {System} \cup
                    [role : {"user", "call", "tool", "answer"}, turn : Turns]
(* The empty history stands for no entry: none is ever stored. *)
Histories        == Seq(Messages)
Snapshots        == [turn : Turns, messages : Histories]

VARIABLES
    memory,     \* SessionStore.sessions
    recent,     \* its sessions, by updatedAt
    stored,     \* the sessions table
    saves,      \* goroutines that save a turn's snapshot
    pc,         \* next step of each turn
    messages,   \* a turn's copy of the history
    iteration,  \* replies with tool calls so far
    deleting,   \* DELETE requests between memory and table; "quiet": no turn since
    answered,   \* history: each session's turns in the order of their Set
    excused,    \* history: turns that met an event which may lose them
    erased,     \* history: turns of a session deleted while it was quiet
    late        \* history: those of them a save was still carrying

store   == <<memory, recent, stored, saves>>
turns   == <<pc, messages, iteration>>
history == <<answered, excused, erased, late>>
vars    == <<store, turns, deleting, history>>

Steps  == {"new", "warm", "warmed", "llm", "force", "save", "done", "failed"}
Open(t) == pc[t] \in {"warm", "warmed", "llm", "force", "save"}

OpenIn(s)  == {t \in Turns : SessionOf[t] = s /\ Open(t)}
BegunIn(s) == {t \in Turns : SessionOf[t] = s /\ pc[t] # "new"}
SavesOf(s) == {p \in saves : SessionOf[p.turn] = s}
Carried(S) == {p.turn : p \in S}
TurnsOf(h) == {h[i].turn : i \in 1 .. Len(h)} \ {NoTurn}

Init ==
    /\ memory = [s \in Sessions |-> <<>>] /\ recent = <<>>
    /\ stored = [s \in Sessions |-> <<>>] /\ saves = {}
    /\ pc = [t \in Turns |-> "new"]
    /\ messages = [t \in Turns |-> <<>>]
    /\ iteration = [t \in Turns |-> 0]
    /\ deleting = [s \in Sessions |-> "no"]
    /\ answered = [s \in Sessions |-> <<>>] /\ excused = {} /\ erased = {} /\ late = {}

-----------------------------------------------------------------------------
(* SessionStore *)

(* The order of the other sessions, and with updatedAt of s now. *)
Without(s) ==
    IF s \in ToSet(recent)
    THEN RemoveAt(recent, CHOOSE i \in DOMAIN recent : recent[i] = s)
    ELSE recent
Touched(s) == Append(Without(s), s)

TrimLate(h) ==                                          \* mutant: one too many
    IF Len(h) <= MaxHistory THEN h
    ELSE <<System>> \o SubSeq(h, Len(h) - MaxHistory + 1, Len(h))
TrimNewest(h) ==                                        \* mutant: the wrong end
    SubSeq(h, 1, IF Len(h) <= MaxHistory THEN Len(h) ELSE MaxHistory)

(* Over the limit: the system message and the newest others. *)
Trim(h) ==
    IF Len(h) <= MaxHistory THEN h
    ELSE (IF Head(h) = System THEN <<System>> ELSE <<>>)
         \o SubSeq(h, Len(h) - MaxHistory + 2, Len(h))

(* The turn has its history and adds the user's message. *)
Ask(t, h) ==
    /\ pc' = [pc EXCEPT ![t] = "llm"]
    /\ messages' = [messages EXCEPT
           ![t] = Append(IF h = <<>> THEN <<System>> ELSE h, Message("user", t))]
    /\ UNCHANGED iteration

(* The turn is over and its locals are gone. *)
Leave(t, end) ==
    /\ pc' = [pc EXCEPT ![t] = end]
    /\ messages' = [messages EXCEPT ![t] = <<>>]
    /\ iteration' = [iteration EXCEPT ![t] = 0]

(* Get, in memory.  Turns of a session that are open at once excuse each other. *)
Begin(t) ==
    LET s == SessionOf[t] IN
    /\ pc[t] = "new"
    /\ IF memory[s] # <<>>
       THEN Ask(t, memory[s])
       ELSE pc' = [pc EXCEPT ![t] = "warm"] /\ UNCHANGED <<messages, iteration>>
    /\ deleting' = [deleting EXCEPT ![s] = IF @ = "no" THEN "no" ELSE "busy"]
    /\ excused' = IF OpenIn(s) = {} THEN excused ELSE excused \cup OpenIn(s) \cup {t}
    /\ UNCHANGED <<store, answered, erased, late>>

(* Get, the table: an unreadable row is taken for a new session. *)
ReadRow(t, readable) ==
    LET s == SessionOf[t] IN
    /\ pc[t] = "warm"
    /\ IF readable /\ stored[s] # <<>>
       THEN /\ messages' = [messages EXCEPT ![t] = stored[s]]
            /\ pc' = [pc EXCEPT ![t] = "warmed"]
            /\ UNCHANGED iteration
       ELSE Ask(t, <<>>)
    /\ excused' = IF readable THEN excused ELSE excused \cup (BegunIn(s) \ {t})
    /\ UNCHANGED <<store, deleting, answered, erased, late>>

(* Get puts the row into memory, whatever is there by now, evicting nothing. *)
Warm(t) ==
    LET s == SessionOf[t] IN
    /\ pc[t] = "warmed"
    /\ memory' = [memory EXCEPT ![s] = messages[t]]
    /\ recent' = Touched(s)
    /\ Ask(t, messages[t])
    /\ UNCHANGED <<stored, saves, deleting, history>>

(* Set: trim, replace, evict the least recent other session, start a save. *)
Set(t) ==
    LET s     == SessionOf[t]
        h     == Trim(messages[t])
        out   == IF Len(Touched(s)) > MaxSessions THEN {Head(Touched(s))} ELSE {}
    IN
    /\ pc[t] = "save"
    /\ Leave(t, "done")
    /\ memory' = [x \in Sessions |-> IF x = s THEN h
                                     ELSE IF x \in out THEN <<>> ELSE memory[x]]
    /\ recent' = IF out = {} THEN Touched(s) ELSE Tail(Touched(s))
    /\ saves' = saves \cup {[turn |-> t, messages |-> h]}
    /\ answered' = [answered EXCEPT ![s] = Append(@, t)]
    /\ excused' = excused \cup (IF SavesOf(s) # {} THEN {t} ELSE {})
                          \cup UNION {Carried(SavesOf(x)) : x \in out}
    /\ UNCHANGED <<stored, deleting, erased, late>>

(* A save's five seconds are over; its statement committed or did not. *)
SaveEnds(p, committed) ==
    /\ p \in saves
    /\ saves' = saves \ {p}
    /\ stored' = IF committed THEN [stored EXCEPT ![SessionOf[p.turn]] = p.messages]
                 ELSE stored
    /\ excused' = IF committed THEN excused ELSE excused \cup {p.turn}
    /\ UNCHANGED <<memory, recent, turns, deleting, answered, erased, late>>

(* evictLoop: the n least recent sessions are older than the two-hour TTL, *)
(* and so their saves are over.                                            *)
Evict(n) ==
    LET old == {recent[i] : i \in 1 .. n} IN
    /\ \A s \in old : SavesOf(s) = {}
    /\ memory' = [s \in Sessions |-> IF s \in old THEN <<>> ELSE memory[s]]
    /\ recent' = SubSeq(recent, n + 1, Len(recent))
    /\ UNCHANGED <<stored, saves, turns, deleting, history>>

EntriesKept(s)    == memory                             \* mutant: the row alone
EntriesWithout(s) == [memory EXCEPT ![s] = <<>>]

(* Delete, in memory; one DELETE of a session at a time. *)
DeleteEntry(s) ==
    /\ deleting[s] = "no"
    /\ memory' = EntriesWithout(s)
    /\ recent' = Without(s)
    /\ deleting' = [deleting EXCEPT ![s] = IF OpenIn(s) = {} THEN "quiet" ELSE "busy"]
    /\ excused' = excused \cup BegunIn(s)
    /\ UNCHANGED <<stored, saves, turns, answered, erased, late>>

(* Delete, in the table; an error is only logged. *)
DeleteRow(s, committed) ==
    LET carried == UNION {TurnsOf(p.messages) : p \in SavesOf(s)} IN
    /\ deleting[s] # "no"
    /\ stored' = IF committed THEN [stored EXCEPT ![s] = <<>>] ELSE stored
    /\ deleting' = [deleting EXCEPT ![s] = "no"]
    /\ excused' = excused \cup BegunIn(s)
    /\ IF committed /\ deleting[s] = "quiet"
       THEN /\ erased' = erased \cup BegunIn(s)
            /\ late' = (late \ BegunIn(s)) \cup carried
       ELSE UNCHANGED <<erased, late>>
    /\ UNCHANGED <<memory, recent, saves, turns, answered>>

-----------------------------------------------------------------------------
(* The agent loop *)

AfterToolsLate(t) ==                                    \* mutant: off by one
    IF iteration[t] < MaxIterations THEN {"llm"} ELSE {"save", "force"}

(* Where a reply with tool calls leads: on, or at the cap to the end. *)
AfterTools(t) == IF iteration[t] + 1 < MaxIterations THEN {"llm"} ELSE {"save", "force"}

(* The LLM asks for n tools and each gets its result message.  At the cap   *)
(* Run stops where it is, and RunStream asks once more without tools: the   *)
(* entry point makes no other difference and is chosen here.                *)
CallTools(t, n) ==
    /\ pc[t] = "llm"
    /\ messages' = [messages EXCEPT ![t] = Append(@, Message("call", t))
                                           \o [i \in 1 .. n |-> Message("tool", t)]]
    /\ iteration' = [iteration EXCEPT ![t] = @ + 1]
    /\ \E next \in AfterTools(t) : pc' = [pc EXCEPT ![t] = next]
    /\ UNCHANGED <<store, deleting, history>>

(* A reply, if need be the fallback. *)
Answer(t, step) ==
    /\ pc[t] = step
    /\ messages' = [messages EXCEPT ![t] = Append(@, Message("answer", t))]
    /\ pc' = [pc EXCEPT ![t] = "save"]
    /\ UNCHANGED <<store, iteration, deleting, history>>

(* The retries fail or the client leaves: nothing of the turn is kept. *)
Fail(t, step) ==
    /\ pc[t] = step
    /\ Leave(t, "failed")
    /\ UNCHANGED <<store, deleting, history>>

Restart ==
    /\ memory' = [s \in Sessions |-> <<>>] /\ recent' = <<>>
    /\ saves' = {}
    /\ pc' = [t \in Turns |-> IF Open(t) THEN "failed" ELSE pc[t]]
    /\ messages' = [t \in Turns |-> <<>>] /\ iteration' = [t \in Turns |-> 0]
    /\ deleting' = [s \in Sessions |-> "no"]
    /\ excused' = excused \cup Carried(saves)
    /\ UNCHANGED <<stored, answered, erased, late>>

CallLLM(t) == \/ \E n \in 1 .. MaxCalls : CallTools(t, n)
              \/ Answer(t, "llm")
              \/ Fail(t, "llm")

Next ==
    \/ \E t \in Turns : Begin(t) \/ Warm(t) \/ CallLLM(t) \/ Set(t)
    \/ \E t \in Turns, readable \in BOOLEAN : ReadRow(t, readable)
    \/ \E t \in Turns : Answer(t, "force") \/ Fail(t, "force")
    \/ \E p \in saves, committed \in BOOLEAN : SaveEnds(p, committed)
    \/ \E n \in 1 .. Len(recent) : Evict(n)
    \/ \E s \in Sessions : DeleteEntry(s)
    \/ \E s \in Sessions, committed \in BOOLEAN : DeleteRow(s, committed)
    \/ Restart

Spec == Init /\ [][Next]_vars

-----------------------------------------------------------------------------
(* Every session in memory has its place in the order of eviction, once. *)
TypeOK ==
    /\ memory \in [Sessions -> Histories] /\ stored \in [Sessions -> Histories]
    /\ recent \in Seq(Sessions) /\ IsInjective(recent)
    /\ \A s \in Sessions : s \in ToSet(recent) <=> memory[s] # <<>>
    /\ saves \subseteq Snapshots
    /\ pc \in [Turns -> Steps]
    /\ messages \in [Turns -> Histories]
    /\ iteration \in [Turns -> 0 .. MaxIterations]
    /\ deleting \in [Sessions -> {"no", "quiet", "busy"}]
    /\ answered \in [Sessions -> Seq(Turns)]
    /\ excused \subseteq Turns /\ erased \subseteq Turns /\ late \subseteq Turns

(* What the next turn of a session will read. *)
Current(s) == IF memory[s] # <<>> THEN memory[s] ELSE stored[s]

(* b may come right after a: a turn begins after one that has its answer or  *)
(* was cut at the cap, and goes on with its own messages.                    *)
Continues(a, b) ==
    /\ b.role # "system"
    /\ b.role = "user" => a.turn # b.turn /\ a.role \in {"system", "answer", "tool"}
    /\ b.role # "user" => a.turn = b.turn
    /\ b.role = "tool" => a.role \in {"call", "tool"}
    /\ b.role \in {"call", "answer"} => a.role \in {"user", "tool"}

CutAtFront(h) ==
    h # <<>> => /\ h[1] = System /\ Len(h) <= MaxHistory
                /\ \A i \in 3 .. Len(h) : Continues(h[i - 1], h[i])

(* Whatever overlaps, is evicted, saved late or read back, a history keeps   *)
(* its system message and its limit, and mixes no two turns: it is only ever *)
(* cut right behind the system message (session.go:97, agent.go:190).        *)
CutOnlyAtFront ==
    /\ \A s \in Sessions : CutAtFront(memory[s]) /\ CutAtFront(stored[s])
    /\ \A p \in saves : CutAtFront(p.messages)

(* The i-th turn answered in s is in h, or newer ones fill h. *)
Keeps(h, s, i) ==
    \/ answered[s][i] \in TurnsOf(h)
    \/ /\ Len(h) = MaxHistory
       /\ \A j \in 1 .. i : answered[s][j] \notin TurnsOf(h)

(* The next turn of a session reads every turn answered in it before, and so *)
(* it will after a restart once their saves are over, unless newer ones fill *)
(* the history or the turn overlapped another, its save failed, started      *)
(* during another, or was under way when its entry went, or the session was  *)
(* deleted or could not be read (session.go:58, 97, 144).                    *)
TurnsAreKept ==
    \A s \in Sessions : \A i \in 1 .. Len(answered[s]) :
        \/ answered[s][i] \in excused
        \/ /\ Keeps(Current(s), s, i)
           /\ answered[s][i] \in Carried(saves) \/ Keeps(stored[s], s, i)

(* After DELETE no turn of the session comes back, if none was open and none *)
(* of its saves was under way (session.go:158).                              *)
DeletedIsForgotten ==
    \A s \in Sessions : (TurnsOf(memory[s]) \cup TurnsOf(stored[s])) \cap (erased \ late) = {}

(* The same, for every save: "Delete removes a session from memory and the   *)
(* persistent backend" (session.go:157).                                     *)
DeletedStaysDeleted ==
    \A s \in Sessions : TurnsOf(stored[s]) \cap erased = {}
=============================================================================
