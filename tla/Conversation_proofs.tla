------------------------- MODULE Conversation_proofs -------------------------
(***************************************************************************)
(* What holds of the histories of chat sessions for any number of          *)
(* sessions, turns, tool calls and limits: they are only cut at the front, *)
(* a deleted session is forgotten, and a turn is lost only to a named      *)
(* event.                                                                  *)
(***************************************************************************)
EXTENDS Conversation, SequenceTheorems, TLAPS

LastOf(h) == h[Len(h)]

(* A history that can be stored: the last turn in it is over. *)
Closed(h) == CutAtFront(h) /\ (h # <<>> => LastOf(h).role \in {"answer", "tool"})

(* A history turn t works on. *)
Growing(h, t, roles) ==
    /\ Len(h) >= 2 /\ h[1] = System
    /\ \A i \in 3 .. Len(h) : Continues(h[i - 1], h[i])
    /\ LastOf(h).turn = t /\ LastOf(h).role \in roles

(* What Ask makes of a history. *)
Asked(h, t) == Append(IF h = <<>> THEN <<System>> ELSE h, Message("user", t))

(* What CallTools makes of it. *)
Called(h, t, n) ==
    Append(h, Message("call", t)) \o [i \in 1 .. n |-> Message("tool", t)]

(* What a message is. *)
LEMMA MessageType ==
    /\ System \in Messages /\ System.role = "system" /\ System.turn = NoTurn
    /\ \A t \in Turns, role \in {"user", "call", "tool", "answer"} :
           /\ Message(role, t) \in Messages
           /\ Message(role, t).role = role /\ Message(role, t).turn = t
  BY DEF Messages, Message, System

(* Adding the user's message to a history without this turn starts the turn. *)
LEMMA Asking ==
  ASSUME NEW h \in Histories, Closed(h), NEW t \in Turns, t \notin TurnsOf(h)
  PROVE  /\ Asked(h, t) \in Histories /\ Growing(Asked(h, t), t, {"user", "tool"})
         /\ TurnsOf(Asked(h, t)) \subseteq TurnsOf(h) \cup {t}
<1> DEFINE f == IF h = <<>> THEN <<System>> ELSE h
           m == Message("user", t)
           g == Asked(h, t)
<1>1. f \in Seq(Messages) /\ Len(f) >= 1 /\ f[1] = System
      /\ \A i \in 3 .. Len(f) : Continues(f[i - 1], f[i])
  BY MessageType DEF Closed, CutAtFront, Histories
<1>2. \A i \in 1 .. Len(f) : f[i].turn = NoTurn \/ f[i].turn \in TurnsOf(h)
  BY MessageType DEF TurnsOf, Histories
<1>3. m \in Messages /\ m.role = "user" /\ m.turn = t /\ t # NoTurn
  BY MessageType, NoTurnAssumption
<1>4. /\ g \in Seq(Messages) /\ Len(g) = Len(f) + 1
      /\ \A i \in 1 .. Len(f) : g[i] = f[i]
      /\ g[Len(f) + 1] = m
  BY <1>1, <1>3, AppendProperties DEF Asked
<1>5. f[Len(f)].role \in {"system", "answer", "tool"} /\ f[Len(f)].turn # t
  BY <1>2, <1>3, MessageType DEF Closed, LastOf, TurnsOf, Histories
<1>6. Continues(f[Len(f)], m)
  BY <1>3, <1>5 DEF Continues
<1>7. \A i \in 3 .. Len(g) : Continues(g[i - 1], g[i])
  <2> TAKE i \in 3 .. Len(g)
  <2>. QED BY <1>1, <1>4, <1>6
<1>8. \A i \in 1 .. Len(g) : g[i].turn = NoTurn \/ g[i].turn \in TurnsOf(h) \cup {t}
  BY <1>1, <1>2, <1>3, <1>4
<1>9. g \in Histories /\ Growing(g, t, {"user", "tool"}) /\ TurnsOf(g) \subseteq TurnsOf(h) \cup {t}
  <2>. HIDE DEF f, m, g
  <2>1. g \in Histories
    BY <1>4 DEF Histories
  <2>2. Len(g) >= 2 /\ g[1] = System /\ LastOf(g) = m
    BY <1>1, <1>4 DEF LastOf
  <2>3. TurnsOf(g) \subseteq TurnsOf(h) \cup {t}
    BY <1>8 DEF TurnsOf
  <2>. QED BY <2>1, <2>2, <2>3, <1>3, <1>7 DEF Growing
<1>. QED BY <1>9

(* A further message of the turn that fits its last one. *)
LEMMA Adding ==
  ASSUME NEW h \in Histories, NEW t \in Turns, NEW roles, Growing(h, t, roles),
         NEW role \in {"call", "tool", "answer"},
         Continues(LastOf(h), Message(role, t))
  PROVE  LET g == Append(h, Message(role, t))
         IN  g \in Histories /\ Growing(g, t, {role}) /\ TurnsOf(g) \subseteq TurnsOf(h) \cup {t}
<1> DEFINE m == Message(role, t)
           g == Append(h, m)
<1>1. m \in Messages /\ m.role = role /\ m.turn = t
  BY MessageType
<1>2. /\ g \in Seq(Messages) /\ Len(g) = Len(h) + 1
      /\ \A i \in 1 .. Len(h) : g[i] = h[i]
      /\ g[Len(h) + 1] = m
  BY <1>1, AppendProperties DEF Histories
<1>3. Len(h) \in Nat
  BY DEF Histories
<1>4. \A i \in 3 .. Len(g) : Continues(g[i - 1], g[i])
  <2> TAKE i \in 3 .. Len(g)
  <2>. QED BY <1>2, <1>3 DEF Growing, LastOf
<1>5. \A i \in 1 .. Len(g) : g[i].turn \in {h[j].turn : j \in 1 .. Len(h)} \cup {t}
  BY <1>1, <1>2, <1>3
<1>6. TurnsOf(g) \subseteq TurnsOf(h) \cup {t}
  BY <1>5 DEF TurnsOf
<1>. QED BY <1>1, <1>2, <1>3, <1>4, <1>6 DEF Growing, LastOf, Histories

(* A call followed by its results. *)
LEMMA Calling ==
  ASSUME NEW h \in Histories, NEW t \in Turns, Growing(h, t, {"user", "tool"}),
         NEW n \in Nat, n >= 1
  PROVE  /\ Called(h, t, n) \in Histories /\ Growing(Called(h, t, n), t, {"tool"})
         /\ TurnsOf(Called(h, t, n)) \subseteq TurnsOf(h) \cup {t}
<1> DEFINE f == Append(h, Message("call", t))
           r == [i \in 1 .. n |-> Message("tool", t)]
           g == Called(h, t, n)
           m == Message("tool", t)
<1>1. /\ Message("call", t).role = "call" /\ Message("call", t).turn = t
      /\ m \in Messages /\ m.role = "tool" /\ m.turn = t
  BY MessageType
<1>2. Continues(LastOf(h), Message("call", t))
  BY <1>1 DEF Growing, Continues
<1>3. f \in Seq(Messages) /\ Growing(f, t, {"call"}) /\ TurnsOf(f) \subseteq TurnsOf(h) \cup {t}
  BY <1>2, Adding DEF Histories
<1>4. r \in Seq(Messages) /\ Len(r) = n /\ \A i \in 1 .. n : r[i] = m
  BY <1>1
<1>5. /\ g \in Seq(Messages) /\ Len(g) = Len(f) + n
      /\ \A i \in 1 .. Len(f) + n : g[i] = IF i <= Len(f) THEN f[i] ELSE r[i - Len(f)]
  <2>1. g = f \o r
    BY DEF Called
  <2>. HIDE DEF f, r, g
  <2>2. /\ f \o r \in Seq(Messages) /\ Len(f \o r) = Len(f) + Len(r)
        /\ \A i \in 1 .. Len(f) + Len(r) :
               (f \o r)[i] = IF i <= Len(f) THEN f[i] ELSE r[i - Len(f)]
    BY <1>3, <1>4, ConcatProperties
  <2>. QED BY <2>1, <2>2, <1>4
<1>6. Len(f) \in Nat /\ Len(f) >= 2
  BY <1>3 DEF Growing
<1>7. \A i \in 1 .. Len(g) : IF i <= Len(f) THEN g[i] = f[i] ELSE g[i] = m
  <2>. HIDE DEF f, r, m, g
  <2> TAKE i \in 1 .. Len(g)
  <2>1. CASE i <= Len(f)
    BY <2>1, <1>5, <1>6
  <2>2. CASE i > Len(f)
    <3>1. i - Len(f) \in 1 .. n
      BY <2>2, <1>5, <1>6
    <3>. QED BY <2>2, <3>1, <1>4, <1>5, <1>6
  <2>. QED BY <2>1, <2>2, <1>5, <1>6
<1>8. f[Len(f)].turn = t /\ f[Len(f)].role = "call"
  BY <1>3 DEF Growing, LastOf
<1>9. Continues(f[Len(f)], m) /\ Continues(m, m)
  BY <1>1, <1>8 DEF Continues
<1>10. \A i \in 3 .. Len(g) : Continues(g[i - 1], g[i])
  <2> TAKE i \in 3 .. Len(g)
  <2>1. CASE i <= Len(f)
    <3>. HIDE DEF f, r, m, g
    <3>1. i \in 3 .. Len(f) /\ i \in 1 .. Len(g) /\ i - 1 \in 1 .. Len(g) /\ i - 1 <= Len(f)
      BY <2>1, <1>5, <1>6
    <3>2. Continues(f[i - 1], f[i])
      BY <3>1, <1>3 DEF Growing
    <3>3. g[i] = f[i] /\ g[i - 1] = f[i - 1]
      BY <2>1, <3>1, <1>7
    <3>. QED BY <3>2, <3>3
  <2>2. CASE i = Len(f) + 1
    <3>. HIDE DEF f, r, m, g
    <3>. QED BY <2>2, <1>5, <1>6, <1>7, <1>9
  <2>3. CASE i > Len(f) + 1
    <3>. HIDE DEF f, r, m, g
    <3>1. g[i] = m /\ g[i - 1] = m
      BY <2>3, <1>5, <1>6, <1>7
    <3>. QED BY <3>1, <1>9
  <2>. HIDE DEF f, r, m, g
  <2>. QED BY <2>1, <2>2, <2>3, <1>5, <1>6
<1>11. g[Len(g)] = m /\ g[1] = f[1] /\ Len(g) >= 2
  <2>. HIDE DEF f, r, m, g
  <2>. QED BY <1>5, <1>6, <1>7
<1>12. TurnsOf(g) \subseteq TurnsOf(f) \cup {t}
  <2>. HIDE DEF f, r, m, g
  <2>. QED BY <1>1, <1>5, <1>6, <1>7 DEF TurnsOf
<1>13. g \in Histories /\ Growing(g, t, {"tool"}) /\ TurnsOf(g) \subseteq TurnsOf(h) \cup {t}
  <2>. HIDE DEF f, r, m, g
  <2>. QED BY <1>1, <1>3, <1>5, <1>10, <1>11, <1>12 DEF Growing, LastOf, Histories
<1>. QED BY <1>13

(* Trim keeps the system message and, behind the first k, all the others. *)
LEMMA Trimmed ==
  ASSUME NEW h \in Histories, NEW t \in Turns, NEW roles, Growing(h, t, roles)
  PROVE  \E k \in Nat : LET g == Trim(h) IN
             /\ g \in Seq(Messages) /\ Len(g) \in 2 .. MaxHistory /\ Len(h) = k + Len(g)
             /\ g[1] = System /\ \A i \in 2 .. Len(g) : g[i] = h[k + i]
             /\ k > 0 => Len(g) = MaxHistory
<1> USE LimitAssumption
<1>1. h \in Seq(Messages) /\ Len(h) \in Nat /\ Len(h) >= 2 /\ h[1] = System
  BY DEF Growing, Histories
<1>2. CASE Len(h) <= MaxHistory
  <2>1. Trim(h) = h /\ \A i \in 2 .. Len(h) : 0 + i = i
    BY <1>2 DEF Trim
  <2>. QED BY <2>1, <1>1, <1>2
<1>3. CASE Len(h) > MaxHistory
  <2> DEFINE k == Len(h) - MaxHistory
             r == SubSeq(h, k + 2, Len(h))
             g == <<System>> \o r
  <2>1. k \in Nat /\ k >= 1 /\ Len(h) = k + MaxHistory
    BY <1>1, <1>3
  <2>2. Trim(h) = g
    BY <1>1, <1>3 DEF Trim
  <2>3. \A i \in k + 2 .. Len(h) : h[i] \in Messages
    BY <1>1, <2>1
  <2>4. /\ r \in Seq(Messages) /\ Len(r) = MaxHistory - 1
        /\ \A i \in 1 .. MaxHistory - 1 : r[i] = h[k + 1 + i]
    <3>. HIDE DEF k
    <3>1. k + 2 \in Int /\ Len(h) \in Int
      BY <1>1, <2>1
    <3>. QED BY <3>1, <2>1, <2>3, SubSeqProperties
  <2>5. <<System>> \in Seq(Messages) /\ Len(<<System>>) = 1 /\ <<System>>[1] = System
    BY MessageType
  <2>6. /\ g \in Seq(Messages) /\ Len(g) = MaxHistory /\ g[1] = System
        /\ \A i \in 2 .. MaxHistory : g[i] = h[k + i]
    <3>. HIDE DEF k, r
    <3>1. /\ g \in Seq(Messages) /\ Len(g) = 1 + Len(r)
          /\ \A i \in 1 .. 1 + Len(r) : g[i] = IF i <= 1 THEN <<System>>[i] ELSE r[i - 1]
      BY <2>4, <2>5, ConcatProperties
    <3>2. ASSUME NEW i \in 2 .. MaxHistory PROVE g[i] = h[k + i]
      <4>1. i - 1 \in 1 .. MaxHistory - 1 /\ k + 1 + (i - 1) = k + i
        BY <2>1
      <4>2. g[i] = r[i - 1]
        BY <3>1, <2>4
      <4>. QED BY <4>1, <4>2, <2>4
    <3>. QED BY <3>1, <3>2, <2>4, <2>5
  <2>. HIDE DEF g, k, r
  <2>. QED BY <2>1, <2>2, <2>6
<1>. QED BY <1>1, <1>2, <1>3

(* Trimming cuts behind the system message and keeps the end. *)
LEMMA Trimming ==
  ASSUME NEW h \in Histories, NEW t \in Turns, Growing(h, t, {"answer", "tool"})
  PROVE  Trim(h) \in Histories /\ Closed(Trim(h)) /\ TurnsOf(Trim(h)) \subseteq TurnsOf(h)
<1> DEFINE g == Trim(h)
<1> HIDE DEF g
<1>1. PICK k \in Nat :
          /\ g \in Seq(Messages) /\ Len(g) \in 2 .. MaxHistory /\ Len(h) = k + Len(g)
          /\ g[1] = System /\ \A i \in 2 .. Len(g) : g[i] = h[k + i]
  BY Trimmed DEF g
<1>2. h[1] = System /\ Len(g) \in Nat /\ \A i \in 3 .. Len(h) : Continues(h[i - 1], h[i])
  <2>1. Len(g) \in Nat
    BY <1>1
  <2>. QED BY <2>1 DEF Growing
<1>3. \A i \in 3 .. Len(g) : Continues(g[i - 1], g[i])
  <2> TAKE i \in 3 .. Len(g)
  <2>1. g[i] = h[k + i] /\ g[i - 1] = h[k + (i - 1)] /\ k + i \in 3 .. Len(h)
    BY <1>1, <1>2
  <2>2. (k + i) - 1 = k + (i - 1)
    BY <1>1, <1>2
  <2>. QED BY <1>2, <2>1, <2>2
<1>4. LastOf(g) = LastOf(h)
  BY <1>1, <1>2 DEF LastOf
<1>5. \A i \in 1 .. Len(g) : \E j \in 1 .. Len(h) : g[i] = h[j]
  <2> TAKE i \in 1 .. Len(g)
  <2>1. CASE i = 1
    BY <2>1, <1>1, <1>2
  <2>2. CASE i >= 2
    <3>1. g[i] = h[k + i] /\ k + i \in 1 .. Len(h)
      BY <2>2, <1>1, <1>2
    <3>. QED BY <3>1
  <2>. QED BY <2>1, <2>2
<1>6. TurnsOf(g) \subseteq TurnsOf(h)
  BY <1>5 DEF TurnsOf
<1>7. Closed(g)
  BY <1>1, <1>2, <1>3, <1>4 DEF Closed, CutAtFront, Growing
<1>. QED BY <1>1, <1>6, <1>7 DEF Histories, g
-----------------------------------------------------------------------------
(* The inductive invariant *)

(* The turns that may be in a history of s: past reading, and not forgotten. *)
Allowed(s) ==
    {t \in Turns : SessionOf[t] = s /\ pc[t] \in {"llm", "force", "save", "done", "failed"}}
        \ (erased \ late)

Sound(h, allowed) == h \in Histories /\ Closed(h) /\ TurnsOf(h) \subseteq allowed

Ends(step) == IF step = "save" THEN {"answer", "tool"} ELSE {"user", "tool"}

LocalOk(t) ==
    /\ messages[t] \in Histories
    /\ pc[t] = "warmed" => Sound(messages[t], Allowed(SessionOf[t]))
    /\ pc[t] \in {"llm", "force", "save"} =>
           /\ Growing(messages[t], t, Ends(pc[t]))
           /\ TurnsOf(messages[t]) \subseteq Allowed(SessionOf[t])

Types ==
    /\ memory \in [Sessions -> Histories]
    /\ stored \in [Sessions -> Histories]
    /\ saves \subseteq Snapshots
    /\ pc \in [Turns -> Steps] /\ messages \in [Turns -> Histories]
    /\ deleting \in [Sessions -> {"no", "quiet", "busy"}]

(* Every history in the store holds turns of its own session only. *)
StoreIsSound ==
    /\ \A s \in Sessions : Sound(memory[s], Allowed(s)) /\ Sound(stored[s], Allowed(s))
    /\ \A p \in saves : Sound(p.messages, Allowed(SessionOf[p.turn]))

LocalsAreSound == \A t \in Turns : LocalOk(t)

(* A turn is erased when it is over. *)
ErasedAreOver == \A t \in erased : t \in Turns => pc[t] \in {"done", "failed"}

(* While a deletion is quiet the session is not in memory nor in use. *)
QuietIsEmpty ==
    \A s \in Sessions : deleting[s] = "quiet" =>
        memory[s] = <<>> /\ \A t \in Turns : SessionOf[t] = s => ~Open(t)

IInv == Types /\ StoreIsSound /\ LocalsAreSound /\ ErasedAreOver /\ QuietIsEmpty

(* The empty history is sound. *)
LEMMA EmptyIsSound == \A allowed : Sound(<<>>, allowed)
  BY DEF Sound, Closed, CutAtFront, TurnsOf, Histories

(* A sound history stays so when more turns are allowed. *)
LEMMA SoundGrows ==
  ASSUME NEW h, NEW a, NEW b, Sound(h, a), a \subseteq b PROVE Sound(h, b)
  BY DEF Sound

LEMMA InitIInv == Init => IInv
<1> SUFFICES ASSUME Init PROVE IInv
  OBVIOUS
<1>1. <<>> \in Histories
  BY DEF Histories
<1>2. Types
  BY <1>1 DEF Init, Types, Steps
<1>3. StoreIsSound
  BY EmptyIsSound DEF Init, StoreIsSound
<1>4. LocalsAreSound
  BY <1>1 DEF Init, LocalsAreSound, LocalOk
<1>. QED BY <1>2, <1>3, <1>4 DEF Init, IInv, ErasedAreOver, QuietIsEmpty

(* A step of one turn t to step x with history g, which erases nothing. *)
LEMMA OneTurn ==
  ASSUME IInv, NEW t \in Turns, NEW x \in Steps, NEW g \in Histories,
         pc[t] \notin {"done", "failed"}, x # "new",
         pc[t] \in {"llm", "force", "save"} => x \in {"llm", "force", "save", "done", "failed"},
         pc' = [pc EXCEPT ![t] = x], messages' = [messages EXCEPT ![t] = g],
         erased' = erased, late' = late,
         x = "warmed" => Sound(g, Allowed(SessionOf[t])),
         x \in {"llm", "force", "save"} =>
             /\ Growing(g, t, Ends(x))
             /\ TurnsOf(g) \subseteq Allowed(SessionOf[t]) \cup {t}
  PROVE  /\ \A s \in Sessions : Allowed(s) \subseteq Allowed(s)'
         /\ LocalsAreSound' /\ ErasedAreOver'
         /\ pc' \in [Turns -> Steps] /\ messages' \in [Turns -> Histories]
<1>1. pc' \in [Turns -> Steps] /\ messages' \in [Turns -> Histories]
  BY DEF IInv, Types
<1>2. \A u \in Turns : pc'[u] = (IF u = t THEN x ELSE pc[u])
                       /\ messages'[u] = (IF u = t THEN g ELSE messages[u])
  BY DEF IInv, Types
<1>3. ASSUME NEW s \in Sessions PROVE Allowed(s) \subseteq Allowed(s)'
  BY <1>2 DEF Allowed
<1>4. ErasedAreOver'
  BY <1>2 DEF IInv, ErasedAreOver
<1>5. ASSUME NEW u \in Turns, u # t PROVE LocalOk(u)'
  <2>1. pc'[u] = pc[u] /\ messages'[u] = messages[u] /\ LocalOk(u)
    BY <1>2, <1>5 DEF IInv, LocalsAreSound
  <2>2. SessionOf[u] \in Sessions
    BY SessionAssumption
  <2>3. Allowed(SessionOf[u]) \subseteq Allowed(SessionOf[u])'
    BY <1>3, <2>2
  <2>. QED BY <2>1, <2>3, SoundGrows DEF LocalOk
<1>6. LocalOk(t)'
  <2>1. pc'[t] = x /\ messages'[t] = g
    BY <1>2
  <2>2. SessionOf[t] \in Sessions
    BY SessionAssumption
  <2>3. Allowed(SessionOf[t]) \subseteq Allowed(SessionOf[t])'
    BY <1>3, <2>2
  <2>4. x \in {"llm", "force", "save"} => t \in Allowed(SessionOf[t])'
    BY <2>1, <1>4 DEF Allowed, ErasedAreOver
  <2>. QED BY <2>1, <2>3, <2>4, SoundGrows DEF LocalOk
<1>7. LocalsAreSound'
  BY <1>5, <1>6 DEF LocalsAreSound
<1>. QED BY <1>1, <1>3, <1>4, <1>7

(* Where the store is unchanged it stays sound as Allowed grows. *)
LEMMA StoreKept ==
  ASSUME IInv, UNCHANGED store, \A s \in Sessions : Allowed(s) \subseteq Allowed(s)'
  PROVE  StoreIsSound'
<1>1. \A p \in saves : SessionOf[p.turn] \in Sessions
  BY SessionAssumption DEF IInv, Types, Snapshots
<1>2. memory' = memory /\ stored' = stored /\ saves' = saves
  BY DEF store
<1>. QED BY <1>1, <1>2, SoundGrows DEF IInv, StoreIsSound

(* The turn's own history after Ask, from a sound one. *)
LEMMA AskGrows ==
  ASSUME IInv, NEW t \in Turns, pc[t] \in {"new", "warm", "warmed"},
         NEW h, Sound(h, Allowed(SessionOf[t])), Ask(t, h)
  PROVE  /\ messages' = [messages EXCEPT ![t] = Asked(h, t)]
         /\ pc' = [pc EXCEPT ![t] = "llm"]
         /\ Asked(h, t) \in Histories /\ Growing(Asked(h, t), t, {"user", "tool"})
         /\ TurnsOf(Asked(h, t)) \subseteq Allowed(SessionOf[t]) \cup {t}
<1>1. t \notin Allowed(SessionOf[t])
  BY DEF Allowed
<1>2. h \in Histories /\ Closed(h) /\ t \notin TurnsOf(h) /\ TurnsOf(h) \subseteq Allowed(SessionOf[t])
  BY <1>1 DEF Sound
<1>3. messages' = [messages EXCEPT ![t] = Asked(h, t)] /\ pc' = [pc EXCEPT ![t] = "llm"]
  BY DEF Ask, Asked
<1>4. /\ Asked(h, t) \in Histories /\ Growing(Asked(h, t), t, {"user", "tool"})
      /\ TurnsOf(Asked(h, t)) \subseteq TurnsOf(h) \cup {t}
  BY <1>2, Asking
<1>. QED BY <1>2, <1>3, <1>4

-----------------------------------------------------------------------------
(* Steps of a turn *)

(* A step that leaves the store and the deletions alone and opens no turn. *)
LEMMA StoreUntouched ==
  ASSUME IInv, NEW t \in Turns, Open(t), NEW x, pc' = [pc EXCEPT ![t] = x],
         UNCHANGED <<store, deleting>>,
         \A s \in Sessions : Allowed(s) \subseteq Allowed(s)'
  PROVE  StoreIsSound' /\ QuietIsEmpty'
<1>1. StoreIsSound'
  BY StoreKept
<1>2. \A u \in Turns : u # t => pc'[u] = pc[u]
  BY DEF IInv, Types
<1>3. deleting[SessionOf[t]] # "quiet"
  BY SessionAssumption DEF IInv, QuietIsEmpty
<1>. QED BY <1>1, <1>2, <1>3 DEF IInv, QuietIsEmpty, Open, store

LEMMA BeginStep == ASSUME IInv, NEW t \in Turns, Begin(t) PROVE IInv'
<1> DEFINE s == SessionOf[t]
<1>1. s \in Sessions /\ pc[t] = "new"
  BY SessionAssumption DEF Begin
<1>2. /\ \A x \in Sessions : Allowed(x) \subseteq Allowed(x)'
      /\ LocalsAreSound' /\ ErasedAreOver'
      /\ pc' \in [Turns -> Steps] /\ messages' \in [Turns -> Histories]
      /\ \A u \in Turns : u # t => pc'[u] = pc[u]
  <2>1. CASE memory[s] # <<>>
    <3>1. Ask(t, memory[s]) /\ Sound(memory[s], Allowed(s)) /\ erased' = erased /\ late' = late
      BY <2>1, <1>1 DEF Begin, IInv, StoreIsSound
    <3>2. /\ messages' = [messages EXCEPT ![t] = Asked(memory[s], t)]
          /\ pc' = [pc EXCEPT ![t] = "llm"]
          /\ Asked(memory[s], t) \in Histories
          /\ Growing(Asked(memory[s], t), t, {"user", "tool"})
          /\ TurnsOf(Asked(memory[s], t)) \subseteq Allowed(s) \cup {t}
      BY <3>1, <1>1, AskGrows
    <3>. QED BY <3>1, <3>2, <1>1, OneTurn DEF Ends, Steps, IInv, Types
  <2>2. CASE memory[s] = <<>>
    <3>1. /\ pc' = [pc EXCEPT ![t] = "warm"] /\ messages' = messages
          /\ erased' = erased /\ late' = late
      BY <2>2 DEF Begin
    <3>2. messages[t] \in Histories /\ messages' = [messages EXCEPT ![t] = messages[t]]
      BY <3>1 DEF IInv, Types
    <3>. QED BY <3>1, <3>2, <1>1, OneTurn DEF Ends, Steps, IInv, Types
  <2>. QED BY <2>1, <2>2
<1>3. UNCHANGED store /\ deleting' = [deleting EXCEPT ![s] = IF @ = "no" THEN "no" ELSE "busy"]
  BY DEF Begin
<1>4. StoreIsSound'
  BY <1>2, <1>3, StoreKept
<1>5. Types'
  BY <1>1, <1>2, <1>3 DEF IInv, Types, store
<1>6. QuietIsEmpty'
  BY <1>1, <1>2, <1>3 DEF IInv, Types, QuietIsEmpty, Open, store
<1>. QED BY <1>2, <1>4, <1>5, <1>6 DEF IInv

LEMMA ReadRowStep ==
  ASSUME IInv, NEW t \in Turns, NEW readable \in BOOLEAN, ReadRow(t, readable) PROVE IInv'
<1> DEFINE s == SessionOf[t]
<1>1. /\ s \in Sessions /\ pc[t] = "warm" /\ Open(t)
      /\ erased' = erased /\ late' = late /\ UNCHANGED <<store, deleting>>
  BY SessionAssumption DEF ReadRow, Open
<1>2. /\ \A x \in Sessions : Allowed(x) \subseteq Allowed(x)'
      /\ LocalsAreSound' /\ ErasedAreOver'
      /\ pc' \in [Turns -> Steps] /\ messages' \in [Turns -> Histories]
      /\ \E x \in Steps : pc' = [pc EXCEPT ![t] = x]
  <2>1. CASE readable /\ stored[s] # <<>>
    <3>1. /\ pc' = [pc EXCEPT ![t] = "warmed"]
          /\ messages' = [messages EXCEPT ![t] = stored[s]]
      BY <2>1 DEF ReadRow
    <3>2. stored[s] \in Histories /\ Sound(stored[s], Allowed(s))
      BY <1>1 DEF IInv, Types, StoreIsSound
    <3>. QED BY <3>1, <3>2, <1>1, OneTurn DEF Steps
  <2>2. CASE ~(readable /\ stored[s] # <<>>)
    <3>1. Ask(t, <<>>) /\ Sound(<<>>, Allowed(s))
      BY <2>2, EmptyIsSound DEF ReadRow
    <3>2. /\ messages' = [messages EXCEPT ![t] = Asked(<<>>, t)]
          /\ pc' = [pc EXCEPT ![t] = "llm"]
          /\ Asked(<<>>, t) \in Histories
          /\ Growing(Asked(<<>>, t), t, {"user", "tool"})
          /\ TurnsOf(Asked(<<>>, t)) \subseteq Allowed(s) \cup {t}
      BY <3>1, <1>1, AskGrows
    <3>. QED BY <3>2, <1>1, OneTurn DEF Ends, Steps
  <2>. QED BY <2>1, <2>2
<1>3. StoreIsSound' /\ QuietIsEmpty'
  BY <1>1, <1>2, StoreUntouched
<1>. QED BY <1>1, <1>2, <1>3 DEF IInv, Types, store

LEMMA WarmStep == ASSUME IInv, NEW t \in Turns, Warm(t) PROVE IInv'
<1> DEFINE s == SessionOf[t]
<1>1. /\ s \in Sessions /\ pc[t] = "warmed" /\ Open(t)
      /\ erased' = erased /\ late' = late
      /\ UNCHANGED <<stored, saves, deleting>> /\ memory' = [memory EXCEPT ![s] = messages[t]]
  BY SessionAssumption DEF Warm, Open, history
<1>2. Sound(messages[t], Allowed(s)) /\ messages[t] \in Histories
  BY <1>1 DEF IInv, LocalsAreSound, LocalOk
<1>3. /\ messages' = [messages EXCEPT ![t] = Asked(messages[t], t)]
      /\ pc' = [pc EXCEPT ![t] = "llm"]
      /\ Asked(messages[t], t) \in Histories
      /\ Growing(Asked(messages[t], t), t, {"user", "tool"})
      /\ TurnsOf(Asked(messages[t], t)) \subseteq Allowed(s) \cup {t}
  BY <1>1, <1>2, AskGrows DEF Warm
<1>4. /\ \A x \in Sessions : Allowed(x) \subseteq Allowed(x)'
      /\ LocalsAreSound' /\ ErasedAreOver'
      /\ pc' \in [Turns -> Steps] /\ messages' \in [Turns -> Histories]
  BY <1>1, <1>3, OneTurn DEF Ends, Steps
<1>5. StoreIsSound'
  <2>1. \A x \in Sessions : Sound(memory'[x], Allowed(x)) /\ Sound(stored'[x], Allowed(x))
    BY <1>1, <1>2 DEF IInv, Types, StoreIsSound
  <2>2. \A p \in saves' : SessionOf[p.turn] \in Sessions
                          /\ Sound(p.messages, Allowed(SessionOf[p.turn]))
    BY <1>1, SessionAssumption DEF IInv, Types, StoreIsSound, Snapshots
  <2>. QED BY <2>1, <2>2, <1>4, SoundGrows DEF StoreIsSound
<1>6. QuietIsEmpty'
  <2>1. deleting[s] # "quiet"
    BY <1>1 DEF IInv, QuietIsEmpty
  <2>2. \A u \in Turns : u # t => pc'[u] = pc[u]
    BY <1>3 DEF IInv, Types
  <2>. QED BY <2>1, <2>2, <1>1 DEF IInv, Types, QuietIsEmpty, Open
<1>7. Types'
  BY <1>1, <1>2, <1>4 DEF IInv, Types
<1>. QED BY <1>4, <1>5, <1>6, <1>7 DEF IInv

LEMMA CallToolsStep ==
  ASSUME IInv, NEW t \in Turns, NEW n \in 1 .. MaxCalls, CallTools(t, n) PROVE IInv'
<1> DEFINE g == Called(messages[t], t, n)
<1>1. /\ pc[t] = "llm" /\ Open(t) /\ n \in Nat /\ n >= 1
      /\ erased' = erased /\ late' = late /\ UNCHANGED <<store, deleting>>
      /\ messages' = [messages EXCEPT ![t] = g]
  BY LimitAssumption DEF CallTools, Called, Open, history, IInv, Types
<1>2. PICK x \in {"llm", "save", "force"} : pc' = [pc EXCEPT ![t] = x]
  BY DEF CallTools, AfterTools
<1>3. /\ messages[t] \in Histories /\ Growing(messages[t], t, {"user", "tool"})
      /\ TurnsOf(messages[t]) \subseteq Allowed(SessionOf[t])
  BY <1>1 DEF IInv, LocalsAreSound, LocalOk, Ends
<1>4. g \in Histories /\ Growing(g, t, {"tool"}) /\ TurnsOf(g) \subseteq TurnsOf(messages[t]) \cup {t}
  BY <1>1, <1>3, Calling
<1> HIDE DEF g
<1>5. Growing(g, t, Ends(x)) /\ TurnsOf(g) \subseteq Allowed(SessionOf[t]) \cup {t}
  BY <1>3, <1>4 DEF Growing, Ends
<1>6. /\ \A s \in Sessions : Allowed(s) \subseteq Allowed(s)'
      /\ LocalsAreSound' /\ ErasedAreOver'
      /\ pc' \in [Turns -> Steps] /\ messages' \in [Turns -> Histories]
  BY <1>1, <1>2, <1>4, <1>5, OneTurn DEF Steps
<1>7. StoreIsSound' /\ QuietIsEmpty'
  BY <1>1, <1>2, <1>6, StoreUntouched
<1>. QED BY <1>1, <1>6, <1>7 DEF IInv, Types, store

LEMMA AnswerStep ==
  ASSUME IInv, NEW t \in Turns, NEW step \in {"llm", "force"}, Answer(t, step) PROVE IInv'
<1> DEFINE g == Append(messages[t], Message("answer", t))
<1>1. /\ pc[t] \in {"llm", "force"} /\ Open(t)
      /\ erased' = erased /\ late' = late /\ UNCHANGED <<store, deleting>>
      /\ messages' = [messages EXCEPT ![t] = g] /\ pc' = [pc EXCEPT ![t] = "save"]
  BY DEF Answer, Open, history, IInv, Types
<1>2. /\ messages[t] \in Histories /\ Growing(messages[t], t, {"user", "tool"})
      /\ TurnsOf(messages[t]) \subseteq Allowed(SessionOf[t])
  BY <1>1 DEF IInv, LocalsAreSound, LocalOk, Ends
<1>3. Continues(LastOf(messages[t]), Message("answer", t))
  BY <1>2, MessageType DEF Growing, Continues
<1>4. g \in Histories /\ Growing(g, t, {"answer"}) /\ TurnsOf(g) \subseteq TurnsOf(messages[t]) \cup {t}
  BY <1>2, <1>3, Adding
<1> HIDE DEF g
<1>5. Growing(g, t, Ends("save")) /\ TurnsOf(g) \subseteq Allowed(SessionOf[t]) \cup {t}
  BY <1>2, <1>4 DEF Growing, Ends
<1>6. /\ \A s \in Sessions : Allowed(s) \subseteq Allowed(s)'
      /\ LocalsAreSound' /\ ErasedAreOver'
      /\ pc' \in [Turns -> Steps] /\ messages' \in [Turns -> Histories]
  BY <1>1, <1>4, <1>5, OneTurn DEF Steps
<1>7. StoreIsSound' /\ QuietIsEmpty'
  BY <1>1, <1>6, StoreUntouched
<1>. QED BY <1>1, <1>6, <1>7 DEF IInv, Types, store

LEMMA FailStep ==
  ASSUME IInv, NEW t \in Turns, NEW step \in {"llm", "force"}, Fail(t, step) PROVE IInv'
<1>1. /\ pc[t] \in {"llm", "force"} /\ Open(t)
      /\ erased' = erased /\ late' = late /\ UNCHANGED <<store, deleting>>
      /\ messages' = [messages EXCEPT ![t] = <<>>] /\ pc' = [pc EXCEPT ![t] = "failed"]
  BY DEF Fail, Leave, Open, history
<1>2. <<>> \in Histories
  BY DEF Histories
<1>3. /\ \A s \in Sessions : Allowed(s) \subseteq Allowed(s)'
      /\ LocalsAreSound' /\ ErasedAreOver'
      /\ pc' \in [Turns -> Steps] /\ messages' \in [Turns -> Histories]
  BY <1>1, <1>2, OneTurn DEF Steps
<1>4. StoreIsSound' /\ QuietIsEmpty'
  BY <1>1, <1>3, StoreUntouched
<1>. QED BY <1>1, <1>3, <1>4 DEF IInv, Types, store

LEMMA SetStep == ASSUME IInv, NEW t \in Turns, Set(t) PROVE IInv'
<1> DEFINE s == SessionOf[t]
           h == Trim(messages[t])
<1>1. /\ s \in Sessions /\ pc[t] = "save" /\ Open(t)
      /\ erased' = erased /\ late' = late /\ UNCHANGED <<stored, deleting>>
      /\ messages' = [messages EXCEPT ![t] = <<>>] /\ pc' = [pc EXCEPT ![t] = "done"]
      /\ saves' = saves \cup {[turn |-> t, messages |-> h]}
  BY SessionAssumption DEF Set, Leave, Open
<1>2. /\ memory' = [x \in Sessions |-> memory'[x]]
      /\ memory'[s] = h
      /\ \A x \in Sessions : x # s => memory'[x] \in {<<>>, memory[x]}
  BY <1>1 DEF Set
<1>3. Sound(h, Allowed(s)) /\ h \in Histories
  BY <1>1, Trimming DEF IInv, LocalsAreSound, LocalOk, Ends, Sound
<1>4. <<>> \in Histories
  BY DEF Histories
<1>5. /\ \A x \in Sessions : Allowed(x) \subseteq Allowed(x)'
      /\ LocalsAreSound' /\ ErasedAreOver'
      /\ pc' \in [Turns -> Steps] /\ messages' \in [Turns -> Histories]
  BY <1>1, <1>4, OneTurn DEF Steps
<1> HIDE DEF h
<1>6. StoreIsSound'
  <2>1. \A x \in Sessions : Sound(memory'[x], Allowed(x)) /\ Sound(stored'[x], Allowed(x))
    BY <1>1, <1>2, <1>3, EmptyIsSound DEF IInv, StoreIsSound
  <2>2. \A p \in saves' : SessionOf[p.turn] \in Sessions
                          /\ Sound(p.messages, Allowed(SessionOf[p.turn]))
    <3> TAKE p \in saves'
    <3>1. CASE p \in saves
      BY <3>1, SessionAssumption DEF IInv, Types, StoreIsSound, Snapshots
    <3>2. CASE p = [turn |-> t, messages |-> h]
      BY <3>2, <1>1, <1>3
    <3>. QED BY <3>1, <3>2, <1>1
  <2>. QED BY <2>1, <2>2, <1>5, SoundGrows DEF StoreIsSound
<1>7. QuietIsEmpty'
  <2>1. deleting[s] # "quiet"
    BY <1>1 DEF IInv, QuietIsEmpty
  <2>2. \A u \in Turns : u # t => pc'[u] = pc[u]
    BY <1>1 DEF IInv, Types
  <2>. QED BY <2>1, <2>2, <1>1, <1>2 DEF IInv, Types, QuietIsEmpty, Open
<1>8. Types'
  <2>1. memory' \in [Sessions -> Histories]
    BY <1>2, <1>3, <1>4 DEF IInv, Types
  <2>2. saves' \subseteq Snapshots
    BY <1>1, <1>3 DEF IInv, Types, Snapshots
  <2>. QED BY <2>1, <2>2, <1>1, <1>2, <1>5 DEF IInv, Types
<1>. QED BY <1>5, <1>6, <1>7, <1>8 DEF IInv

-----------------------------------------------------------------------------
(* Steps of the store alone *)

(* Where turns and what is erased stay as they are, so does what is allowed. *)
LEMMA TurnsKept ==
  ASSUME IInv, UNCHANGED <<pc, messages, erased, late>>
  PROVE  LocalsAreSound' /\ ErasedAreOver' /\ \A s \in Sessions : Allowed(s)' = Allowed(s)
<1>1. \A s \in Sessions : Allowed(s)' = Allowed(s)
  BY DEF Allowed
<1>. QED BY <1>1, SessionAssumption DEF IInv, LocalsAreSound, LocalOk, ErasedAreOver

LEMMA SaveEndsStep ==
  ASSUME IInv, NEW p \in saves, NEW committed \in BOOLEAN, SaveEnds(p, committed) PROVE IInv'
<1>1. /\ UNCHANGED <<memory, deleting, pc, messages, erased, late>>
      /\ saves' \subseteq saves
      /\ stored' = [stored EXCEPT ![SessionOf[p.turn]] = p.messages] \/ stored' = stored
  BY DEF SaveEnds, turns
<1>2. LocalsAreSound' /\ ErasedAreOver' /\ \A s \in Sessions : Allowed(s)' = Allowed(s)
  BY <1>1, TurnsKept
<1>3. /\ SessionOf[p.turn] \in Sessions /\ p.messages \in Histories
      /\ Sound(p.messages, Allowed(SessionOf[p.turn]))
  BY SessionAssumption DEF IInv, Types, StoreIsSound, Snapshots
<1>4. StoreIsSound'
  <2>1. \A s \in Sessions : Sound(memory[s], Allowed(s)) /\ Sound(stored'[s], Allowed(s))
    BY <1>1, <1>3 DEF IInv, Types, StoreIsSound
  <2>2. \A q \in saves' : SessionOf[q.turn] \in Sessions
                          /\ Sound(q.messages, Allowed(SessionOf[q.turn]))
    BY <1>1, SessionAssumption DEF IInv, Types, StoreIsSound, Snapshots
  <2>. QED BY <2>1, <2>2, <1>1, <1>2 DEF StoreIsSound
<1>5. Types'
  BY <1>1, <1>3 DEF IInv, Types
<1>6. QuietIsEmpty'
  BY <1>1 DEF IInv, QuietIsEmpty, Open
<1>. QED BY <1>2, <1>4, <1>5, <1>6 DEF IInv

(* Entries that only go from memory leave the store sound. *)
LEMMA EntriesGo ==
  ASSUME IInv, UNCHANGED <<stored, saves, pc, messages, erased, late>>,
         memory' = [s \in Sessions |-> memory'[s]],
         \A s \in Sessions : memory'[s] \in {<<>>, memory[s]},
         deleting' \in [Sessions -> {"no", "quiet", "busy"}],
         \A s \in Sessions : deleting'[s] = "quiet" =>
             deleting[s] = "quiet" \/ (memory'[s] = <<>> /\ OpenIn(s) = {})
  PROVE  IInv'
<1>1. LocalsAreSound' /\ ErasedAreOver' /\ \A s \in Sessions : Allowed(s)' = Allowed(s)
  BY TurnsKept
<1>2. <<>> \in Histories
  BY DEF Histories
<1>3. StoreIsSound'
  <2>1. \A s \in Sessions : Sound(memory'[s], Allowed(s)) /\ Sound(stored[s], Allowed(s))
    BY EmptyIsSound DEF IInv, StoreIsSound
  <2>2. \A q \in saves : SessionOf[q.turn] \in Sessions
                         /\ Sound(q.messages, Allowed(SessionOf[q.turn]))
    BY SessionAssumption DEF IInv, Types, StoreIsSound, Snapshots
  <2>. QED BY <2>1, <2>2, <1>1 DEF StoreIsSound
<1>4. Types'
  <2>1. memory' \in [Sessions -> Histories]
    BY <1>2 DEF IInv, Types
  <2>. QED BY <2>1 DEF IInv, Types
<1>5. QuietIsEmpty'
  BY DEF IInv, QuietIsEmpty, Open, OpenIn
<1>. QED BY <1>1, <1>3, <1>4, <1>5 DEF IInv

LEMMA EvictStep == ASSUME IInv, NEW n \in 1 .. Len(recent), Evict(n) PROVE IInv'
<1>1. /\ UNCHANGED <<stored, saves, pc, messages, deleting, erased, late>>
      /\ memory' = [s \in Sessions |-> memory'[s]]
      /\ \A s \in Sessions : memory'[s] \in {<<>>, memory[s]}
  BY DEF Evict, turns, history
<1>. QED BY <1>1, EntriesGo DEF IInv, Types

LEMMA DeleteEntryStep == ASSUME IInv, NEW s \in Sessions, DeleteEntry(s) PROVE IInv'
<1>1. /\ UNCHANGED <<stored, saves, pc, messages, erased, late>>
      /\ memory' = [memory EXCEPT ![s] = <<>>]
      /\ deleting' = [deleting EXCEPT ![s] = IF OpenIn(s) = {} THEN "quiet" ELSE "busy"]
  BY DEF DeleteEntry, EntriesWithout, turns
<1>2. /\ memory' = [x \in Sessions |-> memory'[x]]
      /\ \A x \in Sessions : memory'[x] \in {<<>>, memory[x]}
      /\ memory'[s] = <<>>
  BY <1>1 DEF IInv, Types
<1>3. /\ deleting' \in [Sessions -> {"no", "quiet", "busy"}]
      /\ \A x \in Sessions : deleting'[x] = "quiet" =>
             deleting[x] = "quiet" \/ (memory'[x] = <<>> /\ OpenIn(x) = {})
  BY <1>1, <1>2 DEF IInv, Types
<1>. QED BY <1>1, <1>2, <1>3, EntriesGo

(* Erasing a quiet session takes no turn away from what any history may hold: *)
(* its own are gone but for those that saves carry, which are late.           *)
LEMMA DeleteRowStep ==
  ASSUME IInv, NEW s \in Sessions, NEW committed \in BOOLEAN, DeleteRow(s, committed) PROVE IInv'
<1> DEFINE carried == UNION {TurnsOf(p.messages) : p \in SavesOf(s)}
<1>1. /\ UNCHANGED <<memory, saves, pc, messages>>
      /\ stored' = (IF committed THEN [stored EXCEPT ![s] = <<>>] ELSE stored)
      /\ deleting' = [deleting EXCEPT ![s] = "no"]
  BY DEF DeleteRow, turns
<1>2. <<>> \in Histories
  BY DEF Histories
<1>3. Types'
  BY <1>1, <1>2 DEF IInv, Types
<1>4. QuietIsEmpty'
  BY <1>1 DEF IInv, Types, QuietIsEmpty, Open
<1>5. \A x \in Sessions : stored'[x] \in {<<>>, stored[x]}
  BY <1>1 DEF IInv, Types
<1>6. CASE committed /\ deleting[s] = "quiet"
  <2>1. erased' = erased \cup BegunIn(s) /\ late' = (late \ BegunIn(s)) \cup carried
    BY <1>6 DEF DeleteRow
  <2>2. memory[s] = <<>> /\ stored'[s] = <<>> /\ \A t \in Turns : SessionOf[t] = s => ~Open(t)
    BY <1>1, <1>6 DEF IInv, Types, QuietIsEmpty
  <2>3. \A x \in Sessions : Allowed(x) \ BegunIn(s) \subseteq Allowed(x)'
    BY <1>1, <2>1 DEF Allowed
  <2>4. \A x \in Sessions : x # s => Allowed(x) \subseteq Allowed(x)'
    BY <2>3 DEF Allowed, BegunIn
  <2>5. Allowed(s) \cap carried \subseteq Allowed(s)'
    BY <1>1, <2>1 DEF Allowed
  <2> HIDE DEF carried
  <2>6. StoreIsSound'
    <3>1. ASSUME NEW x \in Sessions
          PROVE  Sound(memory[x], Allowed(x)') /\ Sound(stored'[x], Allowed(x)')
      <4>1. CASE x = s
        BY <4>1, <2>2, EmptyIsSound
      <4>2. CASE x # s
        BY <4>2, <1>5, <2>4, SoundGrows, EmptyIsSound DEF IInv, StoreIsSound
      <4>. QED BY <4>1, <4>2
    <3>2. ASSUME NEW p \in saves PROVE Sound(p.messages, Allowed(SessionOf[p.turn])')
      <4>1. SessionOf[p.turn] \in Sessions /\ Sound(p.messages, Allowed(SessionOf[p.turn]))
        BY SessionAssumption DEF IInv, Types, StoreIsSound, Snapshots
      <4>2. CASE SessionOf[p.turn] = s
        <5>1. TurnsOf(p.messages) \subseteq carried
          BY <4>2 DEF SavesOf, carried
        <5>. QED BY <5>1, <4>1, <4>2, <2>5 DEF Sound
      <4>3. CASE SessionOf[p.turn] # s
        BY <4>1, <4>3, <2>4, SoundGrows
      <4>. QED BY <4>2, <4>3
    <3>. QED BY <3>1, <3>2, <1>1 DEF StoreIsSound
  <2>7. LocalsAreSound'
    <3> SUFFICES ASSUME NEW t \in Turns PROVE LocalOk(t)'
      BY DEF LocalsAreSound
    <3>1. LocalOk(t) /\ pc'[t] = pc[t] /\ messages'[t] = messages[t] /\ SessionOf[t] \in Sessions
      BY <1>1, SessionAssumption DEF IInv, LocalsAreSound
    <3>2. CASE Open(t)
      <4>1. Allowed(SessionOf[t]) \subseteq Allowed(SessionOf[t])'
        BY <3>1, <3>2, <2>2, <2>4
      <4>. QED BY <3>1, <4>1, SoundGrows DEF LocalOk
    <3>3. CASE ~Open(t)
      BY <3>1, <3>3 DEF LocalOk, Open
    <3>. QED BY <3>2, <3>3
  <2>8. ErasedAreOver'
    <3>1. \A t \in BegunIn(s) : pc[t] \in {"done", "failed"}
      BY <2>2 DEF BegunIn, Open, IInv, Types, Steps
    <3>. QED BY <3>1, <2>1, <1>1 DEF IInv, ErasedAreOver
  <2>. QED BY <1>3, <1>4, <2>6, <2>7, <2>8 DEF IInv
<1>7. CASE ~(committed /\ deleting[s] = "quiet")
  <2>1. erased' = erased /\ late' = late
    BY <1>7 DEF DeleteRow
  <2>2. LocalsAreSound' /\ ErasedAreOver' /\ \A x \in Sessions : Allowed(x)' = Allowed(x)
    BY <1>1, <2>1, TurnsKept
  <2>3. StoreIsSound'
    <3>1. \A x \in Sessions : Sound(memory[x], Allowed(x)) /\ Sound(stored'[x], Allowed(x))
      BY <1>5, EmptyIsSound DEF IInv, StoreIsSound
    <3>2. \A q \in saves : SessionOf[q.turn] \in Sessions
                           /\ Sound(q.messages, Allowed(SessionOf[q.turn]))
      BY SessionAssumption DEF IInv, Types, StoreIsSound, Snapshots
    <3>. QED BY <3>1, <3>2, <2>2, <1>1 DEF StoreIsSound
  <2>. QED BY <1>3, <1>4, <2>2, <2>3 DEF IInv
<1>. QED BY <1>6, <1>7

LEMMA RestartStep == ASSUME IInv, Restart PROVE IInv'
<1>1. /\ memory' = [s \in Sessions |-> <<>>] /\ saves' = {} /\ stored' = stored
      /\ pc' = [t \in Turns |-> IF Open(t) THEN "failed" ELSE pc[t]]
      /\ messages' = [t \in Turns |-> <<>>] /\ deleting' = [s \in Sessions |-> "no"]
      /\ erased' = erased /\ late' = late
  BY DEF Restart
<1>2. <<>> \in Histories
  BY DEF Histories
<1>3. \A t \in Turns : ~Open(t)'
  BY <1>1 DEF Open
<1>4. \A s \in Sessions : Allowed(s) \subseteq Allowed(s)'
  BY <1>1 DEF Allowed, Open
<1>5. StoreIsSound'
  <2>1. \A s \in Sessions : Sound(memory'[s], Allowed(s)') /\ Sound(stored[s], Allowed(s)')
    BY <1>1, <1>4, EmptyIsSound, SoundGrows DEF IInv, StoreIsSound
  <2>. QED BY <2>1, <1>1 DEF StoreIsSound
<1>6. LocalsAreSound'
  BY <1>1, <1>2, <1>3 DEF LocalsAreSound, LocalOk, Open
<1>7. Types'
  BY <1>1, <1>2 DEF IInv, Types, Steps, Open
<1>8. ErasedAreOver' /\ QuietIsEmpty'
  BY <1>1 DEF IInv, ErasedAreOver, QuietIsEmpty, Open
<1>. QED BY <1>5, <1>6, <1>7, <1>8 DEF IInv

LEMMA NextIInv == IInv /\ [Next]_vars => IInv'
<1> SUFFICES ASSUME IInv, [Next]_vars PROVE IInv'
  OBVIOUS
<1>1. CASE \E t \in Turns : Begin(t) \/ Warm(t) \/ CallLLM(t) \/ Set(t)
  BY <1>1, BeginStep, WarmStep, CallToolsStep, AnswerStep, FailStep, SetStep DEF CallLLM
<1>2. CASE \E t \in Turns, readable \in BOOLEAN : ReadRow(t, readable)
  BY <1>2, ReadRowStep
<1>3. CASE \E t \in Turns : Answer(t, "force") \/ Fail(t, "force")
  BY <1>3, AnswerStep, FailStep
<1>4. CASE \E p \in saves, committed \in BOOLEAN : SaveEnds(p, committed)
  BY <1>4, SaveEndsStep
<1>5. CASE \E n \in 1 .. Len(recent) : Evict(n)
  BY <1>5, EvictStep
<1>6. CASE \E s \in Sessions : DeleteEntry(s)
  BY <1>6, DeleteEntryStep
<1>7. CASE \E s \in Sessions, committed \in BOOLEAN : DeleteRow(s, committed)
  BY <1>7, DeleteRowStep
<1>8. CASE Restart
  BY <1>8, RestartStep
<1>9. CASE UNCHANGED vars
  <2>1. UNCHANGED <<store, deleting, pc, messages, erased, late>>
    BY <1>9 DEF vars, turns, history
  <2>2. LocalsAreSound' /\ ErasedAreOver' /\ \A s \in Sessions : Allowed(s)' = Allowed(s)
    BY <2>1, TurnsKept
  <2>3. StoreIsSound'
    BY <2>1, <2>2, StoreKept
  <2>. QED BY <2>1, <2>2, <2>3 DEF IInv, Types, QuietIsEmpty, Open, store
<1>. QED BY <1>1, <1>2, <1>3, <1>4, <1>5, <1>6, <1>7, <1>8, <1>9 DEF Next

(* The inductive invariant of chat sessions. *)
THEOREM Invariance == Spec => []IInv
  BY InitIInv, NextIInv, PTL DEF Spec

(* Histories in memory, in the table and on their way there keep the system *)
(* message and the limit and mix no two turns: session.go:97 cuts only      *)
(* behind the system message.                                               *)
THEOREM CutFrontOnly == Spec => []CutOnlyAtFront
<1>1. IInv => CutOnlyAtFront
  BY DEF IInv, StoreIsSound, Sound, Closed, CutOnlyAtFront
<1>. QED BY <1>1, Invariance, PTL

(* No turn of a session deleted while quiet comes back unless a save was     *)
(* carrying it: session.go:158.                                              *)
THEOREM Forgotten == Spec => []DeletedIsForgotten
<1>1. IInv => DeletedIsForgotten
  BY DEF IInv, StoreIsSound, Sound, Allowed, DeletedIsForgotten
<1>. QED BY <1>1, Invariance, PTL
-----------------------------------------------------------------------------
(* Types: the entries in memory and the order of eviction, and the loop *)

Once(r)   == r \in Seq(Sessions) /\ \A i, j \in 1 .. Len(r) : r[i] = r[j] => i = j
Has(r, s) == \E i \in 1 .. Len(r) : r[i] = s

(* Each session with an entry has one place in the order of eviction. *)
Ordered == Once(recent) /\ \A s \in Sessions : Has(recent, s) <=> memory[s] # <<>>

(* A turn asks the LLM only below the limit, and warms memory with a history. *)
LoopInv ==
    /\ iteration \in [Turns -> 0 .. MaxIterations]
    /\ \A t \in Turns : /\ pc[t] \in {"new", "warm", "warmed"} => iteration[t] = 0
                        /\ pc[t] = "llm" => iteration[t] < MaxIterations
                        /\ pc[t] = "warmed" => messages[t] # <<>>

Marks ==
    /\ answered \in [Sessions -> Seq(Turns)]
    /\ excused \subseteq Turns /\ erased \subseteq Turns /\ late \subseteq Turns

TypeInv == Ordered /\ LoopInv /\ Marks

(* The order without a session is the order of the others. *)
LEMMA WithoutOne ==
  ASSUME Once(recent), NEW s \in Sessions
  PROVE  Once(Without(s)) /\ \A x : Has(Without(s), x) <=> Has(recent, x) /\ x # s
<1>1. recent \in Seq(Sessions) /\ Len(recent) \in Nat /\ DOMAIN recent = 1 .. Len(recent)
      /\ \A i \in 1 .. Len(recent) : recent[i] \in Sessions
  BY DEF Once
<1>2. CASE ~Has(recent, s)
  BY <1>1, <1>2 DEF Without, ToSet, Has
<1>3. CASE Has(recent, s)
  <2> DEFINE i == CHOOSE k \in DOMAIN recent : recent[k] = s
             n == Len(recent)
             a == SubSeq(recent, 1, i - 1)
             b == SubSeq(recent, i + 1, n)
             w == a \o b
  <2>1. i \in 1 .. n /\ recent[i] = s /\ n \in Nat
    BY <1>1, <1>3 DEF Has
  <2>2. Without(s) = w
    BY <1>1, <1>3 DEF Without, ToSet, Has, RemoveAt
  <2>. HIDE DEF i
  <2>3. /\ a \in Seq(Sessions) /\ Len(a) = i - 1
        /\ \A k \in 1 .. i - 1 : a[k] = recent[k]
    <3>1. 1 \in Int /\ i - 1 \in Int /\ \A k \in 1 .. i - 1 : recent[k] \in Sessions
      BY <1>1, <2>1
    <3>. QED BY <3>1, <2>1, SubSeqProperties
  <2>4. /\ b \in Seq(Sessions) /\ Len(b) = n - i
        /\ \A k \in 1 .. n - i : b[k] = recent[i + k]
    <3>1. i + 1 \in Int /\ n \in Int /\ \A k \in i + 1 .. n : recent[k] \in Sessions
      BY <1>1, <2>1
    <3>. QED BY <3>1, <2>1, SubSeqProperties
  <2>. HIDE DEF n
  <2>5. /\ w \in Seq(Sessions) /\ Len(w) = n - 1
        /\ \A k \in 1 .. n - 1 : w[k] = IF k < i THEN recent[k] ELSE recent[k + 1]
    <3>. HIDE DEF a, b
    <3>0. /\ a \o b \in Seq(Sessions) /\ Len(a \o b) = Len(a) + Len(b)
          /\ \A k \in 1 .. Len(a) + Len(b) :
                 (a \o b)[k] = IF k <= Len(a) THEN a[k] ELSE b[k - Len(a)]
      BY <2>3, <2>4, ConcatProperties
    <3>. HIDE DEF w
    <3>1. /\ w \in Seq(Sessions) /\ Len(w) = Len(a) + Len(b)
          /\ \A k \in 1 .. Len(a) + Len(b) : w[k] = IF k <= Len(a) THEN a[k] ELSE b[k - Len(a)]
      BY <3>0 DEF w
    <3>2. ASSUME NEW k \in 1 .. n - 1
          PROVE  w[k] = IF k < i THEN recent[k] ELSE recent[k + 1]
      <4>1. CASE k < i
        BY <4>1, <2>1, <2>3, <2>4, <3>1
      <4>2. CASE k >= i
        <5>1. k - (i - 1) \in 1 .. n - i /\ i + (k - (i - 1)) = k + 1
          BY <4>2, <2>1
        <5>2. w[k] = b[k - (i - 1)]
          BY <4>2, <2>1, <2>3, <2>4, <3>1
        <5>. QED BY <4>2, <5>1, <5>2, <2>1, <2>4
      <4>. QED BY <4>1, <4>2, <2>1
    <3>. QED BY <3>1, <3>2, <2>1, <2>3, <2>4
  <2>. HIDE DEF w
  <2>6. \A j, k \in 1 .. n : recent[j] = recent[k] => j = k
    BY DEF Once, n
  <2>7. \A j, k \in 1 .. Len(w) : w[j] = w[k] => j = k
    <3> TAKE j, k \in 1 .. Len(w)
    <3> DEFINE up(l) == IF l < i THEN l ELSE l + 1
    <3>1. w[j] = recent[up(j)] /\ w[k] = recent[up(k)] /\ up(j) \in 1 .. n /\ up(k) \in 1 .. n
      BY <2>1, <2>5
    <3>2. up(j) = up(k) => j = k
      BY <2>1, <2>5
    <3>. HIDE DEF up
    <3>. QED BY <3>1, <3>2, <2>6
  <2>8. ASSUME NEW x PROVE Has(w, x) <=> Has(recent, x) /\ x # s
    <3>1. ASSUME NEW k \in 1 .. Len(w), w[k] = x PROVE Has(recent, x) /\ x # s
      <4> DEFINE l == IF k < i THEN k ELSE k + 1
      <4>1. l \in 1 .. n /\ l # i /\ recent[l] = x
        BY <3>1, <2>1, <2>5
      <4>. HIDE DEF l
      <4>. QED BY <4>1, <2>1, <2>6 DEF Has, n
    <3>2. ASSUME NEW l \in 1 .. n, recent[l] = x, x # s PROVE Has(w, x)
      <4> DEFINE k == IF l < i THEN l ELSE l - 1
      <4>1. k \in 1 .. Len(w) /\ w[k] = x
        BY <3>2, <2>1, <2>5
      <4>. HIDE DEF k
      <4>. QED BY <4>1 DEF Has
    <3>. QED BY <3>1, <3>2 DEF Has, n
  <2>. QED BY <2>2, <2>5, <2>7, <2>8 DEF Once
<1>. QED BY <1>2, <1>3

(* Touched puts the session last. *)
LEMMA TouchedLast ==
  ASSUME Once(recent), NEW s \in Sessions
  PROVE  /\ Once(Touched(s)) /\ Len(Touched(s)) >= 1
         /\ Touched(s)[Len(Touched(s))] = s
         /\ \A x : Has(Touched(s), x) <=> Has(recent, x) \/ x = s
<1> DEFINE w == Without(s)
<1>1. Once(w) /\ \A x : Has(w, x) <=> Has(recent, x) /\ x # s
  BY WithoutOne
<1> HIDE DEF w
<1>2. w \in Seq(Sessions) /\ Len(w) \in Nat /\ \A k \in 1 .. Len(w) : w[k] # s
  <2>1. ~Has(w, s)
    BY <1>1
  <2>. QED BY <1>1, <2>1 DEF Once, Has
<1>3. /\ Touched(s) \in Seq(Sessions) /\ Len(Touched(s)) = Len(w) + 1
      /\ \A k \in 1 .. Len(w) : Touched(s)[k] = w[k]
      /\ Touched(s)[Len(w) + 1] = s
  BY <1>2, AppendProperties DEF Touched, w
<1>4. Once(Touched(s))
  BY <1>1, <1>2, <1>3 DEF Once
<1>5. \A x : Has(Touched(s), x) <=> Has(w, x) \/ x = s
  BY <1>2, <1>3 DEF Has
<1>. QED BY <1>1, <1>2, <1>3, <1>4, <1>5

(* Taking the n first away. *)
LEMMA FirstGone ==
  ASSUME NEW r, Once(r), NEW n \in 0 .. Len(r)
  PROVE  LET q == SubSeq(r, n + 1, Len(r))
         IN  /\ Once(q) /\ Len(q) = Len(r) - n
             /\ \A x : Has(q, x) <=> Has(r, x) /\ \A i \in 1 .. n : r[i] # x
<1> DEFINE m == Len(r)
           q == SubSeq(r, n + 1, m)
<1>1. m \in Nat /\ n \in Nat /\ n <= m /\ \A i \in 1 .. m : r[i] \in Sessions
  BY DEF Once
<1>2. q \in Seq(Sessions) /\ Len(q) = m - n /\ \A i \in 1 .. m - n : q[i] = r[n + i]
  <2>1. n + 1 \in Int /\ m \in Int /\ \A i \in n + 1 .. m : r[i] \in Sessions
    BY <1>1
  <2> HIDE DEF m
  <2>2. /\ q \in Seq(Sessions) /\ Len(q) = IF n + 1 <= m THEN m - (n + 1) + 1 ELSE 0
        /\ \A i \in 1 .. m - (n + 1) + 1 : q[i] = r[n + 1 + i - 1]
    BY <2>1, SubSeqProperties
  <2>3. \A i \in 1 .. m - n : n + 1 + i - 1 = n + i /\ i \in 1 .. m - (n + 1) + 1
    BY <1>1
  <2>. QED BY <1>1, <2>2, <2>3
<1>3. \A i, j \in 1 .. m : r[i] = r[j] => i = j
  BY DEF Once
<1> HIDE DEF m, q
<1>4. Once(q)
  <2>1. ASSUME NEW i \in 1 .. Len(q), NEW j \in 1 .. Len(q), q[i] = q[j] PROVE i = j
    <3>1. n + i \in 1 .. m /\ n + j \in 1 .. m /\ r[n + i] = r[n + j]
      BY <2>1, <1>1, <1>2
    <3>2. n + i = n + j
      BY <3>1, <1>3
    <3>. QED BY <3>2, <1>1, <1>2
  <2>. QED BY <2>1, <1>2 DEF Once
<1>5. ASSUME NEW x PROVE Has(q, x) <=> Has(r, x) /\ \A i \in 1 .. n : r[i] # x
  <2>1. ASSUME NEW i \in 1 .. Len(q), q[i] = x PROVE Has(r, x) /\ \A j \in 1 .. n : r[j] # x
    <3>1. n + i \in 1 .. m /\ r[n + i] = x /\ n + i > n
      BY <2>1, <1>1, <1>2
    <3>2. \A j \in 1 .. n : j \in 1 .. m /\ j # n + i
      BY <1>1, <3>1
    <3>. QED BY <3>1, <3>2, <1>3 DEF Has, m
  <2>2. ASSUME NEW i \in 1 .. m, r[i] = x, \A j \in 1 .. n : r[j] # x PROVE Has(q, x)
    <3>1. i > n
      BY <2>2, <1>1
    <3>2. i - n \in 1 .. Len(q) /\ n + (i - n) = i /\ i - n \in 1 .. m - n
      BY <3>1, <1>1, <1>2
    <3>. QED BY <3>2, <2>2, <1>2 DEF Has
  <2>. QED BY <2>1, <2>2 DEF Has, m
<1>. QED BY <1>2, <1>4, <1>5 DEF m, q

(* A step of one turn in the loop. *)
LEMMA LoopStep ==
  ASSUME IInv, TypeInv, NEW t \in Turns, NEW x, NEW n \in 0 .. MaxIterations, NEW g,
         pc' = [pc EXCEPT ![t] = x], messages' = [messages EXCEPT ![t] = g],
         iteration' = [iteration EXCEPT ![t] = n],
         x \in {"new", "warm", "warmed"} => n = 0,
         x = "llm" => n < MaxIterations,
         x = "warmed" => g # <<>>
  PROVE  LoopInv'
  BY DEF IInv, Types, TypeInv, LoopInv

(* The same for Ask, from before the loop. *)
LEMMA AskInLoop ==
  ASSUME IInv, TypeInv, NEW t \in Turns, pc[t] \in {"new", "warm", "warmed"}, NEW h, Ask(t, h)
  PROVE  LoopInv'
<1>1. iteration' = [iteration EXCEPT ![t] = 0] /\ 0 \in 0 .. MaxIterations /\ 0 < MaxIterations
  BY LimitAssumption DEF TypeInv, LoopInv, Ask
<1>2. /\ pc' = [pc EXCEPT ![t] = "llm"]
      /\ messages' = [messages EXCEPT ![t] = Asked(h, t)]
  BY DEF Ask, Asked
<1>. QED BY <1>1, <1>2, LoopStep

LEMMA TurnsAreTurns == \A h \in Histories : TurnsOf(h) \subseteq Turns
  BY DEF TurnsOf, Histories, Messages, Message, System

(* The session is in memory and last in the order. *)
LEMMA OrderedTouch ==
  ASSUME Ordered, NEW s \in Sessions, recent' = Touched(s),
         memory'[s] # <<>>, \A x \in Sessions : x # s => memory'[x] = memory[x]
  PROVE  Ordered'
<1>1. Once(Touched(s)) /\ \A x : Has(Touched(s), x) <=> Has(recent, x) \/ x = s
  BY TouchedLast DEF Ordered
<1>. QED BY <1>1 DEF Ordered, Once, Has

(* The first n sessions go from memory and from the order. *)
LEMMA OrderedCut ==
  ASSUME NEW r, Once(r), NEW m, \A s \in Sessions : Has(r, s) <=> m[s] # <<>>,
         NEW n \in 0 .. Len(r), recent' = SubSeq(r, n + 1, Len(r)),
         \A s \in Sessions : memory'[s] = IF \E i \in 1 .. n : r[i] = s THEN <<>> ELSE m[s]
  PROVE  Ordered'
<1> DEFINE q == SubSeq(r, n + 1, Len(r))
<1>1. Once(q) /\ \A x : Has(q, x) <=> Has(r, x) /\ \A i \in 1 .. n : r[i] # x
  BY FirstGone
<1>2. recent' = q
  OBVIOUS
<1> HIDE DEF q
<1>3. Once(recent)' /\ \A s \in Sessions : Has(recent, s)' <=> Has(q, s)
  BY <1>1, <1>2 DEF Once, Has
<1>4. \A s \in Sessions : Has(q, s) <=> memory'[s] # <<>>
  BY <1>1
<1>. QED BY <1>3, <1>4 DEF Ordered

LEMMA InitTypeInv == Init => TypeInv
<1> SUFFICES ASSUME Init PROVE TypeInv
  OBVIOUS
<1>1. Ordered
  BY DEF Init, Ordered, Once, Has
<1>2. LoopInv /\ Marks
  BY LimitAssumption DEF Init, LoopInv, Marks
<1>. QED BY <1>1, <1>2 DEF TypeInv

LEMMA SetTypes == ASSUME IInv, TypeInv, NEW t \in Turns, Set(t) PROVE TypeInv'
<1> DEFINE s == SessionOf[t]
           h == Trim(messages[t])
           r == Touched(s)
           m == [x \in Sessions |-> IF x = s THEN h ELSE memory[x]]
<1>1. s \in Sessions /\ pc[t] = "save"
  BY SessionAssumption DEF Set
<1>2. messages[t] \in Histories /\ Growing(messages[t], t, {"answer", "tool"})
  BY <1>1 DEF IInv, LocalsAreSound, LocalOk, Ends
<1>3. h # <<>>
  BY <1>2, LimitAssumption DEF Trim, Growing, Histories
<1>4. /\ Once(r) /\ Len(r) >= 1 /\ r[Len(r)] = s
      /\ \A x : Has(r, x) <=> Has(recent, x) \/ x = s
  BY <1>1, TouchedLast DEF TypeInv, Ordered
<1>5. \A x \in Sessions : Has(r, x) <=> m[x] # <<>>
  BY <1>3, <1>4 DEF TypeInv, Ordered
<1>6. /\ memory' = [x \in Sessions |->
             IF x = s THEN h
             ELSE IF x \in (IF Len(r) > MaxSessions THEN {Head(r)} ELSE {}) THEN <<>>
             ELSE memory[x]]
      /\ recent' = IF (IF Len(r) > MaxSessions THEN {Head(r)} ELSE {}) = {} THEN r ELSE Tail(r)
      /\ Leave(t, "done")
      /\ answered' = [answered EXCEPT ![s] = Append(answered[s], t)]
      /\ excused' = excused \cup (IF SavesOf(s) # {} THEN {t} ELSE {})
             \cup UNION {Carried(SavesOf(x)) : x \in (IF Len(r) > MaxSessions THEN {Head(r)} ELSE {})}
      /\ UNCHANGED <<erased, late>>
  BY DEF Set
<1> HIDE DEF h, r
<1>7. Ordered'
  <2>1. r \in Seq(Sessions) /\ Len(r) \in Nat
    BY <1>4 DEF Once
  <2>2. CASE Len(r) > MaxSessions
    <3>1. Len(r) >= 2 /\ r # <<>> /\ Head(r) = r[1]
      BY <2>1, <2>2, LimitAssumption
    <3>2. r[1] # s
      BY <3>1, <2>1, <1>4 DEF Once
    <3>3. recent' = SubSeq(r, 1 + 1, Len(r)) /\ 1 \in 0 .. Len(r)
      <4>1. recent' = Tail(r)
        BY <2>2, <1>6
      <4>2. Tail(r) = SubSeq(r, 2, Len(r))
        BY <2>1, <3>1, TailIsSubSeq
      <4>. QED BY <2>1, <3>1, <4>1, <4>2
    <3>4. \A x \in Sessions : memory'[x] = IF \E i \in 1 .. 1 : r[i] = x THEN <<>> ELSE m[x]
      BY <2>2, <3>1, <3>2, <1>6
    <3> HIDE DEF m
    <3>. QED BY <3>3, <3>4, <1>4, <1>5, OrderedCut
  <2>3. CASE ~(Len(r) > MaxSessions)
    <3>1. recent' = r /\ memory' = m
      BY <2>3, <1>6
    <3> HIDE DEF m
    <3>2. Once(recent)' /\ \A x \in Sessions : Has(recent, x)' <=> Has(r, x)
      BY <3>1, <1>4 DEF Once, Has
    <3>. QED BY <3>1, <3>2, <1>5 DEF Ordered
  <2>. QED BY <2>2, <2>3
<1>8. LoopInv'
  <2>1. /\ pc' = [pc EXCEPT ![t] = "done"] /\ messages' = [messages EXCEPT ![t] = <<>>]
        /\ iteration' = [iteration EXCEPT ![t] = 0] /\ 0 \in 0 .. MaxIterations
    BY <1>6, LimitAssumption DEF Leave
  <2>. QED BY <2>1, LoopStep
<1>9. Marks'
  <2>1. \A x : Carried(SavesOf(x)) \subseteq Turns
    BY DEF Carried, SavesOf, IInv, Types, Snapshots
  <2>. QED BY <2>1, <1>1, <1>6 DEF TypeInv, Marks
<1>. QED BY <1>7, <1>8, <1>9 DEF TypeInv

LEMMA NextTypeInv == IInv /\ TypeInv /\ [Next]_vars => TypeInv'
<1> SUFFICES ASSUME IInv, TypeInv, [Next]_vars PROVE TypeInv'
  OBVIOUS
<1>0. ASSUME UNCHANGED <<memory, recent>> PROVE Ordered'
  BY <1>0 DEF TypeInv, Ordered, Once, Has
<1>1. ASSUME NEW t \in Turns, Begin(t) PROVE TypeInv'
  <2>1. pc[t] = "new" /\ UNCHANGED <<store, answered, erased, late>>
        /\ excused' \subseteq excused \cup OpenIn(SessionOf[t]) \cup {t}
    BY <1>1 DEF Begin
  <2>2. LoopInv'
    <3>1. CASE memory[SessionOf[t]] # <<>>
      BY <3>1, <2>1, <1>1, AskInLoop DEF Begin
    <3>2. CASE memory[SessionOf[t]] = <<>>
      BY <3>2, <2>1, <1>1 DEF Begin, TypeInv, LoopInv, IInv, Types
    <3>. QED BY <3>1, <3>2
  <2>3. Marks'
    BY <2>1 DEF TypeInv, Marks, OpenIn
  <2>. QED BY <1>0, <2>1, <2>2, <2>3 DEF TypeInv, store
<1>2. ASSUME NEW t \in Turns, NEW readable \in BOOLEAN, ReadRow(t, readable) PROVE TypeInv'
  <2>1. pc[t] = "warm" /\ UNCHANGED <<store, answered, erased, late>>
        /\ excused' \subseteq excused \cup BegunIn(SessionOf[t])
    BY <1>2 DEF ReadRow
  <2>2. LoopInv'
    <3>1. CASE readable /\ stored[SessionOf[t]] # <<>>
      BY <3>1, <2>1, <1>2 DEF ReadRow, TypeInv, LoopInv, IInv, Types
    <3>2. CASE ~(readable /\ stored[SessionOf[t]] # <<>>)
      BY <3>2, <2>1, <1>2, AskInLoop DEF ReadRow
    <3>. QED BY <3>1, <3>2
  <2>3. Marks'
    BY <2>1 DEF TypeInv, Marks, BegunIn
  <2>. QED BY <1>0, <2>1, <2>2, <2>3 DEF TypeInv, store
<1>3. ASSUME NEW t \in Turns, Warm(t) PROVE TypeInv'
  <2>1. /\ pc[t] = "warmed" /\ SessionOf[t] \in Sessions /\ UNCHANGED history
        /\ memory' = [memory EXCEPT ![SessionOf[t]] = messages[t]]
        /\ recent' = Touched(SessionOf[t]) /\ Ask(t, messages[t])
    BY <1>3, SessionAssumption DEF Warm
  <2>2. /\ memory'[SessionOf[t]] # <<>>
        /\ \A x \in Sessions : x # SessionOf[t] => memory'[x] = memory[x]
    BY <2>1 DEF TypeInv, LoopInv, IInv, Types
  <2>3. Ordered'
    BY <2>1, <2>2, OrderedTouch DEF TypeInv
  <2>4. LoopInv'
    BY <2>1, AskInLoop
  <2>. QED BY <2>1, <2>3, <2>4 DEF TypeInv, Marks, history
<1>4. ASSUME NEW t \in Turns, NEW n \in 1 .. MaxCalls, CallTools(t, n) PROVE TypeInv'
  <2>1. /\ pc[t] = "llm" /\ iteration[t] \in Nat /\ iteration[t] < MaxIterations
        /\ UNCHANGED <<memory, recent, answered, excused, erased, late>>
    BY <1>4 DEF CallTools, TypeInv, LoopInv, store, history
  <2>2. PICK x \in AfterTools(t) : pc' = [pc EXCEPT ![t] = x]
    BY <1>4 DEF CallTools
  <2>3. /\ iteration' = [iteration EXCEPT ![t] = iteration[t] + 1]
        /\ messages' = [messages EXCEPT ![t] = Called(messages[t], t, n)]
    BY <1>4 DEF CallTools, Called, TypeInv, LoopInv, IInv, Types
  <2>4. /\ iteration[t] + 1 \in 0 .. MaxIterations
        /\ x \in {"llm", "save", "force"} /\ (x = "llm" => iteration[t] + 1 < MaxIterations)
    BY <2>1, LimitAssumption DEF AfterTools
  <2>5. LoopInv'
    BY <2>2, <2>3, <2>4, LoopStep
  <2>. QED BY <1>0, <2>1, <2>5 DEF TypeInv, Marks
<1>5. ASSUME NEW t \in Turns, NEW step \in {"llm", "force"}, Answer(t, step) PROVE TypeInv'
  <2>1. UNCHANGED <<store, history, iteration>>
    BY <1>5 DEF Answer
  <2>2. LoopInv'
    BY <1>5, <2>1 DEF Answer, TypeInv, LoopInv, IInv, Types
  <2>. QED BY <1>0, <2>1, <2>2 DEF TypeInv, Marks, store, history
<1>6. ASSUME NEW t \in Turns, NEW step \in {"llm", "force"}, Fail(t, step) PROVE TypeInv'
  <2>1. UNCHANGED <<store, history>> /\ Leave(t, "failed")
    BY <1>6 DEF Fail
  <2>2. /\ pc' = [pc EXCEPT ![t] = "failed"] /\ messages' = [messages EXCEPT ![t] = <<>>]
        /\ iteration' = [iteration EXCEPT ![t] = 0] /\ 0 \in 0 .. MaxIterations
    BY <2>1, LimitAssumption DEF Leave
  <2>3. LoopInv'
    BY <2>2, LoopStep
  <2>. QED BY <1>0, <2>1, <2>3 DEF TypeInv, Marks, store, history
<1>7. ASSUME NEW p \in saves, NEW committed \in BOOLEAN, SaveEnds(p, committed) PROVE TypeInv'
  <2>1. UNCHANGED <<memory, recent, pc, messages, iteration, answered, erased, late>>
        /\ excused' \subseteq excused \cup {p.turn} /\ p.turn \in Turns
    BY <1>7 DEF SaveEnds, turns, IInv, Types, Snapshots
  <2>. QED BY <1>0, <2>1 DEF TypeInv, LoopInv, Marks
<1>8. ASSUME NEW n \in 1 .. Len(recent), Evict(n) PROVE TypeInv'
  <2>1. /\ UNCHANGED <<turns, history>>
        /\ recent' = SubSeq(recent, n + 1, Len(recent))
        /\ memory' = [s \in Sessions |->
               IF s \in {recent[i] : i \in 1 .. n} THEN <<>> ELSE memory[s]]
    BY <1>8 DEF Evict
  <2>2. Once(recent) /\ \A s \in Sessions : Has(recent, s) <=> memory[s] # <<>>
    BY DEF TypeInv, Ordered
  <2>3. n \in 0 .. Len(recent)
    BY <2>2 DEF Once
  <2>4. \A s \in Sessions : memory'[s] = IF \E i \in 1 .. n : recent[i] = s THEN <<>> ELSE memory[s]
    BY <2>1
  <2>5. Ordered'
    BY <2>1, <2>2, <2>3, <2>4, OrderedCut
  <2>. QED BY <2>1, <2>5 DEF TypeInv, LoopInv, Marks, turns, history
<1>9. ASSUME NEW s \in Sessions, DeleteEntry(s) PROVE TypeInv'
  <2>1. /\ memory' = [memory EXCEPT ![s] = <<>>] /\ recent' = Without(s)
        /\ excused' = excused \cup BegunIn(s) /\ UNCHANGED <<turns, answered, erased, late>>
    BY <1>9 DEF DeleteEntry, EntriesWithout
  <2>2. Once(Without(s)) /\ \A x : Has(Without(s), x) <=> Has(recent, x) /\ x # s
    BY WithoutOne DEF TypeInv, Ordered
  <2>3. Ordered'
    BY <2>1, <2>2 DEF TypeInv, Ordered, Once, Has, IInv, Types
  <2>. QED BY <2>1, <2>3 DEF TypeInv, LoopInv, Marks, turns, BegunIn
<1>10. ASSUME NEW s \in Sessions, NEW committed \in BOOLEAN, DeleteRow(s, committed) PROVE TypeInv'
  <2> DEFINE carried == UNION {TurnsOf(p.messages) : p \in SavesOf(s)}
  <2>1. carried \subseteq Turns
    BY TurnsAreTurns DEF SavesOf, IInv, Types, Snapshots
  <2>2. /\ UNCHANGED <<memory, recent, turns, answered>>
        /\ excused' = excused \cup BegunIn(s)
        /\ erased' \subseteq erased \cup BegunIn(s) /\ late' \subseteq late \cup carried
    BY <1>10 DEF DeleteRow
  <2>3. BegunIn(s) \subseteq Turns
    BY DEF BegunIn
  <2> HIDE DEF carried
  <2>. QED BY <1>0, <2>1, <2>2, <2>3 DEF TypeInv, LoopInv, Marks, turns
<1>11. CASE Restart
  <2>1. Ordered'
    BY <1>11 DEF Restart, Ordered, Once, Has
  <2>2. LoopInv'
    BY <1>11, LimitAssumption DEF Restart, TypeInv, LoopInv, IInv, Types, Steps, Open
  <2>3. Marks'
    BY <1>11 DEF Restart, TypeInv, Marks, Carried, IInv, Types, Snapshots
  <2>. QED BY <2>1, <2>2, <2>3 DEF TypeInv
<1>12. CASE UNCHANGED vars
  BY <1>0, <1>12 DEF vars, store, turns, history, TypeInv, LoopInv, Marks
<1>. QED BY <1>1, <1>2, <1>3, <1>4, <1>5, <1>6, <1>7, <1>8, <1>9, <1>10, <1>11, <1>12, SetTypes
     DEF Next, CallLLM

(* The variables have their types, and what is in memory has exactly one *)
(* place in the order of eviction: session.go:86, 97, 109.               *)
THEOREM TypeCorrect == Spec => []TypeOK
<1>1. Spec => []TypeInv
  BY InitTypeInv, NextTypeInv, Invariance, PTL DEF Spec
<1>2. IInv /\ TypeInv => TypeOK
  <2> SUFFICES ASSUME IInv, TypeInv PROVE TypeOK
    OBVIOUS
  <2>1. recent \in Seq(Sessions) /\ DOMAIN recent = 1 .. Len(recent)
    BY DEF TypeInv, Ordered, Once
  <2>2. IsInjective(recent) /\ \A s \in Sessions : s \in ToSet(recent) <=> memory[s] # <<>>
    BY <2>1 DEF TypeInv, Ordered, Once, Has, IsInjective, ToSet
  <2>. QED BY <2>1, <2>2 DEF IInv, Types, TypeInv, LoopInv, Marks, TypeOK
<1>. QED BY <1>1, <1>2, Invariance, PTL
-----------------------------------------------------------------------------
(* What a history keeps of the turns that were answered *)

(* The sequence a of turns answered in a session, in that order, and a set  *)
(* E of those that may be lost.                                             *)
Answerers(a) == {a[i] : i \in 1 .. Len(a)}

(* The i-th is in h, or newer ones have filled h. *)
Holds(h, a, i) ==
    \/ a[i] \in TurnsOf(h)
    \/ Len(h) >= MaxHistory /\ \A j \in 1 .. i : a[j] \notin TurnsOf(h)
Full(h, a, E) == \A i \in 1 .. Len(a) : a[i] \in E \/ Holds(h, a, i)

(* Messages stand in the order in which their turns were answered, and      *)
(* those of an open turn stand last.                                        *)
InOrder(h, a) ==
    \A k, l \in 1 .. Len(h) : \A i, j \in 1 .. Len(a) :
        k <= l /\ h[k].turn = a[i] /\ h[l].turn = a[j] => i <= j
OwnLast(h, t) == \A k, l \in 1 .. Len(h) : k <= l /\ h[k].turn = t => h[l].turn = t

Past(h, a)       == TurnsOf(h) \subseteq Answerers(a) /\ InOrder(h, a)
Present(h, a, t) == TurnsOf(h) \subseteq Answerers(a) \cup {t} /\ InOrder(h, a) /\ OwnLast(h, t)

Answers ==
    /\ answered \in [Sessions -> Seq(Turns)] /\ excused \subseteq Turns
    /\ \A s \in Sessions : \A t \in Answerers(answered[s]) : SessionOf[t] = s /\ pc[t] = "done"

(* Two turns of a session that are open at once are excused. *)
OverlapIsExcused ==
    \A t, u \in Turns :
        t # u /\ SessionOf[t] = SessionOf[u] /\ Open(t) /\ Open(u) => t \in excused

StoreIsPast ==
    /\ \A s \in Sessions : Past(memory[s], answered[s]) /\ Past(stored[s], answered[s])
    /\ \A p \in saves : Past(p.messages, answered[SessionOf[p.turn]])

(* What the next turn reads and what a save is about to write keep all that *)
(* is not excused; the table lacks at most what saves still carry.          *)
StoreIsFull ==
    /\ \A s \in Sessions : Full(Current(s), answered[s], excused)
    /\ \A s \in Sessions : Full(stored[s], answered[s], excused \cup Carried(saves))
    /\ \A p \in saves : Full(p.messages, answered[SessionOf[p.turn]], excused)

(* So does what an open turn has read or is about to read. *)
LocalIsFull(t) ==
    LET s == SessionOf[t] IN
    /\ pc[t] = "warm" => Full(stored[s], answered[s], excused)
    /\ pc[t] = "warmed" =>
           Past(messages[t], answered[s]) /\ Full(messages[t], answered[s], excused)
    /\ pc[t] \in {"llm", "force", "save"} =>
           Present(messages[t], answered[s], t) /\ Full(messages[t], answered[s], excused)
LocalsAreFull == \A t \in Turns : LocalIsFull(t)

KeptInv == Answers /\ OverlapIsExcused /\ StoreIsPast /\ StoreIsFull /\ LocalsAreFull

LEMMA TurnIn ==
  ASSUME NEW h, NEW x, x # NoTurn
  PROVE  x \in TurnsOf(h) <=> \E k \in 1 .. Len(h) : h[k].turn = x
  BY DEF TurnsOf

(* More may be lost. *)
LEMMA FullGrows ==
  ASSUME NEW h, NEW a, NEW E, NEW F, Full(h, a, E), E \cap Answerers(a) \subseteq F
  PROVE  Full(h, a, F)
  BY DEF Full, Answerers

(* Nothing is asked of a session all of whose turns may be lost. *)
LEMMA FullOfAll == ASSUME NEW h, NEW a, NEW E, Answerers(a) \subseteq E PROVE Full(h, a, E)
  BY DEF Full, Answerers

(* A new history lacks every turn, and so all of them may be lost. *)
LEMMA FullEmpty == ASSUME NEW a, NEW E, Full(<<>>, a, E) PROVE Answerers(a) \subseteq E
  BY LimitAssumption DEF Full, Holds, Answerers, TurnsOf

LEMMA PastEmpty == \A a : Past(<<>>, a)
  BY DEF Past, TurnsOf, InOrder

(* One more turn is answered. *)
LEMMA AnswerersGrow ==
  ASSUME NEW a \in Seq(Turns), NEW t \in Turns
  PROVE  /\ Append(a, t) \in Seq(Turns) /\ Len(a) \in Nat /\ Len(Append(a, t)) = Len(a) + 1
         /\ \A i \in 1 .. Len(a) : Append(a, t)[i] = a[i] /\ a[i] \in Turns
         /\ Append(a, t)[Len(a) + 1] = t
         /\ Answerers(Append(a, t)) = Answerers(a) \cup {t}
<1> DEFINE b == Append(a, t)
<1>1. /\ b \in Seq(Turns) /\ Len(b) = Len(a) + 1 /\ Len(a) \in Nat
      /\ \A i \in 1 .. Len(a) : b[i] = a[i] /\ a[i] \in Turns
      /\ b[Len(a) + 1] = t
  BY AppendProperties
<1> HIDE DEF b
<1>2. \A x : (\E i \in 1 .. Len(b) : b[i] = x) <=> (\E i \in 1 .. Len(a) : a[i] = x) \/ x = t
  BY <1>1
<1>3. Answerers(b) = Answerers(a) \cup {t}
  BY <1>2 DEF Answerers
<1>. QED BY <1>1, <1>3 DEF b

(* A history that cannot hold it is as full as before, if the turn may be lost. *)
LEMMA FullOneMore ==
  ASSUME NEW a \in Seq(Turns), NEW t \in Turns, NEW h, NEW E, NEW F,
         Full(h, a, E), E \cap Answerers(a) \subseteq F, t \in F
  PROVE  Full(h, Append(a, t), F)
<1> DEFINE b == Append(a, t)
<1>1. /\ Len(a) \in Nat /\ Len(b) = Len(a) + 1 /\ b[Len(a) + 1] = t
      /\ \A i \in 1 .. Len(a) : b[i] = a[i]
  BY AnswerersGrow
<1>2. Full(h, a, F)
  BY FullGrows
<1> HIDE DEF b
<1>3. ASSUME NEW i \in 1 .. Len(b), b[i] \notin F PROVE Holds(h, b, i)
  <2>1. i \in 1 .. Len(a) /\ b[i] = a[i] /\ Holds(h, a, i)
    BY <1>1, <1>2, <1>3 DEF Full
  <2>2. \A j \in 1 .. i : b[j] = a[j]
    BY <1>1, <2>1
  <2>. QED BY <2>1, <2>2 DEF Holds
<1>. QED BY <1>3 DEF Full, b

LEMMA InOrderOneMore ==
  ASSUME NEW a \in Seq(Turns), NEW t \in Turns, NEW h \in Histories, t \notin TurnsOf(h), InOrder(h, a)
  PROVE  InOrder(h, Append(a, t))
<1> DEFINE b == Append(a, t)
<1>1. /\ Len(a) \in Nat /\ Len(b) = Len(a) + 1 /\ b[Len(a) + 1] = t
      /\ \A i \in 1 .. Len(a) : b[i] = a[i]
  BY AnswerersGrow
<1>2. \A k \in 1 .. Len(h) : h[k].turn # t
  BY TurnIn, NoTurnAssumption
<1> HIDE DEF b
<1>3. ASSUME NEW k \in 1 .. Len(h), NEW l \in 1 .. Len(h), NEW i \in 1 .. Len(b), NEW j \in 1 .. Len(b),
             k <= l, h[k].turn = b[i], h[l].turn = b[j]
      PROVE  i <= j
  <2>1. i \in 1 .. Len(a) /\ j \in 1 .. Len(a) /\ b[i] = a[i] /\ b[j] = a[j]
    BY <1>1, <1>2, <1>3
  <2>. QED BY <2>1, <1>3 DEF InOrder
<1>. QED BY <1>3 DEF InOrder, b

LEMMA PastOneMore ==
  ASSUME NEW a \in Seq(Turns), NEW t \in Turns, NEW h \in Histories, Past(h, a), t \notin Answerers(a)
  PROVE  Past(h, Append(a, t))
  BY AnswerersGrow, InOrderOneMore DEF Past

LEMMA PresentOneMore ==
  ASSUME NEW a \in Seq(Turns), NEW t \in Turns, NEW u \in Turns, u # t,
         NEW h \in Histories, Present(h, a, u), t \notin Answerers(a)
  PROVE  Present(h, Append(a, t), u)
  BY AnswerersGrow, InOrderOneMore DEF Present

(* A history without an open turn is one in which that turn stands last. *)
LEMMA PastIsPresent ==
  ASSUME NEW h, NEW a, NEW t \in Turns, Past(h, a), t \notin Answerers(a)
  PROVE  Present(h, a, t)
<1>1. \A k \in 1 .. Len(h) : h[k].turn # t
  BY TurnIn, NoTurnAssumption DEF Past
<1>. QED BY <1>1 DEF Past, Present, OwnLast

(* The turn's own messages leave its history in order and as full as it was. *)
LEMMA OwnMessages ==
  ASSUME NEW h \in Histories, NEW g \in Histories, NEW a \in Seq(Turns), NEW t \in Turns,
         t \notin Answerers(a), Present(h, a, t), Len(g) >= Len(h),
         \A k \in 1 .. Len(h) : g[k] = h[k],
         \A k \in Len(h) + 1 .. Len(g) : g[k].turn = t
  PROVE  Present(g, a, t) /\ \A E : Full(h, a, E) => Full(g, a, E)
<1>1. /\ Len(g) \in Nat /\ Len(h) \in Nat /\ Len(a) \in Nat
      /\ \A i \in 1 .. Len(a) : a[i] # t /\ a[i] # NoTurn
  BY NoTurnAssumption DEF Histories, Answerers
<1>2. \A k \in 1 .. Len(g) : IF k <= Len(h) THEN k \in 1 .. Len(h) /\ g[k] = h[k] ELSE g[k].turn = t
  BY <1>1
<1>3. \A x : x # NoTurn /\ x # t => (x \in TurnsOf(g) <=> x \in TurnsOf(h))
  <2> SUFFICES ASSUME NEW x, x # NoTurn, x # t PROVE x \in TurnsOf(g) <=> x \in TurnsOf(h)
    OBVIOUS
  <2>1. \A k \in 1 .. Len(g) : g[k].turn = x => k \in 1 .. Len(h) /\ h[k].turn = x
    BY <1>2
  <2>2. \A k \in 1 .. Len(h) : k \in 1 .. Len(g) /\ g[k] = h[k]
    BY <1>1
  <2>. QED BY <2>1, <2>2, TurnIn
<1>4. TurnsOf(g) \subseteq Answerers(a) \cup {t}
  <2>1. NoTurn \notin TurnsOf(g)
    BY DEF TurnsOf
  <2>. QED BY <2>1, <1>3 DEF Present
<1>5. InOrder(g, a)
  <2> SUFFICES ASSUME NEW k \in 1 .. Len(g), NEW l \in 1 .. Len(g),
                      NEW i \in 1 .. Len(a), NEW j \in 1 .. Len(a),
                      k <= l, g[k].turn = a[i], g[l].turn = a[j]
               PROVE  i <= j
    BY DEF InOrder
  <2>1. k \in 1 .. Len(h) /\ g[k] = h[k] /\ l \in 1 .. Len(h) /\ g[l] = h[l]
    BY <1>1, <1>2
  <2>. QED BY <2>1 DEF Present, InOrder
<1>6. OwnLast(g, t)
  <2> SUFFICES ASSUME NEW k \in 1 .. Len(g), NEW l \in 1 .. Len(g), k <= l, g[k].turn = t
               PROVE  g[l].turn = t
    BY DEF OwnLast
  <2>1. CASE l <= Len(h)
    <3>1. k \in 1 .. Len(h) /\ g[k] = h[k] /\ l \in 1 .. Len(h) /\ g[l] = h[l]
      BY <1>1, <1>2, <2>1
    <3>. QED BY <3>1 DEF Present, OwnLast
  <2>2. CASE ~(l <= Len(h))
    BY <1>2, <2>2
  <2>. QED BY <2>1, <2>2
<1>7. ASSUME NEW E, Full(h, a, E) PROVE Full(g, a, E)
  <2> SUFFICES ASSUME NEW i \in 1 .. Len(a), Holds(h, a, i) PROVE Holds(g, a, i)
    BY <1>7 DEF Full
  <2>1. \A j \in 1 .. i : a[j] # t /\ a[j] # NoTurn
    BY <1>1
  <2>2. i \in 1 .. i
    BY <1>1
  <2>. QED BY <1>1, <1>3, <2>1, <2>2, LimitAssumption DEF Holds
<1>. QED BY <1>4, <1>5, <1>6, <1>7 DEF Present

(* After Ask. *)
LEMMA AskedKeeps ==
  ASSUME NEW h \in Histories, NEW a \in Seq(Turns), NEW t \in Turns, NEW E,
         t \notin Answerers(a), Past(h, a), Full(h, a, E)
  PROVE  Present(Asked(h, t), a, t) /\ Full(Asked(h, t), a, E)
<1> DEFINE f == IF h = <<>> THEN <<System>> ELSE h
           g == Asked(h, t)
           m == Message("user", t)
<1>1. f \in Histories /\ m \in Messages /\ m.turn = t
  BY MessageType DEF Histories
<1>2. /\ g \in Seq(Messages) /\ Len(g) = Len(f) + 1 /\ Len(f) \in Nat
      /\ \A k \in 1 .. Len(f) : g[k] = f[k]
      /\ g[Len(f) + 1] = m
  BY <1>1, AppendProperties DEF Asked, Histories
<1>3. Past(f, a) /\ Full(f, a, E)
  <2>1. CASE h = <<>>
    <3>1. f = <<System>> /\ Len(f) = 1 /\ f[1].turn = NoTurn
      BY <2>1, MessageType
    <3>2. TurnsOf(f) = {}
      <4> HIDE DEF f
      <4>. QED BY <3>1 DEF TurnsOf
    <3>3. \A i \in 1 .. Len(a) : a[i] # NoTurn
      BY NoTurnAssumption
    <3>4. InOrder(f, a)
      <4> HIDE DEF f
      <4>. QED BY <3>1, <3>3 DEF InOrder
    <3>5. Full(f, a, E)
      BY <2>1, FullEmpty, FullOfAll
    <3>. QED BY <3>2, <3>4, <3>5 DEF Past
  <2>2. CASE h # <<>>
    BY <2>2
  <2>. QED BY <2>1, <2>2
<1> HIDE DEF f, g, m
<1>4. Present(f, a, t)
  BY <1>3, PastIsPresent
<1>5. Len(g) >= Len(f) /\ g \in Histories /\ \A k \in Len(f) + 1 .. Len(g) : g[k].turn = t
  BY <1>1, <1>2 DEF Histories
<1>6. Present(g, a, t) /\ Full(g, a, E)
  BY <1>1, <1>2, <1>3, <1>4, <1>5, OwnMessages
<1>. QED BY <1>6 DEF g

(* After one message, and after a call with its results. *)
LEMMA AddedKeeps ==
  ASSUME NEW h \in Histories, NEW a \in Seq(Turns), NEW t \in Turns, NEW E,
         t \notin Answerers(a), Present(h, a, t), Full(h, a, E),
         NEW m \in Messages, m.turn = t
  PROVE  LET g == Append(h, m)
         IN  g \in Histories /\ Present(g, a, t) /\ Full(g, a, E)
<1> DEFINE g == Append(h, m)
<1>1. /\ g \in Histories /\ Len(g) = Len(h) + 1 /\ Len(h) \in Nat
      /\ \A k \in 1 .. Len(h) : g[k] = h[k]
      /\ g[Len(h) + 1] = m
  BY AppendProperties DEF Histories
<1> HIDE DEF g
<1>2. Len(g) >= Len(h) /\ \A k \in Len(h) + 1 .. Len(g) : g[k].turn = t
  BY <1>1
<1>3. Present(g, a, t) /\ Full(g, a, E)
  BY <1>1, <1>2, OwnMessages
<1>. QED BY <1>1, <1>3 DEF g

LEMMA CalledKeeps ==
  ASSUME NEW h \in Histories, NEW a \in Seq(Turns), NEW t \in Turns, NEW E,
         t \notin Answerers(a), Present(h, a, t), Full(h, a, E), NEW n \in Nat
  PROVE  Present(Called(h, t, n), a, t) /\ Full(Called(h, t, n), a, E)
<1> DEFINE f == Append(h, Message("call", t))
           r == [i \in 1 .. n |-> Message("tool", t)]
           g == Called(h, t, n)
<1>1. f \in Histories /\ Present(f, a, t) /\ Full(f, a, E)
  BY MessageType, AddedKeeps
<1>2. r \in Seq(Messages) /\ Len(r) = n /\ \A i \in 1 .. n : r[i].turn = t
  BY MessageType
<1>3. g = f \o r
  BY DEF Called
<1> HIDE DEF f, r, g
<1>4. f \in Seq(Messages) /\ Len(f) \in Nat
  BY <1>1 DEF Histories
<1>5. /\ f \o r \in Seq(Messages) /\ Len(f \o r) = Len(f) + Len(r)
      /\ \A i \in 1 .. Len(f) + Len(r) : (f \o r)[i] = IF i <= Len(f) THEN f[i] ELSE r[i - Len(f)]
  BY <1>2, <1>4, ConcatProperties
<1>6. g \in Histories /\ Len(g) >= Len(f) /\ \A k \in 1 .. Len(f) : g[k] = f[k]
  BY <1>2, <1>3, <1>4, <1>5 DEF Histories
<1>7. \A k \in Len(f) + 1 .. Len(g) : g[k].turn = t
  <2> TAKE k \in Len(f) + 1 .. Len(g)
  <2>1. g[k] = r[k - Len(f)] /\ k - Len(f) \in 1 .. n
    BY <1>2, <1>3, <1>4, <1>5
  <2>. QED BY <2>1, <1>2
<1>8. Present(g, a, t) /\ Full(g, a, E)
  BY <1>1, <1>6, <1>7, OwnMessages
<1>. QED BY <1>8 DEF g

(* Trim keeps the turn itself and the newest of the others: it takes turns *)
(* away in the order in which they were answered, and only when the rest   *)
(* fills the history.                                                      *)
LEMMA TrimKeeps ==
  ASSUME NEW h \in Histories, NEW t \in Turns, NEW roles, Growing(h, t, roles),
         NEW a \in Seq(Turns), t \notin Answerers(a), NEW E,
         Present(h, a, t), Full(h, a, E)
  PROVE  Past(Trim(h), Append(a, t)) /\ Full(Trim(h), Append(a, t), E)
<1> DEFINE g == Trim(h)
           b == Append(a, t)
<1>1. PICK k \in Nat :
          /\ g \in Seq(Messages) /\ Len(g) \in 2 .. MaxHistory /\ Len(h) = k + Len(g)
          /\ g[1] = System /\ \A i \in 2 .. Len(g) : g[i] = h[k + i]
          /\ k > 0 => Len(g) = MaxHistory
  BY Trimmed
<1>2. /\ Len(a) \in Nat /\ Len(b) = Len(a) + 1 /\ b[Len(a) + 1] = t
      /\ \A i \in 1 .. Len(a) : b[i] = a[i] /\ a[i] \in Turns
      /\ Answerers(b) = Answerers(a) \cup {t}
  BY AnswerersGrow
<1>3. /\ h[1] = System /\ h[Len(h)].turn = t /\ System.turn = NoTurn /\ t # NoTurn
      /\ \A i \in 1 .. Len(b) : b[i] # NoTurn
  <2>1. h[1] = System /\ h[Len(h)].turn = t /\ System.turn = NoTurn /\ t # NoTurn
    BY MessageType, NoTurnAssumption DEF Growing, LastOf
  <2> HIDE DEF b
  <2>2. \A i \in 1 .. Len(b) : b[i] # NoTurn
    BY <1>2, <2>1, NoTurnAssumption
  <2>. QED BY <2>1, <2>2
<1> HIDE DEF g, b
<1>4. /\ Len(g) \in Nat /\ Len(g) >= 2 /\ MaxHistory \in Nat /\ Len(h) = k + Len(g)
      /\ \A q \in 2 .. Len(g) : k + q \in 1 .. Len(h) /\ g[q] = h[k + q]
  <2>1. Len(g) \in Nat /\ Len(g) >= 2 /\ MaxHistory \in Nat /\ Len(h) = k + Len(g)
    BY <1>1, LimitAssumption
  <2>2. \A q \in 2 .. Len(g) : k + q \in 1 .. k + Len(g)
    BY <2>1
  <2>. QED BY <1>1, <2>1, <2>2
<1>5. ASSUME NEW x, x # NoTurn
      PROVE  /\ x \in TurnsOf(g) <=> \E q \in 2 .. Len(g) : h[k + q].turn = x
             /\ x \in TurnsOf(g) => x \in TurnsOf(h)
  <2>1. g[1].turn # x
    BY <1>1, <1>3, <1>5
  <2>2. \A q \in 1 .. Len(g) : g[q].turn = x => q \in 2 .. Len(g) /\ h[k + q].turn = x
    <3> TAKE q \in 1 .. Len(g)
    <3>1. q = 1 \/ q \in 2 .. Len(g)
      BY <1>4
    <3>. QED BY <3>1, <2>1, <1>4
  <2>3. \A q \in 2 .. Len(g) :
            /\ q \in 1 .. Len(g) /\ g[q] = h[k + q] /\ k + q \in 1 .. Len(h)
    BY <1>4
  <2>4. x \in TurnsOf(g) <=> \E q \in 2 .. Len(g) : h[k + q].turn = x
    BY <1>5, <2>2, <2>3, TurnIn
  <2>5. x \in TurnsOf(g) => x \in TurnsOf(h)
    BY <1>5, <2>3, <2>4, TurnIn
  <2>. QED BY <2>4, <2>5
<1>6. TurnsOf(g) \subseteq Answerers(b)
  <2>1. NoTurn \notin TurnsOf(g)
    BY DEF TurnsOf
  <2>. QED BY <2>1, <1>2, <1>5 DEF Present
<1>7. InOrder(g, b)
  <2> SUFFICES ASSUME NEW p \in 1 .. Len(g), NEW q \in 1 .. Len(g),
                      NEW i \in 1 .. Len(b), NEW j \in 1 .. Len(b),
                      p <= q, g[p].turn = b[i], g[q].turn = b[j]
               PROVE  i <= j
    BY DEF InOrder
  <2>1. p \in 2 .. Len(g) /\ q \in 2 .. Len(g)
    <3>1. g[p].turn # NoTurn /\ g[q].turn # NoTurn /\ g[1].turn = NoTurn
      BY <1>1, <1>3
    <3>2. p # 1 /\ q # 1
      BY <3>1
    <3>. QED BY <3>2, <1>4
  <2>2. /\ k + p \in 1 .. Len(h) /\ k + q \in 1 .. Len(h) /\ k + p <= k + q
        /\ h[k + p].turn = b[i] /\ h[k + q].turn = b[j]
    <3>1. k + p <= k + q
      BY <1>4, <2>1
    <3>. QED BY <2>1, <3>1, <1>4
  <2>3. CASE j = Len(a) + 1
    BY <2>3, <1>2
  <2>4. CASE j \in 1 .. Len(a) /\ i \in 1 .. Len(a)
    BY <2>2, <2>4, <1>2 DEF Present, InOrder
  <2>5. CASE j \in 1 .. Len(a) /\ i = Len(a) + 1
    <3>1. h[k + q].turn = t
      BY <2>2, <2>5, <1>2 DEF Present, OwnLast
    <3>. QED BY <3>1, <2>2, <2>5, <1>2 DEF Answerers
  <2>. QED BY <2>3, <2>4, <2>5, <1>2
<1>8. ASSUME NEW i \in 1 .. Len(a), Holds(h, a, i) PROVE Holds(g, b, i)
  <2>1. i \in 1 .. Len(b) /\ \A j \in 1 .. i : b[j] = a[j] /\ a[j] # NoTurn /\ j \in 1 .. Len(a)
    BY <1>2, NoTurnAssumption
  <2>2. i \in 1 .. i
    BY <1>2
  <2>3. CASE Len(h) >= MaxHistory /\ \A j \in 1 .. i : a[j] \notin TurnsOf(h)
    <3>1. Len(g) >= MaxHistory
      BY <2>3, <1>1, <1>4
    <3>2. \A j \in 1 .. i : b[j] \notin TurnsOf(g)
      BY <2>1, <2>3, <1>5
    <3>. QED BY <3>1, <3>2 DEF Holds
  <2>4. CASE a[i] \in TurnsOf(h) /\ a[i] \notin TurnsOf(g)
    <3>1. PICK p \in 1 .. Len(h) : h[p].turn = a[i]
      BY <2>1, <2>2, <2>4, TurnIn
    <3>2. p < k + 2
      <4>1. CASE p >= k + 2
        <5>1. p - k \in 2 .. Len(g) /\ k + (p - k) = p
          BY <4>1, <1>1, <1>4
        <5>. QED BY <5>1, <3>1, <2>1, <2>2, <2>4, <1>5
      <4>. QED BY <4>1
    <3>3. p # 1 /\ k > 0
      <4>1. p # 1
        BY <3>1, <2>1, <2>2, <1>3
      <4>. QED BY <4>1, <3>2
    <3>4. ASSUME NEW j \in 1 .. i, a[j] \in TurnsOf(g) PROVE FALSE
      <4>1. PICK q \in 2 .. Len(g) : h[k + q].turn = a[j]
        BY <3>4, <2>1, <1>5
      <4>2. k + q \in 1 .. Len(h) /\ p <= k + q
        BY <3>2, <1>1, <1>4
      <4>3. i <= j
        BY <4>1, <4>2, <3>1, <2>1 DEF Present, InOrder
      <4>4. i = j
        BY <4>3, <1>2
      <4>. QED BY <4>4, <3>4, <2>4
    <3>5. Len(g) >= MaxHistory /\ \A j \in 1 .. i : b[j] \notin TurnsOf(g)
      BY <3>3, <3>4, <2>1, <1>1, <1>4
    <3>. QED BY <3>5 DEF Holds
  <2>5. CASE a[i] \in TurnsOf(g)
    BY <2>5, <2>1, <2>2 DEF Holds
  <2>. QED BY <1>8, <2>3, <2>4, <2>5 DEF Holds
<1>9. t \in TurnsOf(g)
  <2>1. k + Len(g) = Len(h) /\ Len(g) \in 2 .. Len(g)
    BY <1>1, <1>4
  <2>. QED BY <2>1, <1>3, <1>5
<1>10. Full(g, b, E)
  <2> SUFFICES ASSUME NEW i \in 1 .. Len(b), b[i] \notin E PROVE Holds(g, b, i)
    BY DEF Full
  <2>1. CASE i = Len(a) + 1
    BY <2>1, <1>2, <1>9 DEF Holds
  <2>2. CASE i \in 1 .. Len(a)
    BY <2>2, <1>2, <1>8 DEF Full
  <2>. QED BY <2>1, <2>2, <1>2
<1>. QED BY <1>6, <1>7, <1>10 DEF Past, g, b
-----------------------------------------------------------------------------
(* Steps of a turn *)

LEMMA NotYet ==
  ASSUME KeptInv, NEW t \in Turns, pc[t] # "done", NEW s \in Sessions
  PROVE  t \notin Answerers(answered[s])
  BY DEF KeptInv, Answers

(* A step of one turn before its Set. *)
LEMMA TurnKeeps ==
  ASSUME IInv, KeptInv, NEW t \in Turns, pc[t] # "done", NEW x, x # "done", NEW g,
         pc' = [pc EXCEPT ![t] = x], messages' = [messages EXCEPT ![t] = g],
         UNCHANGED <<stored, answered>>, excused \subseteq excused', excused' \subseteq Turns,
         x \notin {"failed"} => \/ Open(t)
                                \/ \A u \in Turns : u # t /\ SessionOf[u] = SessionOf[t] /\ Open(u)
                                       => t \in excused' /\ u \in excused',
         LET a == answered[SessionOf[t]] IN
             /\ x = "warm" => Full(stored[SessionOf[t]], a, excused')
             /\ x = "warmed" => Past(g, a) /\ Full(g, a, excused')
             /\ x \in {"llm", "force", "save"} => Present(g, a, t) /\ Full(g, a, excused')
  PROVE  Answers' /\ OverlapIsExcused' /\ LocalsAreFull'
<1>1. \A u \in Turns : pc'[u] = (IF u = t THEN x ELSE pc[u])
                       /\ messages'[u] = (IF u = t THEN g ELSE messages[u])
  BY DEF IInv, Types
<1>2. Answers'
  BY <1>1 DEF KeptInv, Answers
<1>3. OverlapIsExcused'
  <2> SUFFICES ASSUME NEW u \in Turns, NEW v \in Turns, u # v, SessionOf[u] = SessionOf[v],
                      Open(u)', Open(v)'
               PROVE  u \in excused'
    BY DEF OverlapIsExcused
  <2>1. CASE u # t /\ v # t
    <3>1. Open(u) /\ Open(v)
      BY <2>1, <1>1 DEF Open
    <3>. QED BY <3>1 DEF KeptInv, OverlapIsExcused
  <2>2. CASE u = t
    <3>1. Open(v) /\ x # "failed"
      BY <2>2, <1>1 DEF Open
    <3>2. CASE Open(t)
      BY <2>2, <3>1, <3>2 DEF KeptInv, OverlapIsExcused
    <3>3. CASE ~Open(t)
      BY <2>2, <3>1, <3>3
    <3>. QED BY <3>2, <3>3
  <2>3. CASE v = t
    <3>1. Open(u) /\ x # "failed"
      BY <2>3, <1>1 DEF Open
    <3>2. CASE Open(t)
      BY <2>3, <3>1, <3>2 DEF KeptInv, OverlapIsExcused
    <3>3. CASE ~Open(t)
      BY <2>3, <3>1, <3>3
    <3>. QED BY <3>2, <3>3
  <2>. QED BY <2>1, <2>2, <2>3
<1>4. ASSUME NEW u \in Turns, u # t PROVE LocalIsFull(u)'
  <2>1. pc'[u] = pc[u] /\ messages'[u] = messages[u] /\ LocalIsFull(u)
    BY <1>1, <1>4 DEF KeptInv, LocalsAreFull
  <2>. QED BY <2>1, FullGrows DEF LocalIsFull
<1>5. LocalIsFull(t)'
  BY <1>1 DEF LocalIsFull
<1>. QED BY <1>2, <1>3, <1>4, <1>5 DEF LocalsAreFull

(* The store is as full as it was when nothing of it changes. *)
LEMMA StoreStaysFull ==
  ASSUME IInv, KeptInv, UNCHANGED <<store, answered>>, excused \subseteq excused'
  PROVE  StoreIsPast' /\ StoreIsFull'
<1>1. memory' = memory /\ stored' = stored /\ saves' = saves
  BY DEF store
<1>2. StoreIsPast'
  BY <1>1 DEF KeptInv, StoreIsPast
<1>3. \A s \in Sessions : Current(s)' = Current(s)
  BY <1>1 DEF Current
<1>4. \A s \in Sessions : /\ Full(Current(s), answered[s], excused')
                          /\ Full(stored[s], answered[s], excused' \cup Carried(saves))
  BY FullGrows DEF KeptInv, StoreIsFull
<1>5. \A p \in saves : Full(p.messages, answered[SessionOf[p.turn]], excused')
  BY FullGrows DEF KeptInv, StoreIsFull
<1>. QED BY <1>1, <1>2, <1>3, <1>4, <1>5 DEF StoreIsFull

(* Ask, from a history that keeps all. *)
LEMMA AskKeeps ==
  ASSUME IInv, KeptInv, NEW t \in Turns, pc[t] # "done", NEW h \in Histories, Ask(t, h),
         Past(h, answered[SessionOf[t]]), Full(h, answered[SessionOf[t]], excused'),
         UNCHANGED <<stored, answered>>, excused \subseteq excused', excused' \subseteq Turns,
         \/ Open(t)
         \/ \A u \in Turns : u # t /\ SessionOf[u] = SessionOf[t] /\ Open(u)
                => t \in excused' /\ u \in excused'
  PROVE  Answers' /\ OverlapIsExcused' /\ LocalsAreFull'
<1> DEFINE g == Asked(h, t)
           a == answered[SessionOf[t]]
<1>1. pc' = [pc EXCEPT ![t] = "llm"] /\ messages' = [messages EXCEPT ![t] = g]
  BY DEF Ask, Asked
<1>2. SessionOf[t] \in Sessions /\ a \in Seq(Turns) /\ t \notin Answerers(a)
  BY SessionAssumption, NotYet DEF KeptInv, Answers
<1>3. Present(g, a, t) /\ Full(g, a, excused')
  BY <1>2, AskedKeeps
<1> HIDE DEF g
<1>. QED BY <1>1, <1>3, TurnKeeps

LEMMA BeginKeeps == ASSUME IInv, KeptInv, NEW t \in Turns, Begin(t) PROVE KeptInv'
<1> DEFINE s == SessionOf[t]
           a == answered[s]
<1>1. /\ s \in Sessions /\ pc[t] = "new" /\ UNCHANGED <<store, stored, answered>>
      /\ excused' = (IF OpenIn(s) = {} THEN excused ELSE excused \cup OpenIn(s) \cup {t})
  BY SessionAssumption DEF Begin, store
<1>2. excused \subseteq excused' /\ excused' \subseteq Turns
      /\ \A u \in Turns : u # t /\ SessionOf[u] = s /\ Open(u) => t \in excused' /\ u \in excused'
  BY <1>1 DEF OpenIn, KeptInv, Answers
<1>3. StoreIsPast' /\ StoreIsFull'
  BY <1>1, <1>2, StoreStaysFull
<1>4. Full(Current(s), a, excused') /\ Past(memory[s], a) /\ memory[s] \in Histories
  BY <1>1, <1>2, FullGrows DEF KeptInv, StoreIsFull, StoreIsPast, IInv, Types
<1>5. CASE memory[s] # <<>>
  <2>1. Ask(t, memory[s]) /\ Full(memory[s], a, excused')
    BY <1>1, <1>4, <1>5 DEF Begin, Current
  <2>2. Answers' /\ OverlapIsExcused' /\ LocalsAreFull'
    BY <2>1, <1>1, <1>2, <1>4, AskKeeps
  <2>. QED BY <2>2, <1>3 DEF KeptInv
<1>6. CASE memory[s] = <<>>
  <2>1. /\ pc' = [pc EXCEPT ![t] = "warm"] /\ messages' = [messages EXCEPT ![t] = messages[t]]
        /\ Full(stored[s], a, excused')
    BY <1>1, <1>4, <1>6 DEF Begin, Current, IInv, Types
  <2>2. Answers' /\ OverlapIsExcused' /\ LocalsAreFull'
    BY <2>1, <1>1, <1>2, TurnKeeps
  <2>. QED BY <2>2, <1>3 DEF KeptInv
<1>. QED BY <1>5, <1>6

LEMMA ReadRowKeeps ==
  ASSUME IInv, KeptInv, NEW t \in Turns, NEW readable \in BOOLEAN, ReadRow(t, readable)
  PROVE  KeptInv'
<1> DEFINE s == SessionOf[t]
           a == answered[s]
<1>1. /\ s \in Sessions /\ pc[t] = "warm" /\ Open(t) /\ UNCHANGED <<store, stored, answered>>
      /\ excused' = (IF readable THEN excused ELSE excused \cup (BegunIn(s) \ {t}))
  BY SessionAssumption DEF ReadRow, store, Open
<1>2. excused \subseteq excused' /\ excused' \subseteq Turns
  BY <1>1 DEF BegunIn, KeptInv, Answers
<1>3. StoreIsPast' /\ StoreIsFull'
  BY <1>1, <1>2, StoreStaysFull
<1>4. Full(stored[s], a, excused) /\ Past(stored[s], a)
  BY <1>1 DEF KeptInv, LocalsAreFull, LocalIsFull, StoreIsPast
<1>5. CASE readable /\ stored[s] # <<>>
  <2>1. /\ pc' = [pc EXCEPT ![t] = "warmed"] /\ messages' = [messages EXCEPT ![t] = stored[s]]
        /\ Full(stored[s], a, excused')
    BY <1>4, <1>2, <1>5, FullGrows DEF ReadRow
  <2>2. Answers' /\ OverlapIsExcused' /\ LocalsAreFull'
    BY <2>1, <1>1, <1>2, <1>4, TurnKeeps
  <2>. QED BY <2>2, <1>3 DEF KeptInv
<1>6. CASE ~(readable /\ stored[s] # <<>>)
  <2>1. Ask(t, <<>>) /\ <<>> \in Histories /\ Past(<<>>, a)
    BY <1>6, PastEmpty DEF ReadRow, Histories
  <2>2. Full(<<>>, a, excused')
    <3>1. CASE readable
      BY <3>1, <1>1, <1>4, <1>6
    <3>2. CASE ~readable
      <4>1. \A u \in Answerers(a) : u \in Turns /\ SessionOf[u] = s /\ pc[u] = "done"
        BY <1>1 DEF KeptInv, Answers, Answerers
      <4>2. Answerers(a) \subseteq BegunIn(s) \ {t}
        BY <4>1, <1>1 DEF BegunIn
      <4>. QED BY <4>2, <3>2, <1>1, FullOfAll
    <3>. QED BY <3>1, <3>2
  <2>3. Answers' /\ OverlapIsExcused' /\ LocalsAreFull'
    BY <2>1, <2>2, <1>1, <1>2, AskKeeps
  <2>. QED BY <2>3, <1>3 DEF KeptInv
<1>. QED BY <1>5, <1>6

LEMMA WarmKeeps == ASSUME IInv, TypeInv, KeptInv, NEW t \in Turns, Warm(t) PROVE KeptInv'
<1> DEFINE s == SessionOf[t]
           a == answered[s]
           h == messages[t]
<1>1. /\ s \in Sessions /\ pc[t] = "warmed" /\ Open(t) /\ Ask(t, h)
      /\ UNCHANGED <<stored, saves, answered, excused>>
      /\ memory' = [memory EXCEPT ![s] = h]
  BY SessionAssumption DEF Warm, Open, history
<1>2. h # <<>> /\ h \in Histories /\ Past(h, a) /\ Full(h, a, excused)
  BY <1>1 DEF TypeInv, LoopInv, IInv, Types, KeptInv, LocalsAreFull, LocalIsFull
<1>3. excused' \subseteq Turns
  BY <1>1 DEF KeptInv, Answers
<1>4. Answers' /\ OverlapIsExcused' /\ LocalsAreFull'
  BY <1>1, <1>2, <1>3, AskKeeps
<1>5. \A x \in Sessions : memory'[x] = IF x = s THEN h ELSE memory[x]
  BY <1>1 DEF IInv, Types
<1>6. StoreIsPast'
  BY <1>1, <1>2, <1>5 DEF KeptInv, StoreIsPast
<1>7. \A x \in Sessions : Current(x)' = IF x = s THEN h ELSE Current(x)
  BY <1>1, <1>2, <1>5 DEF Current
<1>8. StoreIsFull'
  BY <1>1, <1>2, <1>7 DEF KeptInv, StoreIsFull
<1>. QED BY <1>4, <1>6, <1>8 DEF KeptInv

(* The steps of the loop. *)
LEMMA LoopKeeps ==
  ASSUME IInv, KeptInv, NEW t \in Turns, pc[t] \in {"llm", "force"},
         NEW x \in {"llm", "force", "save", "failed"}, NEW g,
         pc' = [pc EXCEPT ![t] = x], messages' = [messages EXCEPT ![t] = g],
         UNCHANGED <<store, history>>,
         LET a == answered[SessionOf[t]] IN
             x # "failed" /\ Present(messages[t], a, t) /\ Full(messages[t], a, excused)
                 => Present(g, a, t) /\ Full(g, a, excused)
  PROVE  KeptInv'
<1> DEFINE a == answered[SessionOf[t]]
<1>1. /\ Present(messages[t], a, t) /\ Full(messages[t], a, excused) /\ Open(t)
      /\ excused \subseteq Turns /\ UNCHANGED <<stored, answered, excused>>
  BY DEF KeptInv, LocalsAreFull, LocalIsFull, Answers, Open, store, history
<1>2. Answers' /\ OverlapIsExcused' /\ LocalsAreFull'
  BY <1>1, TurnKeeps
<1>3. StoreIsPast' /\ StoreIsFull'
  BY <1>1, StoreStaysFull
<1>. QED BY <1>2, <1>3 DEF KeptInv

LEMMA CallToolsKeeps ==
  ASSUME IInv, KeptInv, NEW t \in Turns, NEW n \in 1 .. MaxCalls, CallTools(t, n) PROVE KeptInv'
<1> DEFINE a == answered[SessionOf[t]]
           g == Called(messages[t], t, n)
<1>1. /\ pc[t] = "llm" /\ UNCHANGED <<store, history>> /\ messages' = [messages EXCEPT ![t] = g]
  BY DEF CallTools, Called, IInv, Types
<1>2. PICK x \in {"llm", "save", "force"} : pc' = [pc EXCEPT ![t] = x]
  BY DEF CallTools, AfterTools
<1>3. a \in Seq(Turns) /\ t \notin Answerers(a) /\ messages[t] \in Histories
  BY <1>1, SessionAssumption, NotYet DEF KeptInv, Answers, IInv, Types
<1>4. n \in Nat
  BY LimitAssumption
<1>5. Present(messages[t], a, t) /\ Full(messages[t], a, excused)
          => Present(g, a, t) /\ Full(g, a, excused)
  BY <1>3, <1>4, CalledKeeps
<1> HIDE DEF g
<1>. QED BY <1>1, <1>2, <1>5, LoopKeeps

LEMMA AnswerKeeps ==
  ASSUME IInv, KeptInv, NEW t \in Turns, NEW step \in {"llm", "force"}, Answer(t, step)
  PROVE  KeptInv'
<1> DEFINE a == answered[SessionOf[t]]
           g == Append(messages[t], Message("answer", t))
<1>1. /\ pc[t] \in {"llm", "force"} /\ UNCHANGED <<store, history>>
      /\ messages' = [messages EXCEPT ![t] = g] /\ pc' = [pc EXCEPT ![t] = "save"]
  BY DEF Answer, IInv, Types
<1>2. /\ a \in Seq(Turns) /\ t \notin Answerers(a) /\ messages[t] \in Histories
      /\ Message("answer", t) \in Messages /\ Message("answer", t).turn = t
  BY <1>1, SessionAssumption, NotYet, MessageType DEF KeptInv, Answers, IInv, Types
<1>3. Present(messages[t], a, t) /\ Full(messages[t], a, excused)
          => Present(g, a, t) /\ Full(g, a, excused)
  BY <1>2, AddedKeeps
<1> HIDE DEF g
<1>. QED BY <1>1, <1>3, LoopKeeps

LEMMA FailKeeps ==
  ASSUME IInv, KeptInv, NEW t \in Turns, NEW step \in {"llm", "force"}, Fail(t, step)
  PROVE  KeptInv'
<1>1. /\ pc[t] \in {"llm", "force"} /\ UNCHANGED <<store, history>>
      /\ messages' = [messages EXCEPT ![t] = <<>>] /\ pc' = [pc EXCEPT ![t] = "failed"]
  BY DEF Fail, Leave
<1>. QED BY <1>1, LoopKeeps

(* Set: the turns that lose their place in memory or in the table by it are *)
(* excused, whether they are in this session or in the one evicted.         *)
LEMMA SetKeeps == ASSUME IInv, KeptInv, NEW t \in Turns, Set(t) PROVE KeptInv'
<1> DEFINE s   == SessionOf[t]
           a   == answered[s]
           b   == Append(a, t)
           g   == Trim(messages[t])
           new == [turn |-> t, messages |-> g]
           out == IF Len(Touched(s)) > MaxSessions THEN {Head(Touched(s))} ELSE {}
<1>1. /\ s \in Sessions /\ pc[t] = "save" /\ Open(t) /\ stored' = stored
      /\ pc' = [pc EXCEPT ![t] = "done"] /\ messages' = [messages EXCEPT ![t] = <<>>]
      /\ saves' = saves \cup {new} /\ answered' = [answered EXCEPT ![s] = b]
      /\ memory' = [x \in Sessions |-> IF x = s THEN g
                                       ELSE IF x \in out THEN <<>> ELSE memory[x]]
      /\ excused' = excused \cup (IF SavesOf(s) # {} THEN {t} ELSE {})
                            \cup UNION {Carried(SavesOf(x)) : x \in out}
  BY SessionAssumption DEF Set, Leave, Open
<1> HIDE DEF out
<1>2. /\ a \in Seq(Turns) /\ t \notin Answerers(a)
      /\ answered \in [Sessions -> Seq(Turns)] /\ excused \subseteq Turns
  BY <1>1, NotYet DEF KeptInv, Answers
<1>3. /\ messages[t] \in Histories /\ Growing(messages[t], t, {"answer", "tool"})
      /\ Present(messages[t], a, t) /\ Full(messages[t], a, excused)
  BY <1>1 DEF IInv, LocalsAreSound, LocalOk, Ends, KeptInv, LocalsAreFull, LocalIsFull
<1>4. Past(g, b) /\ Full(g, b, excused)
  BY <1>2, <1>3, TrimKeeps
<1>5. g # <<>>
  BY <1>3, LimitAssumption DEF Trim, Growing, Histories
<1> HIDE DEF g, new
<1>6. /\ \A x \in Sessions : answered'[x] = IF x = s THEN b ELSE answered[x]
      /\ \A u \in Turns : /\ pc'[u] = IF u = t THEN "done" ELSE pc[u]
                          /\ messages'[u] = IF u = t THEN <<>> ELSE messages[u]
      /\ \A x \in Sessions : memory'[x] = IF x = s THEN g
                                          ELSE IF x \in out THEN <<>> ELSE memory[x]
      /\ excused \subseteq excused' /\ (SavesOf(s) # {} => t \in excused')
      /\ \A x \in out : Carried(SavesOf(x)) \subseteq excused'
      /\ new.turn = t /\ new.messages = g
  BY <1>1, <1>2 DEF IInv, Types, new
<1>7. Carried(saves') = Carried(saves) \cup {t} /\ Carried(saves) \subseteq Turns
  BY <1>1, <1>6 DEF Carried, IInv, Types, Snapshots
<1> HIDE DEF b
<1>8. b \in Seq(Turns) /\ Answerers(b) = Answerers(a) \cup {t}
  BY <1>2, AnswerersGrow DEF b
<1>9. Answers'
  <2>1. answered' \in [Sessions -> Seq(Turns)]
    BY <1>1, <1>2, <1>8
  <2>2. excused' \subseteq Turns
    BY <1>1, <1>2 DEF Carried, SavesOf, IInv, Types, Snapshots
  <2>3. \A x \in Sessions : \A u \in Answerers(answered'[x]) : SessionOf[u] = x /\ pc'[u] = "done"
    <3> TAKE x \in Sessions
    <3> TAKE u \in Answerers(answered'[x])
    <3>1. (u = t /\ x = s) \/ u \in Answerers(answered[x])
      BY <1>6, <1>8
    <3>2. u \in Turns
      BY <3>1, <1>2 DEF Answerers
    <3>. QED BY <3>1, <3>2, <1>6 DEF KeptInv, Answers
  <2>. QED BY <2>1, <2>2, <2>3 DEF Answers
<1>10. OverlapIsExcused'
  <2>1. \A u \in Turns : Open(u)' => Open(u)
    BY <1>6, <1>1 DEF Open
  <2>. QED BY <2>1, <1>6 DEF KeptInv, OverlapIsExcused
<1>11. StoreIsPast'
  <2>1. ASSUME NEW h \in Histories, Past(h, a) PROVE Past(h, b)
    BY <2>1, <1>2, PastOneMore DEF b
  <2>2. \A x \in Sessions : Past(memory'[x], answered'[x]) /\ Past(stored[x], answered'[x])
    <3> TAKE x \in Sessions
    <3>1. Past(memory[x], answered[x]) /\ Past(stored[x], answered[x]) /\ stored[x] \in Histories
      BY DEF KeptInv, StoreIsPast, IInv, Types
    <3>. QED BY <3>1, <2>1, <1>4, <1>6, PastEmpty
  <2>3. \A p \in saves' : Past(p.messages, answered'[SessionOf[p.turn]])
    <3> TAKE p \in saves'
    <3>1. CASE p = new
      BY <3>1, <1>1, <1>4, <1>6
    <3>2. CASE p \in saves
      <4>1. Past(p.messages, answered[SessionOf[p.turn]]) /\ p.messages \in Histories
            /\ SessionOf[p.turn] \in Sessions
        BY <3>2, SessionAssumption DEF KeptInv, StoreIsPast, IInv, Types, Snapshots
      <4>. QED BY <4>1, <2>1, <1>6
    <3>. QED BY <3>1, <3>2, <1>1
  <2>. QED BY <2>2, <2>3, <1>1 DEF StoreIsPast
<1>12. ASSUME NEW h, NEW E, NEW F, Full(h, a, E), E \cap Answerers(a) \subseteq F, t \in F
       PROVE  Full(h, b, F)
  BY <1>12, <1>2, FullOneMore DEF b
<1>13. StoreIsFull'
  <2>1. ASSUME NEW x \in Sessions PROVE Full(Current(x)', answered'[x], excused')
    <3>1. CASE x = s
      <4>1. Current(x)' = g
        BY <3>1, <1>5, <1>6 DEF Current
      <4>. QED BY <3>1, <4>1, <1>4, <1>6, FullGrows
    <3>2. CASE x # s /\ x \in out
      <4>1. Current(x)' = stored[x] /\ answered'[x] = answered[x]
        BY <3>2, <1>1, <1>6 DEF Current
      <4>2. Full(stored[x], answered[x], excused \cup Carried(saves))
        BY DEF KeptInv, StoreIsFull
      <4>3. Carried(saves) \cap Answerers(answered[x]) \subseteq Carried(SavesOf(x))
        <5>1. \A u \in Answerers(answered[x]) : SessionOf[u] = x
          BY DEF KeptInv, Answers
        <5>. QED BY <5>1 DEF Carried, SavesOf
      <4>4. (excused \cup Carried(saves)) \cap Answerers(answered[x]) \subseteq excused'
        BY <4>3, <3>2, <1>6
      <4>. QED BY <4>1, <4>2, <4>4, FullGrows
    <3>3. CASE x # s /\ x \notin out
      <4>1. Current(x)' = Current(x) /\ answered'[x] = answered[x]
        BY <3>3, <1>1, <1>6 DEF Current
      <4>2. Full(Current(x), answered[x], excused)
        BY DEF KeptInv, StoreIsFull
      <4>. QED BY <4>1, <4>2, <1>6, FullGrows
    <3>. QED BY <3>1, <3>2, <3>3
  <2>2. ASSUME NEW x \in Sessions
        PROVE  Full(stored[x], answered'[x], excused' \cup Carried(saves'))
    <3>1. Full(stored[x], answered[x], excused \cup Carried(saves))
      BY DEF KeptInv, StoreIsFull
    <3>2. excused \cup Carried(saves) \subseteq excused' \cup Carried(saves')
          /\ t \in excused' \cup Carried(saves')
      BY <1>6, <1>7
    <3>3. CASE x = s
      BY <3>1, <3>2, <3>3, <1>6, <1>12
    <3>4. CASE x # s
      BY <3>1, <3>2, <3>4, <1>6, FullGrows
    <3>. QED BY <3>3, <3>4
  <2>3. ASSUME NEW p \in saves' PROVE Full(p.messages, answered'[SessionOf[p.turn]], excused')
    <3>1. CASE p = new
      BY <3>1, <1>1, <1>4, <1>6, FullGrows
    <3>2. CASE p \in saves
      <4>1. /\ SessionOf[p.turn] \in Sessions
            /\ Full(p.messages, answered[SessionOf[p.turn]], excused)
        BY <3>2, SessionAssumption DEF KeptInv, StoreIsFull, IInv, Types, Snapshots
      <4>2. CASE SessionOf[p.turn] = s
        <5>1. t \in excused'
          BY <3>2, <4>2, <1>6 DEF SavesOf
        <5>. QED BY <4>1, <4>2, <5>1, <1>6, <1>12
      <4>3. CASE SessionOf[p.turn] # s
        BY <4>1, <4>3, <1>6, FullGrows
      <4>. QED BY <4>2, <4>3
    <3>. QED BY <3>1, <3>2, <1>1
  <2>. QED BY <2>1, <2>2, <2>3, <1>1 DEF StoreIsFull
<1>14. LocalsAreFull'
  <2> SUFFICES ASSUME NEW u \in Turns PROVE LocalIsFull(u)'
    BY DEF LocalsAreFull
  <2>1. CASE u = t
    BY <2>1, <1>6 DEF LocalIsFull
  <2>2. CASE u # t
    <3>1. /\ pc'[u] = pc[u] /\ messages'[u] = messages[u] /\ messages[u] \in Histories
          /\ LocalIsFull(u) /\ SessionOf[u] \in Sessions
      BY <2>2, <1>6, SessionAssumption DEF KeptInv, LocalsAreFull, IInv, Types
    <3>2. CASE SessionOf[u] # s
      <4>1. answered'[SessionOf[u]] = answered[SessionOf[u]]
        BY <3>1, <3>2, <1>6
      <4>. QED BY <3>1, <4>1, <1>1, <1>6, FullGrows DEF LocalIsFull
    <3>3. CASE SessionOf[u] = s /\ Open(u)
      <4>1. t \in excused' /\ answered'[SessionOf[u]] = b /\ answered[SessionOf[u]] = a
        BY <2>2, <3>1, <3>3, <1>1, <1>6 DEF KeptInv, OverlapIsExcused
      <4>2. \A h : Full(h, a, excused) => Full(h, b, excused')
        BY <4>1, <1>6, <1>12
      <4>3. /\ Past(messages[u], a) => Past(messages[u], b)
            /\ Present(messages[u], a, u) => Present(messages[u], b, u)
        BY <2>2, <3>1, <1>2, PastOneMore, PresentOneMore DEF b
      <4>. QED BY <3>1, <4>1, <4>2, <4>3, <1>1 DEF LocalIsFull
    <3>4. CASE ~Open(u)
      BY <3>1, <3>4 DEF LocalIsFull, Open
    <3>. QED BY <3>2, <3>3, <3>4
  <2>. QED BY <2>1, <2>2
<1>. QED BY <1>9, <1>10, <1>11, <1>13, <1>14 DEF KeptInv
-----------------------------------------------------------------------------
(* Steps of the store alone *)

(* Turns read on as before, from a row that keeps all. *)
LEMMA TurnsStayFull ==
  ASSUME IInv, KeptInv, UNCHANGED <<pc, messages, answered>>,
         excused \subseteq excused', excused' \subseteq Turns,
         \A t \in Turns : pc[t] = "warm" =>
             Full(stored'[SessionOf[t]], answered[SessionOf[t]], excused')
  PROVE  Answers' /\ OverlapIsExcused' /\ LocalsAreFull'
<1>1. Answers'
  BY DEF KeptInv, Answers
<1>2. OverlapIsExcused'
  BY DEF KeptInv, OverlapIsExcused, Open
<1>3. LocalsAreFull'
  <2> SUFFICES ASSUME NEW t \in Turns PROVE LocalIsFull(t)'
    BY DEF LocalsAreFull
  <2>1. LocalIsFull(t)
    BY DEF KeptInv, LocalsAreFull
  <2>. QED BY <2>1, FullGrows DEF LocalIsFull
<1>. QED BY <1>1, <1>2, <1>3

LEMMA SaveEndsKeeps ==
  ASSUME IInv, KeptInv, NEW p \in saves, NEW committed \in BOOLEAN, SaveEnds(p, committed)
  PROVE  KeptInv'
<1> DEFINE s == SessionOf[p.turn]
<1>1. /\ UNCHANGED <<memory, pc, messages, answered>> /\ saves' = saves \ {p}
      /\ stored' = (IF committed THEN [stored EXCEPT ![s] = p.messages] ELSE stored)
      /\ excused' = (IF committed THEN excused ELSE excused \cup {p.turn})
      /\ p.turn \in Turns /\ s \in Sessions
  BY SessionAssumption DEF SaveEnds, turns, IInv, Types, Snapshots
<1>2. Past(p.messages, answered[s]) /\ Full(p.messages, answered[s], excused)
  BY DEF KeptInv, StoreIsPast, StoreIsFull
<1>3. excused \subseteq excused' /\ excused' \subseteq Turns
  BY <1>1 DEF KeptInv, Answers
<1>4. /\ \A x \in Sessions : stored'[x] = stored[x] \/ (x = s /\ stored'[x] = p.messages)
      /\ committed => stored'[s] = p.messages
  <2>1. stored \in [Sessions -> Histories]
    BY DEF IInv, Types
  <2>. QED BY <1>1, <2>1
<1>5. Answers' /\ OverlapIsExcused' /\ LocalsAreFull'
  <2>1. ASSUME NEW t \in Turns, pc[t] = "warm"
        PROVE  Full(stored'[SessionOf[t]], answered[SessionOf[t]], excused')
    <3>1. Full(stored[SessionOf[t]], answered[SessionOf[t]], excused)
          /\ SessionOf[t] \in Sessions
      BY <2>1, SessionAssumption DEF KeptInv, LocalsAreFull, LocalIsFull
    <3>. QED BY <3>1, <1>2, <1>3, <1>4, FullGrows
  <2>. QED BY <2>1, <1>1, <1>3, TurnsStayFull
<1>6. StoreIsPast'
  BY <1>1, <1>2, <1>4 DEF KeptInv, StoreIsPast
<1>7. StoreIsFull'
  <2>1. ASSUME NEW x \in Sessions PROVE Full(Current(x)', answered[x], excused')
    <3>1. Current(x)' = Current(x) \/ (x = s /\ Current(x)' = p.messages)
      <4>1. stored'[x] = stored[x] \/ (x = s /\ stored'[x] = p.messages)
        BY <1>4
      <4>. QED BY <4>1, <1>1 DEF Current
    <3>2. Full(Current(x), answered[x], excused)
      BY DEF KeptInv, StoreIsFull
    <3>. QED BY <3>1, <3>2, <1>2, <1>3, FullGrows
  <2>2. ASSUME NEW x \in Sessions
        PROVE  Full(stored'[x], answered[x], excused' \cup Carried(saves'))
    <3>1. Full(stored[x], answered[x], excused \cup Carried(saves))
      BY DEF KeptInv, StoreIsFull
    <3>2. Carried(saves) \subseteq Carried(saves') \cup {p.turn}
      BY <1>1 DEF Carried
    <3>3. CASE committed /\ x = s
      BY <3>3, <1>2, <1>3, <1>4, FullGrows
    <3>4. CASE committed /\ x # s
      <4>1. \A u \in Answerers(answered[x]) : u # p.turn
        BY <3>4 DEF KeptInv, Answers
      <4>2. (excused \cup Carried(saves)) \cap Answerers(answered[x])
                \subseteq excused' \cup Carried(saves')
        BY <4>1, <3>2, <1>3
      <4>. QED BY <3>1, <3>4, <4>2, <1>4, FullGrows
    <3>5. CASE ~committed
      <4>1. excused \cup Carried(saves) \subseteq excused' \cup Carried(saves')
            /\ stored' = stored
        BY <3>2, <3>5, <1>1
      <4>. QED BY <3>1, <4>1, FullGrows
    <3>. QED BY <3>3, <3>4, <3>5
  <2>3. \A q \in saves' : Full(q.messages, answered[SessionOf[q.turn]], excused')
    BY <1>1, <1>3, FullGrows DEF KeptInv, StoreIsFull
  <2>. QED BY <2>1, <2>2, <2>3, <1>1 DEF StoreIsFull
<1>. QED BY <1>5, <1>6, <1>7 DEF KeptInv

(* Entries of memory or rows go, and every turn they held may be lost or is *)
(* in the row that is left.                                                 *)
LEMMA EntriesGoKeeps ==
  ASSUME IInv, KeptInv, UNCHANGED <<saves, pc, messages, answered>>,
         excused \subseteq excused', excused' \subseteq Turns,
         \A x \in Sessions : memory'[x] \in {<<>>, memory[x]} /\ stored'[x] \in {<<>>, stored[x]},
         \A x \in Sessions :
             \/ memory'[x] = memory[x] /\ stored'[x] = stored[x]
             \/ stored'[x] = stored[x] /\ SavesOf(x) = {}
             \/ Answerers(answered[x]) \subseteq excused'
  PROVE  KeptInv'
<1>1. Answers' /\ OverlapIsExcused' /\ LocalsAreFull'
  <2>1. ASSUME NEW t \in Turns, pc[t] = "warm"
        PROVE  Full(stored'[SessionOf[t]], answered[SessionOf[t]], excused')
    <3>1. Full(stored[SessionOf[t]], answered[SessionOf[t]], excused)
          /\ SessionOf[t] \in Sessions
      BY <2>1, SessionAssumption DEF KeptInv, LocalsAreFull, LocalIsFull
    <3>. QED BY <3>1, FullGrows, FullOfAll
  <2>. QED BY <2>1, TurnsStayFull
<1>2. StoreIsPast'
  BY PastEmpty DEF KeptInv, StoreIsPast
<1>3. ASSUME NEW x \in Sessions
      PROVE  /\ Full(Current(x)', answered[x], excused')
             /\ Full(stored'[x], answered[x], excused' \cup Carried(saves))
  <2>1. /\ Full(Current(x), answered[x], excused)
        /\ Full(stored[x], answered[x], excused \cup Carried(saves))
    BY DEF KeptInv, StoreIsFull
  <2>2. CASE memory'[x] = memory[x] /\ stored'[x] = stored[x]
    <3>1. Current(x)' = Current(x)
      BY <2>2 DEF Current
    <3>. QED BY <2>1, <2>2, <3>1, FullGrows
  <2>3. CASE stored'[x] = stored[x] /\ SavesOf(x) = {}
    <3>1. (excused \cup Carried(saves)) \cap Answerers(answered[x]) \subseteq excused'
      <4>1. \A u \in Answerers(answered[x]) : SessionOf[u] = x
        BY DEF KeptInv, Answers
      <4>. QED BY <4>1, <2>3 DEF Carried, SavesOf
    <3>2. Full(stored[x], answered[x], excused')
      BY <2>1, <3>1, FullGrows
    <3>3. Current(x)' = stored[x] \/ Current(x)' = Current(x)
      BY <2>3 DEF Current
    <3>. QED BY <2>1, <2>3, <3>2, <3>3, FullGrows
  <2>4. CASE Answerers(answered[x]) \subseteq excused'
    BY <2>4, FullOfAll
  <2>. QED BY <2>2, <2>3, <2>4
<1>4. StoreIsFull'
  <2>1. \A p \in saves : Full(p.messages, answered[SessionOf[p.turn]], excused')
    BY FullGrows DEF KeptInv, StoreIsFull
  <2>. QED BY <1>3, <2>1 DEF StoreIsFull
<1>. QED BY <1>1, <1>2, <1>4 DEF KeptInv

LEMMA EvictKeeps == ASSUME IInv, KeptInv, NEW n \in 1 .. Len(recent), Evict(n) PROVE KeptInv'
<1> DEFINE old == {recent[i] : i \in 1 .. n}
<1>1. /\ UNCHANGED <<stored, saves, pc, messages, answered, excused>>
      /\ \A s \in old : SavesOf(s) = {}
      /\ memory' = [s \in Sessions |-> IF s \in old THEN <<>> ELSE memory[s]]
  BY DEF Evict, turns, history
<1> HIDE DEF old
<1>2. \A x \in Sessions : /\ memory'[x] \in {<<>>, memory[x]}
                          /\ memory'[x] = memory[x] \/ SavesOf(x) = {}
  BY <1>1
<1>. QED BY <1>1, <1>2, EntriesGoKeeps DEF KeptInv, Answers

(* Every turn answered in a session has begun. *)
LEMMA AnsweredHaveBegun ==
  ASSUME IInv, KeptInv, NEW s \in Sessions
  PROVE  Answerers(answered[s]) \subseteq BegunIn(s)
<1>1. \A u \in Answerers(answered[s]) : u \in Turns /\ SessionOf[u] = s /\ pc[u] = "done"
  BY DEF KeptInv, Answers, Answerers
<1>. QED BY <1>1 DEF BegunIn

LEMMA DeleteEntryKeeps == ASSUME IInv, KeptInv, NEW s \in Sessions, DeleteEntry(s) PROVE KeptInv'
<1>1. /\ UNCHANGED <<stored, saves, pc, messages, answered>>
      /\ memory' = [memory EXCEPT ![s] = <<>>] /\ excused' = excused \cup BegunIn(s)
  BY DEF DeleteEntry, EntriesWithout, turns
<1>2. /\ excused' \subseteq Turns /\ Answerers(answered[s]) \subseteq excused'
      /\ \A x \in Sessions : memory'[x] = IF x = s THEN <<>> ELSE memory[x]
  BY <1>1, AnsweredHaveBegun DEF BegunIn, KeptInv, Answers, IInv, Types
<1>. QED BY <1>1, <1>2, EntriesGoKeeps

LEMMA DeleteRowKeeps ==
  ASSUME IInv, KeptInv, NEW s \in Sessions, NEW committed \in BOOLEAN, DeleteRow(s, committed)
  PROVE  KeptInv'
<1>1. /\ UNCHANGED <<memory, saves, pc, messages, answered>>
      /\ stored' = (IF committed THEN [stored EXCEPT ![s] = <<>>] ELSE stored)
      /\ excused' = excused \cup BegunIn(s)
  BY DEF DeleteRow, turns
<1>2. /\ excused' \subseteq Turns /\ Answerers(answered[s]) \subseteq excused'
      /\ \A x \in Sessions : IF x = s THEN stored'[x] \in {<<>>, stored[x]}
                             ELSE stored'[x] = stored[x]
  BY <1>1, AnsweredHaveBegun DEF BegunIn, KeptInv, Answers, IInv, Types
<1>. QED BY <1>1, <1>2, EntriesGoKeeps

(* A restart loses what saves were carrying, and leaves the table. *)
LEMMA RestartKeeps == ASSUME IInv, KeptInv, Restart PROVE KeptInv'
<1>1. /\ memory' = [s \in Sessions |-> <<>>] /\ saves' = {} /\ UNCHANGED <<stored, answered>>
      /\ pc' = [t \in Turns |-> IF Open(t) THEN "failed" ELSE pc[t]]
      /\ messages' = [t \in Turns |-> <<>>]
      /\ excused' = excused \cup Carried(saves)
  BY DEF Restart
<1>2. \A t \in Turns : ~Open(t)' /\ (pc[t] = "done" => pc'[t] = "done")
  BY <1>1 DEF Open
<1>3. Answers'
  <2>1. excused' \subseteq Turns
    BY <1>1 DEF Carried, KeptInv, Answers, IInv, Types, Snapshots
  <2>2. \A s \in Sessions : \A t \in Answerers(answered[s]) : t \in Turns
    BY DEF Answerers, KeptInv, Answers
  <2>. QED BY <1>1, <1>2, <2>1, <2>2 DEF KeptInv, Answers
<1>4. OverlapIsExcused' /\ LocalsAreFull'
  BY <1>2 DEF OverlapIsExcused, LocalsAreFull, LocalIsFull, Open
<1>5. StoreIsPast'
  BY <1>1, PastEmpty DEF KeptInv, StoreIsPast
<1>6. StoreIsFull'
  <2>1. \A s \in Sessions : /\ Current(s)' = stored[s]
                            /\ Full(stored[s], answered[s], excused')
    BY <1>1 DEF Current, KeptInv, StoreIsFull
  <2>2. excused' \subseteq excused' \cup Carried(saves')
    OBVIOUS
  <2>3. \A s \in Sessions : Full(stored[s], answered[s], excused' \cup Carried(saves'))
    BY <2>1, <2>2, FullGrows
  <2>. QED BY <2>1, <2>3, <1>1 DEF StoreIsFull
<1>. QED BY <1>3, <1>4, <1>5, <1>6 DEF KeptInv

LEMMA InitKeptInv == Init => KeptInv
<1> SUFFICES ASSUME Init PROVE KeptInv
  OBVIOUS
<1>1. Answers /\ OverlapIsExcused /\ LocalsAreFull
  BY DEF Init, Answers, Answerers, OverlapIsExcused, Open, LocalsAreFull, LocalIsFull
<1>2. StoreIsPast
  BY PastEmpty DEF Init, StoreIsPast
<1>3. StoreIsFull
  BY DEF Init, StoreIsFull, Full
<1>. QED BY <1>1, <1>2, <1>3 DEF KeptInv

LEMMA NextKeptInv == IInv /\ TypeInv /\ KeptInv /\ [Next]_vars => KeptInv'
<1> SUFFICES ASSUME IInv, TypeInv, KeptInv, [Next]_vars PROVE KeptInv'
  OBVIOUS
<1>1. CASE \E t \in Turns : Begin(t) \/ Warm(t) \/ CallLLM(t) \/ Set(t)
  BY <1>1, BeginKeeps, WarmKeeps, CallToolsKeeps, AnswerKeeps, FailKeeps, SetKeeps DEF CallLLM
<1>2. CASE \E t \in Turns, readable \in BOOLEAN : ReadRow(t, readable)
  BY <1>2, ReadRowKeeps
<1>3. CASE \E t \in Turns : Answer(t, "force") \/ Fail(t, "force")
  BY <1>3, AnswerKeeps, FailKeeps
<1>4. CASE \E p \in saves, committed \in BOOLEAN : SaveEnds(p, committed)
  BY <1>4, SaveEndsKeeps
<1>5. CASE \E n \in 1 .. Len(recent) : Evict(n)
  BY <1>5, EvictKeeps
<1>6. CASE \E s \in Sessions : DeleteEntry(s)
  BY <1>6, DeleteEntryKeeps
<1>7. CASE \E s \in Sessions, committed \in BOOLEAN : DeleteRow(s, committed)
  BY <1>7, DeleteRowKeeps
<1>8. CASE Restart
  BY <1>8, RestartKeeps
<1>9. CASE UNCHANGED vars
  <2>1. UNCHANGED <<memory, stored, saves, pc, messages, answered, excused>>
    BY <1>9 DEF vars, store, turns, history
  <2>. QED BY <2>1, EntriesGoKeeps DEF KeptInv, Answers
<1>. QED BY <1>1, <1>2, <1>3, <1>4, <1>5, <1>6, <1>7, <1>8, <1>9 DEF Next

(* No turn that was answered is lost but to the events that excuse it: the  *)
(* next turn reads it, the table has it once its save is over, or newer     *)
(* ones fill the history: session.go:58, 97, 144.                           *)
THEOREM Kept == Spec => []TurnsAreKept
<1>1. Spec => []KeptInv
  <2>1. Spec => []TypeInv
    BY InitTypeInv, NextTypeInv, Invariance, PTL DEF Spec
  <2>. QED BY InitKeptInv, NextKeptInv, <2>1, Invariance, PTL DEF Spec
<1>2. IInv /\ KeptInv => TurnsAreKept
  <2> SUFFICES ASSUME IInv, KeptInv, NEW s \in Sessions, NEW i \in 1 .. Len(answered[s]),
                      answered[s][i] \notin excused
               PROVE  /\ Keeps(Current(s), s, i)
                      /\ answered[s][i] \in Carried(saves) \/ Keeps(stored[s], s, i)
    BY DEF TurnsAreKept
  <2>1. ASSUME NEW h, Closed(h), h \in Histories, Holds(h, answered[s], i) PROVE Keeps(h, s, i)
    <3>1. Len(h) <= MaxHistory /\ Len(h) \in Nat
      BY <2>1, LimitAssumption DEF Closed, CutAtFront, Histories
    <3>. QED BY <2>1, <3>1, LimitAssumption DEF Holds, Keeps
  <2>2. /\ Closed(memory[s]) /\ Closed(stored[s])
        /\ memory[s] \in Histories /\ stored[s] \in Histories
    BY DEF IInv, StoreIsSound, Sound
  <2>3. /\ Holds(Current(s), answered[s], i)
        /\ answered[s][i] \in Carried(saves) \/ Holds(stored[s], answered[s], i)
    BY DEF KeptInv, StoreIsFull, Full
  <2>. QED BY <2>1, <2>2, <2>3 DEF Current
<1>. QED BY <1>1, <1>2, Invariance, PTL
=============================================================================
