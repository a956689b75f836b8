------------------------------- MODULE RateLimit -------------------------------
(***************************************************************************)
(* The limiter of one group of endpoints, with a token bucket for each     *)
(* client (src/pkg/ratelimit), and what stands before and behind it: the   *)
(* token check and the validation of a request (src/internal/chat,         *)
(* src/internal/api/handler.go).  The chat endpoints and the management    *)
(* API each have a limiter of their own, when one is configured.  Tokens   *)
(* are counted in the ticks it takes to refill them.                       *)
(***************************************************************************)
EXTENDS Integers, Sequences

CONSTANTS
    Clients,     \* IP addresses
    Capacity,    \* requests per minute, the size of a bucket
    Refill,      \* ticks per token: a minute divided by Capacity
    Idle,        \* ticks between two sweeps, and the age of what they drop
    MaxNow,      \* bound: clock
    None         \* no bucket

(* A full bucket takes a minute, a sweep ten. *)
ASSUME RateAssumption ==
    /\ Capacity \in Nat \ {0} /\ Refill \in Nat \ {0} /\ MaxNow \in Nat
    /\ Idle \in Nat /\ Capacity * Refill <= Idle
ASSUME NoneAssumption == None \notin [tokens : 0 .. Capacity * Refill, seen : 0 .. MaxNow]

Full     == Capacity * Refill
Buckets  == [tokens : 0 .. Full, seen : 0 .. MaxNow]
NoAnswer == [client |-> "none", code |-> 0]

VARIABLES
    now,
    buckets, lastSweep,     \* the limiter
    granted,                \* history: when each client's requests were served
    answer                  \* history: the answer of the last step, if it gave one

limiter == <<buckets, lastSweep>>
limiterVars == <<now, limiter, granted, answer>>

LimiterInit ==
    /\ now = 0
    /\ buckets = [c \in Clients |-> None] /\ lastSweep = 0
    /\ granted = [c \in Clients |-> <<>>] /\ answer = NoAnswer

-----------------------------------------------------------------------------
(* Mutant: the sweep drops every bucket. *)
SweepDue   == now - lastSweep > Idle
SweptAll   == IF SweepDue THEN [c \in Clients |-> None] ELSE buckets
Swept ==
    IF SweepDue
    THEN [c \in Clients |-> IF buckets[c] # None /\ buckets[c].seen < now - Idle THEN None ELSE buckets[c]]
    ELSE buckets

(* Mutant: a bucket fills beyond its capacity. *)
RefilledOver(b) == b.tokens + (now - b.seen)
Refilled(b)     == IF b.tokens + (now - b.seen) > Full THEN Full ELSE b.tokens + (now - b.seen)

(* The tokens a client has now: all of them when it has no bucket. *)
Held(c) == IF Swept[c] = None THEN Full ELSE Refilled(Swept[c])

(* Allow(key): the caller learns whether it may go on. *)
Allow(c, allowed) ==
    /\ allowed = (Held(c) >= Refill)
    /\ buckets' = [Swept EXCEPT ![c] =
           [tokens |-> IF allowed THEN Held(c) - Refill ELSE Held(c), seen |-> now]]
    /\ lastSweep' = IF SweepDue THEN now ELSE lastSweep

(* A request that may go on counts, valid or not. *)
Verdict(allowed, valid) == IF ~allowed THEN 429 ELSE IF valid THEN 200 ELSE 400

Respond(c, code) ==
    /\ answer' = [client |-> c, code |-> code]
    /\ granted' = IF code \in {200, 400} THEN [granted EXCEPT ![c] = Append(@, now)] ELSE granted
    /\ UNCHANGED now

(* Mutant: the limiter is asked before the token is checked. *)
LimitFirst(c, authorized, valid) ==
    \E allowed \in BOOLEAN :
        /\ Allow(c, allowed)
        /\ Respond(c, IF authorized THEN Verdict(allowed, valid) ELSE 401)

(* The token check, the limiter, the validation. *)
Unauthorized(c) == Respond(c, 401) /\ UNCHANGED limiter
Handle(c, authorized, valid) ==
    \/ ~authorized /\ Unauthorized(c)
    \/ authorized /\ \E allowed \in BOOLEAN : Allow(c, allowed) /\ Respond(c, Verdict(allowed, valid))

Tick ==
    /\ now < MaxNow
    /\ now' = now + 1
    /\ answer' = NoAnswer
    /\ UNCHANGED <<limiter, granted>>

(* The process is started again, with a limiter that knows nobody. *)
LimiterRestart ==
    /\ buckets' = [c \in Clients |-> None] /\ lastSweep' = now
    /\ granted' = [c \in Clients |-> <<>>] /\ answer' = NoAnswer
    /\ UNCHANGED now

LimiterNext ==
    \/ \E c \in Clients, authorized, valid \in BOOLEAN : Handle(c, authorized, valid)
    \/ Tick \/ LimiterRestart
LimiterSpec == LimiterInit /\ [][LimiterNext]_limiterVars

-----------------------------------------------------------------------------
(* Properties *)

LimiterTypeOK ==
    /\ now \in 0 .. MaxNow /\ lastSweep \in 0 .. now
    /\ buckets \in [Clients -> Buckets \cup {None}]
    /\ granted \in [Clients -> Seq(0 .. MaxNow)]

(* Between any two served requests of a client, both counted, lie no more  *)
(* than Capacity and one for each Refill that passed, though its bucket    *)
(* was dropped and made anew in between: a sweep takes only buckets that   *)
(* are full again (Limiter.Allow).                                         *)
WindowBound ==
    \A c \in Clients : \A i, j \in DOMAIN granted[c] :
        i <= j => (j + 1 - i) * Refill <= Capacity * Refill + granted[c][j] - granted[c][i]

(* "A limiter that allows up to capacity requests per refill*capacity       *)
(* window" (New): of one client no more than Capacity are served within     *)
(* less than a window.  More are: a full bucket is served at once, and what *)
(* is refilled meanwhile before the window is over.                         *)
CapacityPerWindow ==
    \A c \in Clients : \A i, j \in DOMAIN granted[c] :
        i <= j /\ granted[c][j] - granted[c][i] < Full => j + 1 - i <= Capacity

(* Memory: after a sweep no bucket is left that nobody used within the     *)
(* last ten minutes before it (the comment in Limiter.Allow).              *)
BucketsAreRecent ==
    \A c \in Clients : buckets[c] # None => buckets[c].seen >= lastSweep - Idle

(* The limiter turns away exactly the requests that would break the bound  *)
(* of some window, and a request without a valid token costs its client    *)
(* nothing (tokenAuth: "rejected requests do not consume per-IP quota").   *)
Windows == INSTANCE WindowLimit
WindowSpec == Windows!Spec
=============================================================================
