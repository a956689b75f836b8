------------------------------ MODULE WindowLimit ------------------------------
(***************************************************************************)
(* What the limiter does (Allow in src/pkg/ratelimit/ratelimit.go), told   *)
(* without a bucket: a request is served exactly when, counted from any    *)
(* earlier served request of the same client, no more than Capacity and    *)
(* one per Refill passed since are served.  RateLimit implements it.  The  *)
(* comment of New promises less, Capacity in all of a window               *)
(* (CapacityPerWindow in RateLimit).                                       *)
(***************************************************************************)
EXTENDS Integers, Sequences

CONSTANTS Clients, Capacity, Refill

VARIABLES now, granted, answer

NoAnswer == [client |-> "none", code |-> 0]

Init == now = 0 /\ granted = [c \in Clients |-> <<>>] /\ answer = NoAnswer

(* One more served request keeps the bound for every window that ends now. *)
Fits(times) ==
    \A i \in 1 .. Len(times) : (Len(times) + 2 - i) * Refill <= Capacity * Refill + now - times[i]

Serve(c, code) ==
    /\ Fits(granted[c]) /\ code \in {200, 400}
    /\ granted' = [granted EXCEPT ![c] = Append(@, now)]
    /\ answer' = [client |-> c, code |-> code]
    /\ UNCHANGED now

Deny(c) ==
    /\ ~Fits(granted[c])
    /\ answer' = [client |-> c, code |-> 429]
    /\ UNCHANGED <<now, granted>>

Unauthorized(c) ==
    /\ answer' = [client |-> c, code |-> 401]
    /\ UNCHANGED <<now, granted>>

Tick == now' = now + 1 /\ answer' = NoAnswer /\ UNCHANGED granted

Restart ==
    /\ granted' = [c \in Clients |-> <<>>] /\ answer' = NoAnswer
    /\ UNCHANGED now

Next ==
    \/ \E c \in Clients : Deny(c) \/ Unauthorized(c) \/ \E code \in {200, 400} : Serve(c, code)
    \/ Tick \/ Restart
Spec == Init /\ [][Next]_<<now, granted, answer>>
=============================================================================
