------------------------------- MODULE MCChat -------------------------------
(* Sessions of the chat (Conversation): three turns, two of them in one     *)
(* session, and memory for one session; and the limiter in front of it      *)
(* (RateLimit): two clients, two requests a minute, and a sweep as early as *)
(* is allowed.  The two share no variable: in a behaviour one of them runs  *)
(* and the other stays as it began, so that their states are added up and   *)
(* not multiplied.                                                          *)
EXTENDS Conversation, RateLimit, TLC

CONSTANTS Sides, s1, s2, t1, t2, t3, c1, c2
VARIABLE side
mcVars == <<side, vars, limiterVars>>

MCSessionOf == (t1 :> s1) @@ (t2 :> s1) @@ (t3 :> s2)
MCSymmetry  == Permutations({c1, c2})

MCInit == side \in Sides /\ Init /\ LimiterInit
MCNext ==
    /\ UNCHANGED side
    /\ \/ side = "sessions" /\ Next /\ UNCHANGED limiterVars
       \/ side = "limiter" /\ LimiterNext /\ UNCHANGED vars

MCSpec == MCInit /\ [][MCNext]_mcVars
=============================================================================
