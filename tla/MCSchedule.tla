----------------------------- MODULE MCSchedule -----------------------------
(* The fetch manager (FetchManager) with a scheduled caller and a chat      *)
(* caller: a feed both ask and two NewsAPI categories that share one health *)
(* key; and scheduled processes (ScheduleMode), of which two may overlap.   *)
(* The two share no variable: in a behaviour one of them runs and the other *)
(* stays as it began, so that their states are added up and not multiplied. *)
EXTENDS FetchManager, ScheduleMode, TLC

CONSTANTS Sides, sched, chat, feed, business, tech, noUrl, a, b, p1, p2
VARIABLE side
mcVars == <<side, managerVars, vars>>

MCKeyOf == (feed :> feed) @@ (business :> noUrl) @@ (tech :> noUrl)
MCPlans == (sched :> {{}, {feed, business}, {business, tech}}) @@ (chat :> {{feed}})
MCSymmetry == Permutations({a, b}) \cup Permutations({p1, p2})

MCInit == side \in Sides /\ ManagerInit /\ Init /\ (side = "schedule" \/ hosted)
MCNext ==
    /\ UNCHANGED side
    /\ \/ side = "manager" /\ ManagerNext /\ UNCHANGED vars
       \/ side = "schedule" /\ Next /\ UNCHANGED managerVars

MCSpec == MCInit /\ [][MCNext]_mcVars
(* For runs of the fetch manager alone. *)
MCFairSpec == MCSpec /\ ManagerFairness
=============================================================================
