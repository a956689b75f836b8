----------------------------- MODULE MCPipeline -----------------------------
(* What is left of the fetched items (Intake) and the stages they then go   *)
(* through (Pipeline).  The two share no variable: in a behaviour one of    *)
(* them runs and the other stays as it began, so that their states are      *)
(* added up and not multiplied.                                             *)
EXTENDS Intake, Pipeline

CONSTANTS Sides, a, b, c, d, e, press, blog
VARIABLE side
mcVars == <<side, intakeVars, vars>>

(* Titles abc, bcd and cde form a chain: each is similar to the next, the   *)
(* outer two are not similar; the title ab is too short to be compared.     *)
MCTokens    == {a, b, c, d, e}
MCTitles    == {{a, b, c}, {b, c, d}, {c, d, e}, {a, b}}
MCTexts     == {[desc |-> {e}, content |-> 0, linked |-> TRUE],
                [desc |-> {}, content |-> 2, linked |-> TRUE]}
MCFetchable == {[title |-> t, desc |-> x.desc, domain |-> s, content |-> x.content, linked |-> x.linked] :
                    t \in MCTitles, s \in {press, blog}, x \in MCTexts}
NoFilter    == [white |-> {}, black |-> {}]
MCFilters   == {NoFilter, [white |-> {a}, black |-> {}],
                [white |-> {}, black |-> {a}], [white |-> {a}, black |-> {e}]}

(* Everything on; no website and no verification; no database. *)
Deployment(s, p, v) == [store |-> s, publisher |-> p, skipVerification |-> v]
Full      == Deployment(TRUE, TRUE, FALSE)
MCConfigs == {Full, Deployment(TRUE, FALSE, TRUE), Deployment(FALSE, TRUE, FALSE)}

MCInit ==
    /\ side \in Sides
    /\ Init /\ (side = "pipeline" \/ config = Full)
    /\ IntakeInit /\ (side = "intake" \/ (lists = NoFilter /\ items = <<>>))
MCNext ==
    /\ UNCHANGED side
    /\ \/ side = "intake" /\ IntakeNext /\ UNCHANGED vars
       \/ side = "pipeline" /\ Next /\ UNCHANGED intakeVars

MCSpec == MCInit /\ [][MCNext]_mcVars
(* What is assumed fair is never enabled in the part that stays as it began. *)
MCFairSpec == MCSpec /\ IntakeFairness /\ Fairness
=============================================================================
