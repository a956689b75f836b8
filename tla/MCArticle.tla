------------------------------ MODULE MCArticle ------------------------------
(* How a run is started over HTTP (FetchApi), and one article on its way to *)
(* the website (Publication).  The two share no variable: in a behaviour    *)
(* one of them runs and the other stays as it began, so that their states   *)
(* are added up and not multiplied.                                         *)
EXTENDS FetchApi, Publication, TLC

CONSTANTS r1, r2, q1, u1, c1, c2
VARIABLE side
mcVars == <<side, apiVars, publicationVars>>

MCInit == side \in {"api", "publication"} /\ ApiInit /\ PublicationInit
MCNext ==
    /\ UNCHANGED side
    /\ \/ side = "api" /\ ApiNext /\ UNCHANGED publicationVars
       \/ side = "publication" /\ PublicationNext /\ UNCHANGED apiVars

(* What is assumed fair is never enabled in the part that stays as it began. *)
MCFairSpec == MCInit /\ [][MCNext]_mcVars /\ ApiFairness /\ PublicationFairness
=============================================================================
