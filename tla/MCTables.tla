------------------------------ MODULE MCTables ------------------------------
(* The table of articles (Library): two backfills that may overlap, and an  *)
(* export with a query beside one backfill; and the table of sources        *)
(* (Sources): two processes, a list of two feeds, and a source that is not  *)
(* in it.  The tables share no variable: in a behaviour one of them changes *)
(* and the other stays as it began, so that their states are added up and   *)
(* not multiplied.                                                          *)
EXTENDS Library, Sources, TLC

CONSTANTS Sides, f1, f2, feed1, feed2, other, p1, p2
VARIABLE side
mcVars == <<side, libraryVars, vars>>

MCBatches  == {<<FALSE, FALSE>>, <<FALSE>>}
MCFeeds    == <<feed1, feed2>>
MCSymmetry == Permutations({f1, f2}) \cup Permutations({p1, p2})

(* Where only backfills are looked at, all rows are alike to an export.     *)
(* Beside an export, there is one backfill of one article, on two days.     *)
OnlyBackfills == export = NoExport /\ \A i \in Present : articles[i].rank = 1
OneBackfill   ==
    /\ \A f \in Fillers : Len(fill[f].refs) <= 1
    /\ \A f, g \in Fillers : f # g => NoFill \in {fill[f], fill[g]}
    /\ now <= 1

MCInit == side \in Sides /\ LibraryInit /\ Init
MCNext ==
    /\ UNCHANGED side
    /\ \/ side = "backfill" /\ LibraryNext /\ OnlyBackfills' /\ UNCHANGED vars
       \/ side = "export" /\ LibraryNext /\ OneBackfill' /\ UNCHANGED vars
       \/ side = "sources" /\ Next /\ UNCHANGED libraryVars

MCSpec == MCInit /\ [][MCNext]_mcVars
=============================================================================
