---------------------------- MODULE PipelineSlot ----------------------------
(***************************************************************************)
(* What the fetch API promises about pipeline runs, without its lock, its  *)
(* channels or its order of writes: at most one run executes, it executes  *)
(* once, and its result is known from the moment it stops executing until  *)
(* the process restarts.                                                   *)
(***************************************************************************)
CONSTANT Runs          \* run identifiers, each used for one run

VARIABLES
    started,           \* runs ever started
    executing,         \* the run in the pipeline, if any
    results            \* runs whose result is held in memory

Init == started = {} /\ executing = {} /\ results = {}

Start(r) ==
    /\ executing = {} /\ r \notin started
    /\ started' = started \cup {r}
    /\ executing' = {r}
    /\ UNCHANGED results

Finish(r) ==
    /\ executing = {r}
    /\ executing' = {}
    /\ results' = results \cup {r}
    /\ UNCHANGED started

Restart ==
    /\ executing' = {}
    /\ results' = {}
    /\ UNCHANGED started

Next == Restart \/ \E r \in Runs : Start(r) \/ Finish(r)

Spec == Init /\ [][Next]_<<started, executing, results>>
=============================================================================
