----------------------------- MODULE MCTwoRuns ------------------------------
(***************************************************************************)
(* Two runs: one orchestrator after the other with duplicated broadcasts,  *)
(* or two that may be open at once, as two users of the page or of the     *)
(* command line can have them.                                             *)
(***************************************************************************)
EXTENDS MCSyncBench

VARIABLE apart  \* the second run begins when the first one has closed

TwoInit == Init /\ apart \in BOOLEAN

TwoNext ==
    /\ Next
    /\ UNCHANGED apart
    /\ IF apart THEN Cardinality(open') <= 1 ELSE left'["dup"] = left["dup"]

TwoSpec == TwoInit /\ [][TwoNext]_<<vars, apart>>

(***************************************************************************)
(* NobodyLeftArmed of runs that are apart: the teardown of each has        *)
(* released the agents, however its broadcasts were doubled.  Of two that  *)
(* are open at once, the one may take the session in which the other would *)
(* have published its teardown.                                            *)
(***************************************************************************)
NobodyLeftArmedApart == apart => NobodyLeftArmed

=============================================================================
