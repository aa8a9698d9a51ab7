--------------------------- MODULE MeasurementRun ---------------------------
(***************************************************************************)
(* What a run promises its operator, with no agents' states, no messages   *)
(* and no threads: a run is launched once everybody answered, stations     *)
(* measure only on behalf of a launched run, and the verdict, once given,  *)
(* stands; it is "ok" only when every expected station has measured.       *)
(***************************************************************************)
CONSTANTS Agents, Runs, Expected

VARIABLES
    launched,  \* the runs that were started
    measured,  \* <<r, a>>: station a measured on behalf of run r
    verdict    \* verdict[r]: "pending", "ok" or "failed"

vars == <<launched, measured, verdict>>

Init ==
    /\ launched = {}
    /\ measured = {}
    /\ verdict = [r \in Runs |-> "pending"]

Launch(r) ==
    /\ verdict[r] = "pending"
    /\ r \notin launched
    /\ launched' = launched \cup {r}
    /\ UNCHANGED <<measured, verdict>>

Measure(r, a) ==
    /\ r \in launched
    /\ measured' = measured \cup {<<r, a>>}
    /\ UNCHANGED <<launched, verdict>>

DeclareOk(r) ==
    /\ verdict[r] = "pending"
    /\ r \in launched
    /\ \A a \in Expected[r] : <<r, a>> \in measured
    /\ verdict' = [verdict EXCEPT ![r] = "ok"]
    /\ UNCHANGED <<launched, measured>>

DeclareFailed(r) ==
    /\ verdict[r] = "pending"
    /\ verdict' = [verdict EXCEPT ![r] = "failed"]
    /\ UNCHANGED <<launched, measured>>

Next ==
    \E r \in Runs :
        \/ Launch(r) \/ DeclareOk(r) \/ DeclareFailed(r)
        \/ \E a \in Agents : Measure(r, a)

Spec == Init /\ [][Next]_vars

=============================================================================
