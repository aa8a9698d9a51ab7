------------------------------- MODULE MCPage -------------------------------
(***************************************************************************)
(* Small instances of what the page shows: the list of agents over the     *)
(* events stream, or the chart of its runs.  The two share nothing; a      *)
(* behaviour is one of either.                                             *)
(***************************************************************************)
EXTENDS EventsStream, RunChart

CONSTANTS c1, c2, a1, a2

VARIABLE shown

PageInit == shown \in {"list", "chart"} /\ Init /\ ChartInit

PageNext ==
    \/ shown = "list" /\ Next /\ UNCHANGED <<shown, chartVars>>
    \/ shown = "chart" /\ ChartNext /\ UNCHANGED <<shown, vars>>
    \* Nobody starts a run beyond the bound.
    \/ run.number = MaxRuns /\ ~Live /\ UNCHANGED <<shown, vars, chartVars>>

PageSpec ==
    /\ PageInit /\ [][PageNext]_<<shown, vars, chartVars>>
    /\ Fairness

PageTypeOK == TypeOK /\ ChartTypeOK

=============================================================================
