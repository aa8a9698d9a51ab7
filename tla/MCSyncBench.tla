---------------------------- MODULE MCSyncBench -----------------------------
(***************************************************************************)
(* Small instances of SyncBench.  A configuration names the stations and   *)
(* the runs, the stations that receive rather than send in every run, the  *)
(* runs in which all of them receive, and how many faults of each kind     *)
(* there are.                                                              *)
(***************************************************************************)
EXTENDS SyncBench

CONSTANTS DownAgents, DownRuns, PortOf2,
          Dup, Link, Crashes, Interrupts, Spawn

MCExpected == [r \in Runs |-> Agents]
MCDownlink == [r \in Runs |-> IF r \in DownRuns THEN Agents ELSE DownAgents]
MCPort == [r \in Runs |-> [a \in Agents |-> IF a \in PortOf2 THEN 2 ELSE 1]]
MCFaults == [k \in FaultKinds |->
    CASE k = "dup" -> Dup [] k = "link" -> Link [] k = "crash" -> Crashes
      [] k = "interrupt" -> Interrupts [] k = "spawn" -> Spawn]

=============================================================================
