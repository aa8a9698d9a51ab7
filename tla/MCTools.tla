------------------------------- MODULE MCTools -------------------------------
(***************************************************************************)
(* Small instances of the parts that stand by themselves: a behaviour is   *)
(* one of a single part, the others stay as they are at the start.         *)
(***************************************************************************)
EXTENDS SyncAgents, ApCollector, MqttBus, PreciseStart, Iperf3Runner, Reporter,
        WifiLink, ScenarioLoader

CONSTANTS n1, n2, n3, m1, m2, t1, t2, t3, s1, s2, a1, a2, a3, stale, Parts

\* Where a station may be, the corners of the three bands.
MCChannels == {<<"2.4G", 1>>, <<"2.4G", 14>>, <<"5G", 36>>, <<"6G", 1>>, <<"6G", 37>>}

\* No other set holds a node or a mac.
Symmetry == Permutations(Nodes) \cup Permutations(Macs)

VARIABLE part

Init ==
    /\ part \in Parts
    /\ SyncInit /\ ApInit /\ BusInit /\ StartInit /\ IperfInit /\ ReportInit
    /\ LinkInit /\ LoaderInit /\ (part # "link" => os = "linux")

\* All variables but those of part p stay.
Only(p) ==
    /\ part = p /\ UNCHANGED part
    /\ p = "sync" \/ UNCHANGED syncVars
    /\ p = "ap" \/ UNCHANGED apVars
    /\ p = "bus" \/ UNCHANGED busVars
    /\ p = "start" \/ UNCHANGED startVars
    /\ p = "iperf" \/ UNCHANGED iperfVars
    /\ p = "report" \/ UNCHANGED reportVars
    /\ p = "link" \/ UNCHANGED linkVars
    /\ p = "loader" \/ UNCHANGED loaded

Next ==
    \/ Only("sync") /\ SyncNext
    \/ Only("ap") /\ ApNext
    \/ Only("bus") /\ BusNext
    \/ Only("start") /\ StartNext
    \/ Only("iperf") /\ IperfNext
    \/ Only("report") /\ ReportNext
    \/ Only("link") /\ LinkNext
    \/ Only("loader") /\ LoaderNext

Spec ==
    Init /\ [][Next]_<<part, syncVars, apVars, busVars, startVars, iperfVars, reportVars,
                      linkVars, loaded>>

=============================================================================
