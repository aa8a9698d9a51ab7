--------------------------- MODULE MCOfflineGuard ---------------------------
(***************************************************************************)
(* A small instance of OfflineGuard.  All mishaps in one behaviour are too *)
(* many for TLC, so a behaviour belongs to a scene, which says which kinds *)
(* of them it has.                                                         *)
(***************************************************************************)
EXTENDS OfflineGuard

VARIABLE scene

MCMishaps == [k \in MishapKinds |-> 1]

Scenes == {"board", "patient", "rejoin", "outage"}

Kinds(sc) ==
    CASE sc = "board" -> MishapKinds \ {"break"}
      [] sc = "patient" -> {"lag", "link"}
      [] sc = "rejoin" -> {"die", "restart", "break"}
      [] sc = "outage" -> {"die", "outage"}

(***************************************************************************)
(* The board without its page.                                             *)
(***************************************************************************)
BoardNext ==
    \/ \E a \in Agents : AgentStep(a)
    \/ Receive \/ RestartInspector \/ LoseInspector \/ ReconnectInspector \/ Tick

SceneInit == Init /\ scene \in Scenes

SceneNext ==
    /\ IF scene = "board" THEN BoardNext /\ UNCHANGED pageVars ELSE Next
    /\ UNCHANGED scene
    /\ \A k \in MishapKinds \ Kinds(scene) : left'[k] = left[k]
    /\ scene \in {"rejoin", "outage"} => \A a \in Agents : ~ChangeState(a)

SceneSpec == SceneInit /\ [][SceneNext]_<<vars, scene>>

=============================================================================
