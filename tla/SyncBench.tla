----------------------------- MODULE SyncBench ------------------------------
(***************************************************************************)
(* The agents, the orchestrators and the network between them, and what    *)
(* must be true of a measurement.                                          *)
(***************************************************************************)
EXTENDS AtfAgent, Orchestrator

vars == <<netVars, agentVars, ctrlVars>>

Init == NetInit /\ AgentInit /\ CtrlInit

(***************************************************************************)
(* The heartbeat loop of the main thread starts after the boot.  What a    *)
(* heartbeat does here is to tell the controller an address.               *)
(***************************************************************************)
Heartbeat(a) ==
    /\ ~booting[a] /\ state[a] # "OFFLINE"
    /\ OnAgentHeartbeat(a)

Next ==
    \/ \E a \in Agents : AgentStep(a) /\ UNCHANGED ctrlVars
    \/ \E a \in Agents : Heartbeat(a) /\ UNCHANGED agentVars
    \/ \E r \in Runs : ControllerStep(r) /\ UNCHANGED agentVars
    \/ Broker /\ UNCHANGED agentVars

Spec == Init /\ [][Next]_vars

(***************************************************************************)
(* The fairness of the scheduling: threads that can run do run, TCP        *)
(* delivers, clients reconnect, iperf3 ends when its time is up, and the   *)
(* service manager restarts an agent that has crashed: launchd always      *)
(* (KeepAlive), systemd on failure.  Crash also stands for a clean stop,   *)
(* which systemd does not undo; what needs the restart then waits for the  *)
(* user.  Faults, new runs and heartbeats need not happen.                 *)
(***************************************************************************)
Fairness ==
    /\ \A a \in Agents :
          /\ WF_vars(MqttThread(a) /\ UNCHANGED ctrlVars)
          /\ \A t \in Threads : WF_vars(WorkerThread(a, t) /\ UNCHANGED ctrlVars)
          /\ WF_vars(BootDone(a) /\ UNCHANGED ctrlVars)
          /\ WF_vars(Restart(a) /\ UNCHANGED ctrlVars)
          /\ WF_vars(Reconnect(a) /\ state[a] # "OFFLINE" /\ UNCHANGED <<agentVars, ctrlVars>>)
    /\ \A r \in Runs :
          /\ WF_vars(RunStep(r) /\ UNCHANGED agentVars)
          /\ WF_vars(Resume(r) /\ UNCHANGED agentVars)
    /\ WF_vars((\E m \in reports : Deliver(m)) /\ UNCHANGED agentVars)

FairSpec == Spec /\ Fairness

-----------------------------------------------------------------------------

Live(a) == {t \in Threads : worker[a][t].pc # "none"}

(***************************************************************************)
(* Every variable has its type.                                            *)
(***************************************************************************)
TypeOK == NetTypeOK /\ AgentTypeOK /\ CtrlTypeOK

(***************************************************************************)
(* A run is not reported ok (RunResult.ok) unless iperf3 really completed  *)
(* on each of its stations on behalf of this very run: no result of a      *)
(* former run, of a failed attempt or of a lost station counts, whatever   *)
(* is duplicated, delayed or lost on the way.                              *)
(***************************************************************************)
VerdictSound ==
    \A r \in Runs : Ok(r) => \A a \in Expected[r] : <<r, a>> \in measured

(***************************************************************************)
(* The barrier of _run_phases: no station has a thread for a run, and none *)
(* has measured for it, unless the acks of all its stations were in.       *)
(***************************************************************************)
Barrier ==
    \A r \in Runs, a \in Agents :
        (\E t \in Live(a) : worker[a][t].run = r) \/ <<r, a>> \in measured
            => Expected[r] \subseteq acks[r]

(***************************************************************************)
(* _handle_prepare: an ARMED agent holds the traffic configuration that    *)
(* came with the prepare it acknowledged.                                  *)
(***************************************************************************)
ArmedHasConfig ==
    \A a \in Agents : state[a] = "ARMED" => cfg[a] # NoRun /\ runId[a] = cfg[a]

(***************************************************************************)
(* _run_iperf3_thread: the configuration that is read after the sleep is   *)
(* still the one of the run the thread was started for, and the thread     *)
(* sends the traffic of no other run.                                      *)
(***************************************************************************)
OwnTraffic ==
    \A a \in Agents, t \in Threads :
        worker[a][t].pc \in {"client", "server", "refused"} => worker[a][t].cfg = worker[a][t].run

(***************************************************************************)
(* When every run is over and its last broadcast has been handled, no      *)
(* agent is left PREPARING or ARMED: it would ignore the next prepare.     *)
(***************************************************************************)
AllOver == open = {} /\ \A r \in Runs : phase[r] \in Ended \cup {"new"}

NobodyLeftArmed ==
    \A a \in Agents :
        AllOver /\ inbox[a] = << >> => state[a] \notin {"PREPARING", "ARMED"}

(***************************************************************************)
(* run, "cleans up on failure": a run that is over, whichever way, has     *)
(* left no iperf3 server behind.                                           *)
(***************************************************************************)
ServersStopped == \A r \in Runs : r \notin open => bound[r] = {}

-----------------------------------------------------------------------------

(***************************************************************************)
(* The inductive strengthening of VerdictSound: a "complete" on its way or *)
(* stored stands for a measurement.                                        *)
(***************************************************************************)
CompleteIsMeasured ==
    /\ \A m \in reports :
          m.kind = "result" /\ m.body = "complete" => <<m.run, m.agent>> \in measured
    /\ \A r \in Runs, a \in Agents :
          results[r][a] = "complete" => <<r, a>> \in measured

(***************************************************************************)
(* The inductive strengthening of Barrier: a start_at under way, the       *)
(* threads it spawned and what they measured belong to started runs, and   *)
(* a run is started with all its acks in.                                  *)
(***************************************************************************)
OnlyStarted(s, runs) == \A i \in DOMAIN s : s[i].cmd = "start_at" => s[i].run \in runs

StartsAreStarted ==
    /\ \A a \in Agents : OnlyStarted(inbox[a], started)
    /\ \A r \in Runs : OnlyStarted(outbox[r], started)
    /\ \A a \in Agents, t \in Threads :
          worker[a][t].pc # "none" => worker[a][t].run \in started
    /\ \A r \in Runs, a \in Agents : <<r, a>> \in measured => r \in started
    /\ \A r \in started : Expected[r] \subseteq acks[r]

IInv == TypeOK /\ CompleteIsMeasured /\ StartsAreStarted

-----------------------------------------------------------------------------

(***************************************************************************)
(* Every run that began gets its end: the orchestrator returns, whatever   *)
(* the agents do, and gives up servers and session.                        *)
(***************************************************************************)
RunsEnd == \A r \in Runs : phase[r] = "connected" ~> (phase[r] \in Ended /\ r \notin open)

(***************************************************************************)
(* Agents come home: they end up IDLE with no thread at work.              *)
(***************************************************************************)
ComeHome == <>[](\A a \in Agents : state[a] = "IDLE" /\ Live(a) = {})

-----------------------------------------------------------------------------

(***************************************************************************)
(* The system implements MeasurementRun.  A run is launched when its       *)
(* start_at is published, and gets its verdict when its phases are over.   *)
(***************************************************************************)

verdictBar ==
    [r \in Runs |-> IF phase[r] \notin Ended THEN "pending"
                    ELSE IF Ok(r) THEN "ok" ELSE "failed"]

Promise == INSTANCE MeasurementRun WITH
    launched <- started, verdict <- verdictBar

ImplementsPromise == Promise!Spec

=============================================================================
