------------------------------ MODULE AtfAgent ------------------------------
(***************************************************************************)
(* The agent that runs on a test station (agent/atf_agent/main.py).  Three *)
(* kinds of threads share its attributes without a lock: the main thread   *)
(* boots and then sends heartbeats, the MQTT thread handles one broadcast  *)
(* at a time, and every accepted start_at spawns a worker thread that      *)
(* sleeps until the start time, runs iperf3 and reports.                   *)
(***************************************************************************)
EXTENDS AtfNet

VARIABLES
    state,    \* state[a]: ATFAgent._state, what the agent says it is doing
    runId,    \* runId[a]: ATFAgent._current_run_id
    cfg,      \* cfg[a]: the run whose prepare set _traffic_config, or None
    booting,  \* booting[a]: the main thread has not left _wait_for_ntp yet
    arming,   \* arming[a]: the run _handle_prepare is busy with, or None
    worker,   \* worker[a][t]: the worker threads (_run_iperf3_thread)
    measured  \* history: <<r, a>> when iperf3 measured a on behalf of r

agentVars == <<state, runId, cfg, booting, arming, worker, measured>>

States == {"BOOT", "IDLE", "PREPARING", "ARMED", "RUNNING", "REPORTING", "OFFLINE"}

(***************************************************************************)
(* Where a worker is: in sleep_until, past it, inside run() as a client or *)
(* run_server(), unable to run iperf3, past the publish of its result,     *)
(* past the reset of run id and traffic configuration.                     *)
(***************************************************************************)
ThreadSteps ==
    {"sleeping", "awake", "client", "server", "refused", "reported", "released"}
NoWorker == [pc |-> "none", run |-> NoRun, cfg |-> NoRun]
Worker == {NoWorker} \cup [pc : ThreadSteps, run : Runs, cfg : RunOrNone]

AgentTypeOK ==
    /\ state \in [Agents -> States]
    /\ runId \in [Agents -> RunOrNone]
    /\ cfg \in [Agents -> RunOrNone]
    /\ booting \in [Agents -> BOOLEAN]
    /\ arming \in [Agents -> RunOrNone]
    /\ worker \in [Agents -> [Threads -> Worker]]
    /\ measured \subseteq Runs \X Agents

AgentInit ==
    /\ state = [a \in Agents |-> "BOOT"]
    /\ runId = [a \in Agents |-> NoRun]
    /\ cfg = [a \in Agents |-> NoRun]
    /\ booting = [a \in Agents |-> TRUE]
    /\ arming = [a \in Agents |-> NoRun]
    /\ worker = [a \in Agents |-> [t \in Threads |-> NoWorker]]
    /\ measured = {}

SetState(a, s) == state' = [state EXCEPT ![a] = s]

(***************************************************************************)
(* The MQTT thread takes the next broadcast, once it is done with the one  *)
(* before.                                                                 *)
(***************************************************************************)
Takes(a, c, r) ==
    /\ arming[a] = NoRun
    /\ inbox[a] # << >>
    /\ Head(inbox[a]) = [cmd |-> c, run |-> r]
    /\ inbox' = [inbox EXCEPT ![a] = Tail(@)]
    /\ UNCHANGED <<online, session, outbox, bound, socket, left>>

(***************************************************************************)
(* _handle_prepare, up to the assignment of _traffic_config.  A station    *)
(* that is not IDLE, or is not in the scenario, does not answer.           *)
(***************************************************************************)
HandlePrepare(a, r) ==
    /\ Takes(a, "prepare", r)
    /\ \/ /\ state[a] = "IDLE" /\ a \in Expected[r]
          /\ SetState(a, "PREPARING")
          /\ runId' = [runId EXCEPT ![a] = r]
          /\ cfg' = [cfg EXCEPT ![a] = r]
          /\ arming' = [arming EXCEPT ![a] = r]
       \/ /\ state[a] # "IDLE" \/ a \notin Expected[r]
          /\ UNCHANGED <<state, runId, cfg, arming>>
    /\ UNCHANGED <<booting, worker, measured, reports>>

(***************************************************************************)
(* The rest of _handle_prepare: acknowledge, with the IP if the platform   *)
(* adapter knows it, and arm.  Nothing looks at the state again.           *)
(***************************************************************************)
FinishPrepare(a) ==
    /\ arming[a] # NoRun
    /\ \E ip \in {"ip", "noip"} :
          Send([kind |-> "ack", agent |-> a, run |-> arming[a], body |-> ip])
    /\ SetState(a, "ARMED")
    /\ arming' = [arming EXCEPT ![a] = NoRun]
    /\ UNCHANGED <<runId, cfg, booting, worker, measured>>
    /\ UNCHANGED <<inbox, online, session, outbox, bound, socket, left>>

(***************************************************************************)
(* _handle_start_at: an ARMED agent starts a thread and stays ARMED.  The  *)
(* run id of the message is not compared with anything.                    *)
(***************************************************************************)
IsFreeSlot(a, t) ==
    /\ worker[a][t].pc = "none"
    /\ \A u \in Threads : u < t => worker[a][u].pc # "none"

\* Mutant: the thread is started whatever the state.
HandleStartAtAnyState(a, r) ==
    /\ Takes(a, "start_at", r)
    /\ \E t \in Threads :
          /\ IsFreeSlot(a, t)
          /\ worker' = [worker EXCEPT ![a][t] = [pc |-> "sleeping", run |-> r, cfg |-> NoRun]]
    /\ UNCHANGED <<state, runId, cfg, booting, arming, measured, reports>>

HandleStartAt(a, r) ==
    /\ Takes(a, "start_at", r)
    /\ \/ /\ state[a] = "ARMED"
          /\ \E t \in Threads :
                /\ IsFreeSlot(a, t)
                /\ worker' = [worker EXCEPT ![a][t] =
                      [pc |-> "sleeping", run |-> r, cfg |-> NoRun]]
       \/ state[a] # "ARMED" /\ UNCHANGED worker
    /\ UNCHANGED <<state, runId, cfg, booting, arming, measured, reports>>

(***************************************************************************)
(* _handle_stop: only ARMED agents react.                                  *)
(***************************************************************************)
HandleStop(a, r) ==
    /\ Takes(a, "stop", r)
    /\ \/ state[a] = "ARMED" /\ SetState(a, "IDLE")
       \/ state[a] # "ARMED" /\ UNCHANGED state
    /\ UNCHANGED <<runId, cfg, booting, arming, worker, measured, reports>>

(***************************************************************************)
(* teardown: IDLE, whatever the state and whatever the run.                *)
(***************************************************************************)
HandleTeardown(a, r) ==
    /\ Takes(a, "teardown", r)
    /\ SetState(a, "IDLE")
    /\ UNCHANGED <<runId, cfg, booting, arming, worker, measured, reports>>

\* Mutant: RUNNING is never said.
WakeUpSilently(a, t) ==
    /\ worker[a][t].pc = "sleeping"
    /\ worker' = [worker EXCEPT ![a][t].pc = "awake"]
    /\ UNCHANGED <<state, runId, cfg, booting, arming, measured>>
    /\ UNCHANGED netVars

(***************************************************************************)
(* A worker returns from sleep_until and says RUNNING.                     *)
(***************************************************************************)
WakeUp(a, t) ==
    /\ worker[a][t].pc = "sleeping"
    /\ worker' = [worker EXCEPT ![a][t].pc = "awake"]
    /\ SetState(a, "RUNNING")
    /\ UNCHANGED <<runId, cfg, booting, arming, measured>>
    /\ UNCHANGED netVars

(***************************************************************************)
(* It reads _traffic_config only now, and starts iperf3 with it: a client  *)
(* of the controller's server, or for downlink a one-off server.  Without  *)
(* a configuration it is a client of localhost, where nothing listens; a   *)
(* server whose port is taken exits at once.                               *)
(***************************************************************************)
CanListen(c, a) ==
    c \in Runs /\ a \in Downlink[c] /\ socket[a][Port[c][a]] = "closed"

CanCall(c, a) ==
    c \in Runs /\ a \notin Downlink[c] /\ Port[c][a] \in AllBound

StartTraffic(a, t) ==
    LET c == cfg[a]
        Goes(pc) == worker' = [worker EXCEPT ![a][t] = [pc |-> pc, run |-> @.run, cfg |-> c]]
    IN
    /\ worker[a][t].pc = "awake"
    /\ \/ /\ CanListen(c, a)
          /\ socket' = [socket EXCEPT ![a][Port[c][a]] = "listening"]
          /\ Goes("server")
       \/ /\ CanCall(c, a)
          /\ Goes("client") /\ UNCHANGED socket
       \/ /\ ~CanListen(c, a) /\ ~CanCall(c, a)
          /\ Goes("refused") /\ UNCHANGED socket
    /\ UNCHANGED <<state, runId, cfg, booting, arming, measured>>
    /\ UNCHANGED <<inbox, online, reports, session, outbox, bound, left>>

(***************************************************************************)
(* iperf3 ends and the result is published: "complete" if there were       *)
(* samples and no error.  A client needs its server to the end; a one-off  *)
(* server ends only after a client came.  REPORTING is skipped when run()  *)
(* or run_server() raises.                                                 *)
(***************************************************************************)
CanEnd(a, t) ==
    LET w == worker[a][t] IN
    \/ w.pc \in {"client", "refused"}
    \/ w.pc = "server" /\ socket[a][Port[w.cfg][a]] = "connected"

CanComplete(a, t) ==
    LET w == worker[a][t] IN
    w.pc = "server" \/ (w.pc = "client" /\ Port[w.cfg][a] \in AllBound)

Finish(a, t, status) ==
    LET w == worker[a][t] IN
    /\ CanEnd(a, t)
    /\ \/ /\ status = "complete" /\ CanComplete(a, t)
          /\ SetState(a, "REPORTING")
          /\ measured' = measured \cup {<<w.run, a>>}
       \/ /\ status = "error"
          /\ SetState(a, "REPORTING") \/ UNCHANGED state
          /\ UNCHANGED measured
    /\ Send([kind |-> "result", agent |-> a, run |-> w.run, body |-> status])
    /\ worker' = [worker EXCEPT ![a][t].pc = "reported"]
    /\ socket' = IF w.pc = "server" THEN [socket EXCEPT ![a][Port[w.cfg][a]] = "closed"]
                                    ELSE socket
    /\ UNCHANGED <<runId, cfg, booting, arming>>
    /\ UNCHANGED <<inbox, online, session, outbox, bound, left>>

(***************************************************************************)
(* Then it clears the run id and the configuration, whoever set them ...   *)
(***************************************************************************)
Release(a, t) ==
    /\ worker[a][t].pc = "reported"
    /\ runId' = [runId EXCEPT ![a] = NoRun]
    /\ cfg' = [cfg EXCEPT ![a] = NoRun]
    /\ worker' = [worker EXCEPT ![a][t].pc = "released"]
    /\ UNCHANGED <<state, booting, arming, measured>>
    /\ UNCHANGED netVars

\* Mutant: the thread ends without saying IDLE.
EndSilently(a, t) ==
    /\ worker[a][t].pc = "released"
    /\ worker' = [worker EXCEPT ![a][t] = NoWorker]
    /\ UNCHANGED <<state, runId, cfg, booting, arming, measured>>
    /\ UNCHANGED netVars

(***************************************************************************)
(* ... and says IDLE, whatever the agent is doing by now.                  *)
(***************************************************************************)
GoIdle(a, t) ==
    /\ worker[a][t].pc = "released"
    /\ SetState(a, "IDLE")
    /\ worker' = [worker EXCEPT ![a][t] = NoWorker]
    /\ UNCHANGED <<runId, cfg, booting, arming, measured>>
    /\ UNCHANGED netVars

(***************************************************************************)
(* The main thread leaves _wait_for_ntp, synchronized or not, and says     *)
(* IDLE without looking at what broadcasts did to the state meanwhile.     *)
(***************************************************************************)
BootDone(a) ==
    /\ booting[a]
    /\ booting' = [booting EXCEPT ![a] = FALSE]
    /\ SetState(a, "IDLE")
    /\ UNCHANGED <<runId, cfg, arming, worker, measured>>
    /\ UNCHANGED netVars

(***************************************************************************)
(* The agent process ends, by stop() or a crash (the LWT says OFFLINE      *)
(* then): threads, attributes, sockets and undelivered broadcasts are gone *)
(* and so are the reports that were still queued in its client.            *)
(***************************************************************************)
Crash(a) ==
    /\ state[a] # "OFFLINE"
    /\ Spend("crash")
    /\ SetState(a, "OFFLINE")
    /\ runId' = [runId EXCEPT ![a] = NoRun]
    /\ cfg' = [cfg EXCEPT ![a] = NoRun]
    /\ booting' = [booting EXCEPT ![a] = FALSE]
    /\ arming' = [arming EXCEPT ![a] = NoRun]
    /\ worker' = [worker EXCEPT ![a] = [t \in Threads |-> NoWorker]]
    /\ socket' = [socket EXCEPT ![a] = [p \in Ports |-> "closed"]]
    /\ online' = online \ {a}
    /\ inbox' = [inbox EXCEPT ![a] = << >>]
    /\ \E lost \in SUBSET {m \in reports : m.agent = a} : reports' = reports \ lost
    /\ UNCHANGED <<measured, session, outbox, bound>>

(***************************************************************************)
(* systemd or launchd starts it again; it connects and says BOOT.          *)
(***************************************************************************)
Restart(a) ==
    /\ state[a] = "OFFLINE"
    /\ online' = online \cup {a}
    /\ SetState(a, "BOOT")
    /\ booting' = [booting EXCEPT ![a] = TRUE]
    /\ UNCHANGED <<runId, cfg, arming, worker, measured>>
    /\ UNCHANGED <<inbox, reports, session, outbox, bound, socket, left>>

(***************************************************************************)
(* What the MQTT thread and the workers do.                                *)
(***************************************************************************)
MqttThread(a) ==
    \/ \E r \in Runs :
          HandlePrepare(a, r) \/ HandleStartAt(a, r) \/ HandleStop(a, r) \/ HandleTeardown(a, r)
    \/ FinishPrepare(a)

WorkerThread(a, t) ==
    \/ WakeUp(a, t)
    \/ StartTraffic(a, t)
    \/ \E status \in Statuses : Finish(a, t, status)
    \/ Release(a, t)
    \/ GoIdle(a, t)

Network(a) ==
    \/ LinkLost(a) /\ state[a] # "OFFLINE" /\ UNCHANGED agentVars
    \/ Reconnect(a) /\ state[a] # "OFFLINE" /\ UNCHANGED agentVars

AgentStep(a) ==
    \/ MqttThread(a)
    \/ \E t \in Threads : WorkerThread(a, t)
    \/ BootDone(a)
    \/ Crash(a)
    \/ Restart(a)
    \/ Network(a)

=============================================================================
