---------------------------- MODULE Orchestrator ----------------------------
(***************************************************************************)
(* The orchestrators (controller/atf_ctrl/orchestrator.py): one instance   *)
(* per run, opened by atf-run or by POST /api/run, all of them with the    *)
(* MQTT client id "atf-controller".  A run goes through its phases once;   *)
(* the sleeps between the phases and the two timeouts are steps that may   *)
(* happen whenever their phase is on.                                      *)
(***************************************************************************)
EXTENDS AtfNet

VARIABLES
    phase,    \* phase[r]: where Orchestrator.run is
    open,     \* the runs whose bus is connected or reconnecting
    acks,     \* acks[r]: the agents whose Event in _acks is set
    ips,      \* ips[r]: the downlink stations with an entry in _agent_ips
    results,  \* results[r][a]: the status in _results, or "none"
    started,  \* history: the runs whose start_at was published
    procs     \* procs[r]: the ports of the servers in _iperf3_procs

ctrlVars == <<phase, open, acks, ips, results, started, procs>>

(***************************************************************************)
(* "failed" is a run that returned with result.error, "done" one that went *)
(* through, "aborted" one that ended with an exception.                    *)
(***************************************************************************)
Ended == {"done", "failed", "aborted"}
UnderWay == {"preparing", "armed", "running", "collecting"}
Phases == {"new", "connected"} \cup UnderWay \cup Ended

CtrlTypeOK ==
    /\ phase \in [Runs -> Phases]
    /\ open \subseteq Runs
    /\ acks \in [Runs -> SUBSET Agents]
    /\ ips \in [Runs -> SUBSET Agents]
    /\ results \in [Runs -> [Agents -> Statuses \cup {"none"}]]
    /\ started \subseteq Runs
    /\ procs \in [Runs -> SUBSET Ports]

CtrlInit ==
    /\ phase = [r \in Runs |-> "new"]
    /\ open = {}
    /\ acks = [r \in Runs |-> {}]
    /\ ips = [r \in Runs |-> {}]
    /\ results = [r \in Runs |-> [a \in Agents |-> "none"]]
    /\ started = {}
    /\ procs = [r \in Runs |-> {}]

SetPhase(r, p) == phase' = [phase EXCEPT ![r] = p]

(***************************************************************************)
(* Orchestrator() connects, and run() makes the ack events and subscribes. *)
(* Nothing in the code keeps a second one from opening: MaxActive says     *)
(* what the operators do.                                                  *)
(***************************************************************************)
Connect(r) ==
    /\ phase[r] = "new"
    /\ Cardinality(open) < MaxActive
    /\ SetPhase(r, "connected")
    /\ open' = open \cup {r}
    /\ TakeSession(r)
    /\ UNCHANGED <<acks, ips, results, started, procs>>

(***************************************************************************)
(* _start_iperf3_servers: one server per port of a station that sends, in  *)
(* the order of the ports.  A server whose port another one has exits, and *)
(* nobody looks.                                                           *)
(***************************************************************************)
UplinkPorts(r) == {Port[r][a] : a \in Expected[r] \ Downlink[r]}

StartServer(r) ==
    /\ phase[r] = "connected"
    /\ \E p \in UplinkPorts(r) \ procs[r] :
          /\ \A q \in UplinkPorts(r) \ procs[r] : p <= q
          /\ procs' = [procs EXCEPT ![r] = @ \cup {p}]
          /\ bound' = [bound EXCEPT ![r] = @ \cup ({p} \ AllBound)]
    /\ UNCHANGED <<phase, open, acks, ips, results, started>>
    /\ UNCHANGED <<inbox, online, reports, session, outbox, socket, left>>

(***************************************************************************)
(* run() raises before its try block: no iperf3 is found, or a server does *)
(* not start.  The servers it has started so far are nobody's.             *)
(***************************************************************************)
SpawnFails(r) ==
    /\ phase[r] = "connected"
    /\ procs[r] = {} \/ ~(UplinkPorts(r) \subseteq procs[r])
    /\ Spend("spawn")
    /\ SetPhase(r, "aborted")
    /\ procs' = [procs EXCEPT ![r] = {}]
    /\ UNCHANGED <<open, acks, ips, results, started>>
    /\ UNCHANGED <<inbox, online, reports, session, outbox, bound, socket>>

(***************************************************************************)
(* Into the try block: prepare.                                            *)
(***************************************************************************)
Begin(r) ==
    /\ phase[r] = "connected"
    /\ UplinkPorts(r) \subseteq procs[r]
    /\ SetPhase(r, "preparing")
    /\ Publish(r, "prepare")
    /\ UNCHANGED <<open, acks, ips, results, started, procs>>
    /\ UNCHANGED <<online, reports, session, bound, socket>>

\* Mutant: one ack too few is enough.
StartRunEarly(r) ==
    /\ phase[r] = "preparing"
    /\ Cardinality(acks[r]) + 1 >= Cardinality(Expected[r])
    /\ SetPhase(r, "armed")
    /\ started' = started \cup {r}
    /\ Publish(r, "start_at")
    /\ UNCHANGED <<open, acks, ips, results, procs, online, reports, session, bound, socket>>

(***************************************************************************)
(* _wait_for_acks saw every event set: start_at.                           *)
(***************************************************************************)
StartRun(r) ==
    /\ phase[r] = "preparing"
    /\ Expected[r] \subseteq acks[r]
    /\ SetPhase(r, "armed")
    /\ started' = started \cup {r}
    /\ Publish(r, "start_at")
    /\ UNCHANGED <<open, acks, ips, results, procs, online, reports, session, bound, socket>>

\* Mutants: no teardown after a timeout; no timeout at all.
AckTimeoutQuiet(r) ==
    /\ phase[r] = "preparing"
    /\ ~(Expected[r] \subseteq acks[r])
    /\ SetPhase(r, "failed")
    /\ UNCHANGED <<inbox, outbox, left>>
    /\ UNCHANGED <<open, acks, ips, results, started, procs>>
    /\ UNCHANGED <<online, reports, session, bound, socket>>

AckTimeoutNever(r) == FALSE /\ phase[r] = "preparing"

(***************************************************************************)
(* It gave up: an ack is missing, or the last one came so late that the    *)
(* deadline had passed when the wait for the next agent began.             *)
(***************************************************************************)
AckTimeout(r) ==
    /\ phase[r] = "preparing"
    /\ \/ ~(Expected[r] \subseteq acks[r])
       \/ Cardinality(Expected[r]) > 1
    /\ SetPhase(r, "failed")
    /\ Publish(r, "teardown")
    /\ UNCHANGED <<open, acks, ips, results, started, procs>>
    /\ UNCHANGED <<online, reports, session, bound, socket>>

(***************************************************************************)
(* After the grace period, _start_iperf3_downlink_clients: a client per    *)
(* downlink station whose IP is known.  It connects if the station listens *)
(* and exits otherwise; nobody looks.                                      *)
(***************************************************************************)
Dialled(r, a, p) == a \in Expected[r] \cap Downlink[r] \cap ips[r] /\ p = Port[r][a]

StartDownlinkClients(r) ==
    /\ phase[r] = "armed"
    /\ SetPhase(r, "running")
    /\ socket' = [a \in Agents |-> [p \in Ports |->
          IF Dialled(r, a, p) /\ socket[a][p] = "listening" THEN "connected" ELSE socket[a][p]]]
    /\ UNCHANGED <<open, acks, ips, results, started, procs>>
    /\ UNCHANGED <<inbox, online, reports, session, outbox, bound, left>>

(***************************************************************************)
(* The test time has passed: stop.                                         *)
(***************************************************************************)
StopRun(r) ==
    /\ phase[r] = "running"
    /\ SetPhase(r, "collecting")
    /\ Publish(r, "stop")
    /\ UNCHANGED <<open, acks, ips, results, started, procs>>
    /\ UNCHANGED <<online, reports, session, bound, socket>>

(***************************************************************************)
(* _collect_results returned, with every result there or after its         *)
(* timeout, when a missing one counts as "timeout".  Teardown.             *)
(***************************************************************************)
Conclude(r) ==
    /\ phase[r] = "collecting"
    /\ SetPhase(r, "done")
    /\ Publish(r, "teardown")
    /\ UNCHANGED <<open, acks, ips, results, started, procs>>
    /\ UNCHANGED <<online, reports, session, bound, socket>>

(***************************************************************************)
(* RunResult.ok                                                            *)
(***************************************************************************)
Ok(r) == phase[r] = "done" /\ \A a \in Expected[r] : results[r][a] = "complete"

(***************************************************************************)
(* An exception or a Ctrl-C ends a run; no teardown is sent.  Inside the   *)
(* try block the servers are still stopped.  They stay when the interrupt  *)
(* comes before that block or while they are being stopped, and when the   *)
(* process is killed (of atf-web, the run's thread is a daemon).           *)
(***************************************************************************)
Interrupt(r) ==
    /\ Spend("interrupt")
    /\ \/ phase[r] \in UnderWay /\ UNCHANGED procs
       \/ r \in open /\ procs' = [procs EXCEPT ![r] = {}]
    /\ phase' = [phase EXCEPT ![r] = IF @ \in Ended THEN @ ELSE "aborted"]
    /\ UNCHANGED <<open, acks, ips, results, started>>
    /\ UNCHANGED <<inbox, online, reports, session, outbox, bound, socket>>

(***************************************************************************)
(* The finally of run(), _stop_iperf3_servers: one after the other.        *)
(***************************************************************************)
StopServer(r) ==
    /\ phase[r] \in Ended
    /\ \E p \in procs[r] :
          /\ \A q \in procs[r] : p <= q
          /\ procs' = [procs EXCEPT ![r] = @ \ {p}]
          /\ bound' = [bound EXCEPT ![r] = @ \ {p}]
    /\ UNCHANGED <<phase, open, acks, ips, results, started>>
    /\ UNCHANGED <<inbox, online, reports, session, outbox, socket, left>>

(***************************************************************************)
(* Then the finally of the caller, Orchestrator.stop().                    *)
(***************************************************************************)
Close(r) ==
    /\ r \in open
    /\ phase[r] \in Ended
    /\ procs[r] = {}
    /\ open' = open \ {r}
    /\ DropSession(r)
    /\ UNCHANGED <<phase, acks, ips, results, started, procs>>
    /\ UNCHANGED <<inbox, online, reports, bound, socket, left>>

(***************************************************************************)
(* A bus that lost its session reconnects.                                 *)
(***************************************************************************)
Resume(r) ==
    /\ r \in open
    /\ TakeSession(r)
    /\ UNCHANGED ctrlVars

(***************************************************************************)
(* _on_ack: an ack counts for the run that hears it, whichever run it      *)
(* answers.                                                                *)
(***************************************************************************)
OnAck(q, m) ==
    /\ m.kind = "ack"
    /\ acks' = [acks EXCEPT ![q] = @ \cup ({m.agent} \cap Expected[q])]
    /\ ips' = IF m.body = "ip"
              THEN [ips EXCEPT ![q] = @ \cup ({m.agent} \cap Expected[q] \cap Downlink[q])]
              ELSE ips
    /\ UNCHANGED results

\* Mutants: the run id is ignored; results come in after the end.
OnResultAnyRun(q, m) ==
    /\ m.kind = "result"
    /\ results' = IF phase[q] \notin Ended THEN [results EXCEPT ![q][m.agent] = m.body]
                                            ELSE results
    /\ UNCHANGED <<acks, ips>>

OnResultLate(q, m) ==
    /\ m.kind = "result"
    /\ results' = IF m.run = q THEN [results EXCEPT ![q][m.agent] = m.body] ELSE results
    /\ UNCHANGED <<acks, ips>>

(***************************************************************************)
(* _on_result: the run id of the topic has to match; the last result wins, *)
(* until _collect_results has copied them.                                 *)
(***************************************************************************)
OnResult(q, m) ==
    /\ m.kind = "result"
    /\ results' = IF m.run = q /\ phase[q] \notin Ended
                  THEN [results EXCEPT ![q][m.agent] = m.body]
                  ELSE results
    /\ UNCHANGED <<acks, ips>>

(***************************************************************************)
(* The broker hands a report to whoever holds the session; without one it  *)
(* is lost.  A PUBACK lost on the agent's side makes it come again.        *)
(***************************************************************************)
Deliver(m) ==
    /\ m \in reports
    /\ m.agent \in online
    /\ \/ reports' = reports \ {m} /\ UNCHANGED left
       \/ Spend("dup") /\ UNCHANGED reports
    /\ \/ session = NoRun /\ UNCHANGED <<acks, ips, results>>
       \/ session # NoRun /\ (OnAck(session, m) \/ OnResult(session, m))
    /\ UNCHANGED <<phase, open, started, procs, inbox, online, session, outbox, bound, socket>>

(***************************************************************************)
(* _on_agent_heartbeat: the IP of a station that knows it.                 *)
(***************************************************************************)
OnAgentHeartbeat(a) ==
    /\ ips' = IF session = NoRun \/ a \notin online THEN ips
              ELSE [ips EXCEPT ![session] = @ \cup ({a} \cap Downlink[session])]
    /\ UNCHANGED <<phase, open, acks, results, started, procs>>
    /\ UNCHANGED netVars

RunStep(r) ==
    \/ StartServer(r)
    \/ Begin(r)
    \/ StartRun(r)
    \/ AckTimeout(r)
    \/ StartDownlinkClients(r)
    \/ StopRun(r)
    \/ Conclude(r)
    \/ StopServer(r)
    \/ Close(r)

ControllerStep(r) ==
    \/ Connect(r)
    \/ RunStep(r)
    \/ Resume(r)
    \/ SpawnFails(r)
    \/ Interrupt(r)

Broker ==
    \/ \E m \in reports : Deliver(m)
    \/ ControllerLinkLost /\ UNCHANGED ctrlVars

=============================================================================
