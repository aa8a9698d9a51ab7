-------------------------- MODULE SyncBenchProofs ---------------------------
(***************************************************************************)
(* Theorems about SyncBench for every set of agents and runs, every        *)
(* scenario and every number of faults.                                    *)
(***************************************************************************)
EXTENDS SyncBench, FiniteSetTheorems, SequenceTheorems, TLAPS

(***************************************************************************)
(* Operators of AtfNet keep the types of what they change.                 *)
(***************************************************************************)
LEMMA SpendType ==
    ASSUME left \in [FaultKinds -> Nat], NEW k \in FaultKinds, Spend(k)
    PROVE  left' \in [FaultKinds -> Nat]
BY DEF Spend

LEMMA ForwardType ==
    ASSUME NetTypeOK, NEW ms \in Seq(Command), Forward(ms)
    PROVE  inbox' \in [Agents -> Seq(Command)]
<1>1. ASSUME NEW a \in Agents
      PROVE  (IF a \in online THEN inbox[a] \o ms ELSE inbox[a]) \in Seq(Command)
  <2>1. inbox[a] \in Seq(Command)
    BY DEF NetTypeOK
  <2>2. inbox[a] \o ms \in Seq(Command)
    BY <2>1
  <2> QED BY <2>1, <2>2
<1> QED BY <1>1 DEF Forward

LEMMA PublishType ==
    ASSUME NetTypeOK, NEW r \in Runs, NEW c \in Commands, Publish(r, c)
    PROVE  /\ inbox' \in [Agents -> Seq(Command)]
           /\ outbox' \in [Runs -> Seq(Command)]
           /\ left' \in [FaultKinds -> Nat]
<1> DEFINE m == [cmd |-> c, run |-> r]
<1>1. m \in Command /\ <<m>> \in Seq(Command) /\ <<m, m>> \in Seq(Command)
  BY DEF Command
<1>2. CASE session = r /\ Forward(<<m>>) /\ UNCHANGED <<left, outbox>>
  BY <1>1, <1>2, ForwardType DEF NetTypeOK
<1>3. CASE session = r /\ Forward(<<m, m>>) /\ Spend("dup") /\ UNCHANGED outbox
  BY <1>1, <1>3, ForwardType, SpendType DEF NetTypeOK, FaultKinds
<1>4. CASE outbox' = [outbox EXCEPT ![r] = Append(@, m)] /\ UNCHANGED <<inbox, left>>
  <2>1. outbox[r] \in Seq(Command)
    BY DEF NetTypeOK
  <2>2. Append(outbox[r], m) \in Seq(Command)
    BY <1>1, <2>1
  <2> QED BY <1>4, <2>2 DEF NetTypeOK
<1> QED BY <1>2, <1>3, <1>4 DEF Publish

LEMMA TakeSessionType ==
    ASSUME NetTypeOK, NEW r \in Runs, TakeSession(r)
    PROVE  NetTypeOK'
<1>1. outbox[r] \in Seq(Command)
  BY DEF NetTypeOK
<1>2. Forward(outbox[r])
  BY DEF TakeSession
<1>3. inbox' \in [Agents -> Seq(Command)]
  BY <1>1, <1>2, ForwardType
<1>4. << >> \in Seq(Command)
  OBVIOUS
<1>5. outbox' \in [Runs -> Seq(Command)]
  BY <1>4 DEF TakeSession, NetTypeOK
<1> QED BY <1>3, <1>5 DEF TakeSession, NetTypeOK, RunOrNone

(***************************************************************************)
(* A broadcast taken from the inbox leaves a sequence of broadcasts.       *)
(***************************************************************************)
LEMMA TakesType ==
    ASSUME NetTypeOK, NEW a \in Agents, NEW c, NEW r \in Runs, Takes(a, c, r)
    PROVE  inbox' \in [Agents -> Seq(Command)]
<1>1. inbox[a] \in Seq(Command) /\ inbox[a] # << >>
  BY DEF NetTypeOK, Takes
<1>2. Tail(inbox[a]) \in Seq(Command)
  BY <1>1
<1> QED BY <1>2 DEF Takes, NetTypeOK

(***************************************************************************)
(* Each action keeps the types: first the agent's ...                      *)
(***************************************************************************)
LEMMA MqttThreadType ==
    ASSUME TypeOK, NEW a \in Agents, MqttThread(a)
    PROVE  NetTypeOK' /\ AgentTypeOK'
<1> USE DEF TypeOK
<1>1. ASSUME NEW r \in Runs, HandlePrepare(a, r) PROVE NetTypeOK' /\ AgentTypeOK'
  <2>1. inbox' \in [Agents -> Seq(Command)]
    BY <1>1, TakesType DEF HandlePrepare
  <2>2. NetTypeOK'
    BY <1>1, <2>1 DEF HandlePrepare, Takes, NetTypeOK
  <2>3. state' \in [Agents -> States]
    BY <1>1 DEF HandlePrepare, AgentTypeOK, SetState, States
  <2>4. runId' \in [Agents -> RunOrNone] /\ cfg' \in [Agents -> RunOrNone]
    <3>1. runId' \in [Agents -> RunOrNone]
      BY <1>1 DEF HandlePrepare, AgentTypeOK, RunOrNone
    <3>2. cfg' \in [Agents -> RunOrNone]
      BY <1>1 DEF HandlePrepare, AgentTypeOK, RunOrNone
    <3> QED BY <3>1, <3>2
  <2>5. arming' \in [Agents -> RunOrNone]
    BY <1>1 DEF HandlePrepare, AgentTypeOK, RunOrNone
  <2> QED BY <1>1, <2>2, <2>3, <2>4, <2>5 DEF HandlePrepare, AgentTypeOK
<1>2. ASSUME NEW r \in Runs, HandleStartAt(a, r) PROVE NetTypeOK' /\ AgentTypeOK'
  <2>1. inbox' \in [Agents -> Seq(Command)]
    BY <1>2, TakesType DEF HandleStartAt
  <2>2. NetTypeOK'
    BY <1>2, <2>1 DEF HandleStartAt, Takes, NetTypeOK
  <2>3. worker' \in [Agents -> [Threads -> Worker]]
    <3>1. [pc |-> "sleeping", run |-> r, cfg |-> NoRun] \in Worker
      BY DEF Worker, ThreadSteps, RunOrNone
    <3>2. ASSUME NEW t \in Threads,
                 worker' = [worker EXCEPT ![a][t] =
                     [pc |-> "sleeping", run |-> r, cfg |-> NoRun]]
          PROVE  worker' \in [Agents -> [Threads -> Worker]]
      BY <3>1, <3>2 DEF AgentTypeOK
    <3>3. CASE UNCHANGED worker
      BY <3>3 DEF AgentTypeOK
    <3> QED BY <1>2, <3>2, <3>3 DEF HandleStartAt
  <2>4. AgentTypeOK'
    BY <1>2, <2>3 DEF HandleStartAt, AgentTypeOK
  <2> QED BY <2>2, <2>4
<1>3. ASSUME NEW r \in Runs, HandleStop(a, r) PROVE NetTypeOK' /\ AgentTypeOK'
  <2>1. inbox' \in [Agents -> Seq(Command)]
    BY <1>3, TakesType DEF HandleStop
  <2> QED BY <1>3, <2>1 DEF HandleStop, Takes, NetTypeOK, AgentTypeOK, SetState, States
<1>4. ASSUME NEW r \in Runs, HandleTeardown(a, r) PROVE NetTypeOK' /\ AgentTypeOK'
  <2>1. inbox' \in [Agents -> Seq(Command)]
    BY <1>4, TakesType DEF HandleTeardown
  <2> QED BY <1>4, <2>1 DEF HandleTeardown, Takes, NetTypeOK, AgentTypeOK, SetState, States
<1>5. CASE FinishPrepare(a)
  <2>1. arming[a] \in Runs
    BY <1>5 DEF FinishPrepare, AgentTypeOK, RunOrNone
  <2>2. reports' \subseteq Report
    BY <1>5, <2>1 DEF FinishPrepare, Send, Report, NetTypeOK
  <2>3. NetTypeOK'
    BY <1>5, <2>2 DEF FinishPrepare, NetTypeOK
  <2>4. AgentTypeOK'
    BY <1>5 DEF FinishPrepare, AgentTypeOK, SetState, States, RunOrNone
  <2> QED BY <2>3, <2>4
<1> QED BY <1>1, <1>2, <1>3, <1>4, <1>5 DEF MqttThread

LEMMA WorkerThreadType ==
    ASSUME TypeOK, NEW a \in Agents, NEW t \in Threads, WorkerThread(a, t)
    PROVE  NetTypeOK' /\ AgentTypeOK'
<1> USE DEF TypeOK
<1> DEFINE w == worker[a][t]
<1>1. w \in Worker
  BY DEF AgentTypeOK
<1>2. CASE WakeUp(a, t)
  <2>1. [w EXCEPT !.pc = "awake"] \in Worker
    BY <1>1, <1>2 DEF WakeUp, Worker, NoWorker, ThreadSteps
  <2>2. worker' \in [Agents -> [Threads -> Worker]]
    BY <1>2, <2>1 DEF WakeUp, AgentTypeOK
  <2> QED BY <1>2, <2>2 DEF WakeUp, AgentTypeOK, NetTypeOK, netVars, SetState, States
<1>3. CASE StartTraffic(a, t)
  <2>1. ASSUME NEW pc \in {"server", "client", "refused"}
        PROVE  [pc |-> pc, run |-> w.run, cfg |-> cfg[a]] \in Worker
    BY <1>1, <1>3 DEF StartTraffic, Worker, NoWorker, ThreadSteps, AgentTypeOK
  <2>2. PICK pc \in {"server", "client", "refused"} :
            worker' = [worker EXCEPT ![a][t] = [pc |-> pc, run |-> w.run, cfg |-> cfg[a]]]
    BY <1>3 DEF StartTraffic, AgentTypeOK
  <2>3. worker' \in [Agents -> [Threads -> Worker]]
    BY <2>1, <2>2 DEF AgentTypeOK
  <2>4. socket' \in [Agents -> [Ports -> Sockets]]
    <3>1. CASE UNCHANGED socket
      BY <3>1 DEF NetTypeOK
    <3>2. CASE socket' = [socket EXCEPT ![a][Port[cfg[a]][a]] = "listening"]
      BY <3>2 DEF NetTypeOK, Sockets
    <3> QED BY <1>3, <3>1, <3>2 DEF StartTraffic
  <2> QED BY <1>3, <2>3, <2>4 DEF StartTraffic, AgentTypeOK, NetTypeOK
<1>4. ASSUME NEW status \in Statuses, Finish(a, t, status) PROVE NetTypeOK' /\ AgentTypeOK'
  <2>1. w.pc # "none"
    BY <1>4 DEF Finish, CanEnd
  <2>2. w.run \in Runs /\ [w EXCEPT !.pc = "reported"] \in Worker
    BY <1>1, <2>1 DEF Worker, NoWorker, ThreadSteps
  <2>3. worker' \in [Agents -> [Threads -> Worker]]
    BY <1>4, <2>2 DEF Finish, AgentTypeOK
  <2>4. reports' \subseteq Report
    BY <1>4, <2>2 DEF Finish, Send, Report, NetTypeOK
  <2>5. socket' \in [Agents -> [Ports -> Sockets]]
    BY <1>4 DEF Finish, NetTypeOK, Sockets
  <2>6. measured' \subseteq Runs \X Agents
    BY <1>4, <2>2 DEF Finish, AgentTypeOK
  <2>7. state' \in [Agents -> States]
    BY <1>4 DEF Finish, SetState, AgentTypeOK, States
  <2> QED BY <1>4, <2>3, <2>4, <2>5, <2>6, <2>7 DEF Finish, AgentTypeOK, NetTypeOK
<1>5. CASE Release(a, t)
  <2>1. [w EXCEPT !.pc = "released"] \in Worker
    BY <1>1, <1>5 DEF Release, Worker, NoWorker, ThreadSteps
  <2>2. worker' \in [Agents -> [Threads -> Worker]]
    BY <1>5, <2>1 DEF Release, AgentTypeOK
  <2> QED BY <1>5, <2>2 DEF Release, AgentTypeOK, NetTypeOK, netVars, RunOrNone
<1>6. CASE GoIdle(a, t)
  <2>1. worker' \in [Agents -> [Threads -> Worker]]
    BY <1>6 DEF GoIdle, AgentTypeOK, Worker
  <2> QED BY <1>6, <2>1 DEF GoIdle, AgentTypeOK, NetTypeOK, netVars, SetState, States
<1> QED BY <1>2, <1>3, <1>4, <1>5, <1>6 DEF WorkerThread

LEMMA AgentStepType ==
    ASSUME TypeOK, NEW a \in Agents, AgentStep(a)
    PROVE  NetTypeOK' /\ AgentTypeOK'
<1> USE DEF TypeOK
<1>1. CASE MqttThread(a)
  BY <1>1, MqttThreadType
<1>2. ASSUME NEW t \in Threads, WorkerThread(a, t) PROVE NetTypeOK' /\ AgentTypeOK'
  BY <1>2, WorkerThreadType
<1>3. CASE BootDone(a)
  BY <1>3 DEF BootDone, AgentTypeOK, NetTypeOK, netVars, SetState, States
<1>4. CASE Crash(a)
  <2>1. left' \in [FaultKinds -> Nat]
    BY <1>4, SpendType DEF Crash, FaultKinds, NetTypeOK
  <2>2. << >> \in Seq(Command)
    OBVIOUS
  <2>3. inbox' \in [Agents -> Seq(Command)]
    BY <1>4, <2>2 DEF Crash, NetTypeOK
  <2>4. NetTypeOK'
    BY <1>4, <2>1, <2>3 DEF Crash, NetTypeOK, Sockets
  <2>5. AgentTypeOK'
    BY <1>4 DEF Crash, AgentTypeOK, SetState, States, RunOrNone, Worker
  <2> QED BY <2>4, <2>5
<1>5. CASE Restart(a)
  BY <1>5 DEF Restart, AgentTypeOK, NetTypeOK, SetState, States
<1>6. CASE LinkLost(a) /\ UNCHANGED agentVars
  <2>1. left' \in [FaultKinds -> Nat]
    BY <1>6, SpendType DEF LinkLost, FaultKinds, NetTypeOK
  <2>2. << >> \in Seq(Command)
    OBVIOUS
  <2> QED BY <1>6, <2>1, <2>2 DEF LinkLost, AgentTypeOK, NetTypeOK, agentVars
<1>7. CASE Reconnect(a) /\ UNCHANGED agentVars
  BY <1>7 DEF Reconnect, AgentTypeOK, NetTypeOK, agentVars
<1> QED BY <1>1, <1>2, <1>3, <1>4, <1>5, <1>6, <1>7 DEF AgentStep, Network

(***************************************************************************)
(* ... then the controller's and the broker's.                             *)
(***************************************************************************)
LEMMA ServersType ==
    ASSUME TypeOK, NEW r \in Runs, StartServer(r) \/ StopServer(r)
    PROVE  NetTypeOK' /\ CtrlTypeOK'
<1> USE DEF TypeOK
<1>1. PICK p \in Ports : /\ procs' \in {[procs EXCEPT ![r] = @ \cup {p}], [procs EXCEPT ![r] = @ \ {p}]}
                         /\ bound' \in {[bound EXCEPT ![r] = @ \cup ({p} \ AllBound)],
                                        [bound EXCEPT ![r] = @ \ {p}]}
  <2>1. UplinkPorts(r) \subseteq Ports /\ procs[r] \subseteq Ports
    BY NetAssumption DEF NetAssumption, UplinkPorts, CtrlTypeOK
  <2> QED BY <2>1 DEF StartServer, StopServer
<1>2. procs' \in [Runs -> SUBSET Ports]
  BY <1>1 DEF CtrlTypeOK
<1>3. bound' \in [Runs -> SUBSET Ports]
  <2>1. {p} \ AllBound \in SUBSET Ports
    OBVIOUS
  <2>2. bound' \in {[bound EXCEPT ![r] = @ \cup ({p} \ AllBound)], [bound EXCEPT ![r] = @ \ {p}]}
    BY <1>1
  <2> QED BY <2>1, <2>2 DEF NetTypeOK
<1>4. UNCHANGED <<phase, open, acks, ips, results, started, inbox, online, reports, session,
                  outbox, socket, left>>
  BY DEF StartServer, StopServer
<1> QED BY <1>2, <1>3, <1>4 DEF NetTypeOK, CtrlTypeOK

(***************************************************************************)
(* The actions that do nothing to the network but publish a broadcast.     *)
(***************************************************************************)
LEMMA PublishingType ==
    ASSUME TypeOK, NEW r \in Runs,
           Begin(r) \/ StartRun(r) \/ AckTimeout(r) \/ StopRun(r) \/ Conclude(r)
    PROVE  NetTypeOK' /\ CtrlTypeOK'
<1> USE DEF TypeOK
<1>1. \E c \in Commands : Publish(r, c)
  BY DEF Begin, StartRun, AckTimeout, StopRun, Conclude, Commands
<1>2. /\ inbox' \in [Agents -> Seq(Command)]
      /\ outbox' \in [Runs -> Seq(Command)]
      /\ left' \in [FaultKinds -> Nat]
  BY <1>1, PublishType
<1>3. UNCHANGED <<open, acks, ips, results, procs, online, reports, session, bound, socket>>
  BY DEF Begin, StartRun, AckTimeout, StopRun, Conclude
<1>4. phase' \in [Runs -> Phases]
  BY DEF Begin, StartRun, AckTimeout, StopRun, Conclude, SetPhase, CtrlTypeOK, Phases, UnderWay, Ended
<1>5. started' \subseteq Runs
  BY DEF Begin, StartRun, AckTimeout, StopRun, Conclude, CtrlTypeOK
<1> QED BY <1>2, <1>3, <1>4, <1>5 DEF NetTypeOK, CtrlTypeOK

LEMMA ControllerStepType ==
    ASSUME TypeOK, NEW r \in Runs, ControllerStep(r)
    PROVE  NetTypeOK' /\ CtrlTypeOK'
<1> USE DEF TypeOK
<1>1. CASE Connect(r)
  BY <1>1, TakeSessionType DEF Connect, CtrlTypeOK, SetPhase, Phases
<1>2. CASE StartServer(r) \/ StopServer(r)
  BY <1>2, ServersType
<1>3. CASE Begin(r) \/ StartRun(r) \/ AckTimeout(r) \/ StopRun(r) \/ Conclude(r)
  BY <1>3, PublishingType
<1>4. CASE StartDownlinkClients(r)
  <2>1. socket' \in [Agents -> [Ports -> Sockets]]
    BY <1>4 DEF StartDownlinkClients, NetTypeOK, Sockets
  <2> QED BY <1>4, <2>1 DEF StartDownlinkClients, NetTypeOK, CtrlTypeOK, SetPhase, Phases, UnderWay
<1>5. CASE Close(r)
  <2>1. << >> \in Seq(Command)
    OBVIOUS
  <2>2. outbox' \in [Runs -> Seq(Command)] /\ session' \in RunOrNone
    BY <1>5, <2>1 DEF Close, DropSession, NetTypeOK, RunOrNone
  <2> QED BY <1>5, <2>2 DEF Close, NetTypeOK, CtrlTypeOK
<1>6. CASE Resume(r)
  BY <1>6, TakeSessionType DEF Resume, ctrlVars, CtrlTypeOK
<1>7. CASE SpawnFails(r) \/ Interrupt(r)
  <2>1. left' \in [FaultKinds -> Nat]
    BY <1>7, SpendType DEF SpawnFails, Interrupt, FaultKinds, NetTypeOK
  <2>2. phase' \in [Runs -> Phases] /\ procs' \in [Runs -> SUBSET Ports]
    BY <1>7 DEF SpawnFails, Interrupt, CtrlTypeOK, SetPhase, Phases, Ended
  <2>3. UNCHANGED <<open, acks, ips, results, started, inbox, online, reports, session, outbox,
                    bound, socket>>
    BY <1>7 DEF SpawnFails, Interrupt
  <2> QED BY <2>1, <2>2, <2>3 DEF NetTypeOK, CtrlTypeOK
<1> QED BY <1>1, <1>2, <1>3, <1>4, <1>5, <1>6, <1>7 DEF ControllerStep, RunStep

LEMMA BrokerType ==
    ASSUME TypeOK, Broker
    PROVE  NetTypeOK' /\ CtrlTypeOK'
<1> USE DEF TypeOK
<1>1. ASSUME NEW m \in reports, Deliver(m) PROVE NetTypeOK' /\ CtrlTypeOK'
  <2>1. left' \in [FaultKinds -> Nat] /\ reports' \subseteq Report
    BY <1>1, SpendType DEF Deliver, FaultKinds, NetTypeOK
  <2>2. NetTypeOK'
    BY <1>1, <2>1 DEF Deliver, NetTypeOK
  <2>3. m \in Report /\ m.agent \in Agents
    BY DEF NetTypeOK, Report
  <2>4. CASE UNCHANGED <<acks, ips, results>>
    <3>1. UNCHANGED <<phase, open, started, procs>>
      BY <1>1 DEF Deliver
    <3> QED BY <2>2, <2>4, <3>1 DEF CtrlTypeOK
  <2>5. CASE session # NoRun /\ OnAck(session, m)
    <3>1. session \in Runs
      BY <2>5 DEF NetTypeOK, RunOrNone
    <3>2. acks' \in [Runs -> SUBSET Agents] /\ ips' \in [Runs -> SUBSET Agents]
      BY <2>3, <2>5, <3>1 DEF OnAck, CtrlTypeOK
    <3> QED BY <1>1, <2>2, <2>5, <3>2 DEF Deliver, OnAck, CtrlTypeOK
  <2>6. CASE session # NoRun /\ OnResult(session, m)
    <3>1. m.body \in Statuses
      BY <2>3, <2>6 DEF OnResult, Report
    <3>2. results' \in [Runs -> [Agents -> Statuses \cup {"none"}]]
      BY <2>3, <2>6, <3>1 DEF OnResult, CtrlTypeOK
    <3> QED BY <1>1, <2>2, <2>6, <3>2 DEF Deliver, OnResult, CtrlTypeOK
  <2> QED BY <1>1, <2>4, <2>5, <2>6 DEF Deliver
<1>2. CASE ControllerLinkLost /\ UNCHANGED ctrlVars
  <2>1. left' \in [FaultKinds -> Nat]
    BY <1>2, SpendType DEF ControllerLinkLost, FaultKinds, NetTypeOK
  <2> QED BY <1>2, <2>1 DEF ControllerLinkLost, NetTypeOK, CtrlTypeOK, ctrlVars, RunOrNone
<1> QED BY <1>1, <1>2 DEF Broker

LEMMA TypeInit == Init => TypeOK
<1> SUFFICES ASSUME Init PROVE TypeOK
  OBVIOUS
<1>1. NetTypeOK
  BY NetAssumption DEF Init, NetInit, NetTypeOK, RunOrNone, Sockets
<1>2. AgentTypeOK
  BY DEF Init, AgentInit, AgentTypeOK, States, RunOrNone, Worker
<1>3. CtrlTypeOK
  BY DEF Init, CtrlInit, CtrlTypeOK, Phases
<1> QED BY <1>1, <1>2, <1>3 DEF TypeOK

LEMMA TypeStep == TypeOK /\ [Next]_vars => TypeOK'
<1> SUFFICES ASSUME TypeOK, [Next]_vars PROVE TypeOK'
  OBVIOUS
<1>1. ASSUME NEW a \in Agents, AgentStep(a), UNCHANGED ctrlVars PROVE TypeOK'
  BY <1>1, AgentStepType DEF TypeOK, CtrlTypeOK, ctrlVars
<1>2. ASSUME NEW a \in Agents, Heartbeat(a), UNCHANGED agentVars PROVE TypeOK'
  BY <1>2 DEF Heartbeat, OnAgentHeartbeat, TypeOK, NetTypeOK, AgentTypeOK, CtrlTypeOK,
      netVars, agentVars
<1>3. ASSUME NEW r \in Runs, ControllerStep(r), UNCHANGED agentVars PROVE TypeOK'
  BY <1>3, ControllerStepType DEF TypeOK, AgentTypeOK, agentVars
<1>4. CASE Broker /\ UNCHANGED agentVars
  BY <1>4, BrokerType DEF TypeOK, AgentTypeOK, agentVars
<1>5. CASE UNCHANGED vars
  BY <1>5 DEF vars, netVars, agentVars, ctrlVars, TypeOK, NetTypeOK, AgentTypeOK, CtrlTypeOK
<1> QED BY <1>1, <1>2, <1>3, <1>4, <1>5 DEF Next

(***************************************************************************)
(* Every reachable state is well typed: the states, threads, messages and  *)
(* budgets of the three components stay what their declarations say.       *)
(***************************************************************************)
THEOREM TypeCorrect == Spec => []TypeOK
BY TypeInit, TypeStep, PTL DEF Spec

-----------------------------------------------------------------------------

(***************************************************************************)
(* A complete result is backed by a measurement: only Finish publishes     *)
(* one, and it records the measurement in the same step.                   *)
(***************************************************************************)
LEMMA EvidenceFrame ==
    ASSUME CompleteIsMeasured,
           reports' \subseteq reports, measured \subseteq measured', UNCHANGED results
    PROVE  CompleteIsMeasured'
BY DEF CompleteIsMeasured

LEMMA FinishEvidence ==
    ASSUME TypeOK, CompleteIsMeasured, NEW a \in Agents, NEW t \in Threads,
           NEW status \in Statuses, Finish(a, t, status), UNCHANGED results
    PROVE  CompleteIsMeasured'
<1> DEFINE m == [kind |-> "result", agent |-> a, run |-> worker[a][t].run, body |-> status]
<1>1. reports' = reports \cup {m}
  BY DEF Finish, Send
<1>2. measured \subseteq measured'
  BY DEF Finish
<1>3. status = "complete" => <<worker[a][t].run, a>> \in measured'
  BY DEF Finish
<1>4. m.body = "complete" => <<m.run, m.agent>> \in measured'
  BY <1>3
<1> QED BY <1>1, <1>2, <1>4 DEF CompleteIsMeasured

LEMMA DeliverEvidence ==
    ASSUME TypeOK, CompleteIsMeasured, NEW m \in reports, Deliver(m), UNCHANGED measured
    PROVE  CompleteIsMeasured'
<1>1. reports' \subseteq reports
  BY DEF Deliver
<1>2. CASE UNCHANGED results
  BY <1>1, <1>2, EvidenceFrame
<1>3. CASE session # NoRun /\ OnResult(session, m) /\ m.run = session
           /\ results' = [results EXCEPT ![session][m.agent] = m.body]
  <2>1. session \in Runs /\ m.agent \in Agents
    BY <1>3 DEF TypeOK, NetTypeOK, RunOrNone, Report
  <2>2. m.body = "complete" => <<session, m.agent>> \in measured
    BY <1>3 DEF CompleteIsMeasured, OnResult
  <2>3. ASSUME NEW r \in Runs, NEW a \in Agents, results'[r][a] = "complete"
        PROVE  <<r, a>> \in measured'
    <3>1. CASE r = session /\ a = m.agent
      BY <1>3, <2>1, <2>2, <2>3, <3>1 DEF TypeOK, CtrlTypeOK
    <3>2. CASE ~(r = session /\ a = m.agent)
      <4>1. results'[r][a] = results[r][a]
        BY <1>3, <2>1, <3>2 DEF TypeOK, CtrlTypeOK
      <4> QED BY <2>3, <4>1 DEF CompleteIsMeasured
    <3> QED BY <3>1, <3>2
  <2> QED BY <1>1, <2>3 DEF CompleteIsMeasured
<1> QED BY <1>2, <1>3 DEF Deliver, OnAck, OnResult

LEMMA EvidenceStep ==
    ASSUME TypeOK, CompleteIsMeasured, [Next]_vars
    PROVE  CompleteIsMeasured'
<1>1. ASSUME NEW a \in Agents, AgentStep(a), UNCHANGED ctrlVars PROVE CompleteIsMeasured'
  <2>1. UNCHANGED results
    BY <1>1 DEF ctrlVars
  <2>2. CASE FinishPrepare(a)
    <3>1. UNCHANGED measured
      BY <2>2 DEF FinishPrepare
    <3>2. \A m \in reports' : m \in reports \/ m.kind = "ack"
      BY <2>2 DEF FinishPrepare, Send
    <3> QED BY <2>1, <3>1, <3>2 DEF CompleteIsMeasured
  <2>3. ASSUME NEW t \in Threads, NEW status \in Statuses, Finish(a, t, status)
        PROVE  CompleteIsMeasured'
    BY <2>1, <2>3, FinishEvidence
  <2>4. CASE ~FinishPrepare(a) /\ ~\E t \in Threads, status \in Statuses : Finish(a, t, status)
    <3>1. reports' \subseteq reports /\ UNCHANGED measured
      BY <1>1, <2>4 DEF AgentStep, MqttThread, HandlePrepare, HandleStartAt, HandleStop,
          HandleTeardown, WorkerThread, WakeUp, StartTraffic, Release, GoIdle, BootDone,
          Crash, Restart, Network, LinkLost, Reconnect, netVars, agentVars
    <3> QED BY <2>1, <3>1, EvidenceFrame
  <2> QED BY <2>2, <2>3, <2>4
<1>2. ASSUME NEW a \in Agents, Heartbeat(a), UNCHANGED agentVars PROVE CompleteIsMeasured'
  BY <1>2, EvidenceFrame DEF Heartbeat, OnAgentHeartbeat, netVars, agentVars
<1>3. ASSUME NEW r \in Runs, ControllerStep(r), UNCHANGED agentVars PROVE CompleteIsMeasured'
  <2>1. UNCHANGED <<reports, results, measured>>
    BY <1>3 DEF ControllerStep, RunStep, Connect, TakeSession, Begin, StartRun, AckTimeout,
        StartDownlinkClients, StopRun, Conclude, Close, Resume, StartServer, StopServer,
        SpawnFails, Interrupt, ctrlVars, agentVars
  <2> QED BY <2>1, EvidenceFrame
<1>4. CASE Broker /\ UNCHANGED agentVars
  <2>1. ASSUME NEW m \in reports, Deliver(m) PROVE CompleteIsMeasured'
    BY <1>4, <2>1, DeliverEvidence DEF agentVars
  <2>2. CASE ControllerLinkLost /\ UNCHANGED ctrlVars
    BY <1>4, <2>2, EvidenceFrame DEF ControllerLinkLost, ctrlVars, agentVars
  <2> QED BY <1>4, <2>1, <2>2 DEF Broker
<1>5. CASE UNCHANGED vars
  BY <1>5, EvidenceFrame DEF vars, netVars, agentVars, ctrlVars
<1> QED BY <1>1, <1>2, <1>3, <1>4, <1>5 DEF Next

(***************************************************************************)
(* A run is reported ok only if each of its stations has measured on its   *)
(* behalf, for any number of runs, agents and faults: what _on_result      *)
(* stores and _collect_results judges is never somebody else's result.     *)
(***************************************************************************)
THEOREM VerdictIsSound == Spec => []VerdictSound
<1>1. Init => CompleteIsMeasured
  BY DEF Init, NetInit, CtrlInit, CompleteIsMeasured
<1>2. TypeOK /\ CompleteIsMeasured /\ [Next]_vars => CompleteIsMeasured'
  BY EvidenceStep
<1>3. CompleteIsMeasured /\ TypeOK => VerdictSound
  <2> SUFFICES ASSUME CompleteIsMeasured, NEW r \in Runs, Ok(r), NEW a \in Expected[r]
               PROVE  <<r, a>> \in measured
    BY DEF VerdictSound
  <2>1. a \in Agents
    BY NetAssumption DEF NetAssumption
  <2> QED BY <2>1 DEF CompleteIsMeasured, Ok
<1> QED BY <1>1, <1>2, <1>3, TypeCorrect, PTL DEF Spec

-----------------------------------------------------------------------------

(***************************************************************************)
(* Sequences of broadcasts in which every start_at is one of a run in S.   *)
(***************************************************************************)
LEMMA OnlyStartedConcat ==
    ASSUME NEW s \in Seq(Command), NEW m \in Seq(Command), NEW S,
           OnlyStarted(s, S), OnlyStarted(m, S)
    PROVE  OnlyStarted(s \o m, S)
BY DEF OnlyStarted

LEMMA OnlyStartedAppend ==
    ASSUME NEW s \in Seq(Command), NEW c \in Command, NEW S,
           OnlyStarted(s, S), c.cmd = "start_at" => c.run \in S
    PROVE  OnlyStarted(Append(s, c), S)
BY DEF OnlyStarted

LEMMA OnlyStartedTail ==
    ASSUME NEW s \in Seq(Command), s # << >>, NEW S, OnlyStarted(s, S)
    PROVE  OnlyStarted(Tail(s), S)
BY DEF OnlyStarted

LEMMA OnlyStartedGrows ==
    ASSUME NEW s, NEW S, NEW T, S \subseteq T, OnlyStarted(s, S)
    PROVE  OnlyStarted(s, T)
BY DEF OnlyStarted

LEMMA OnlyStartedEmpty == ASSUME NEW S PROVE OnlyStarted(<< >>, S)
BY DEF OnlyStarted

(***************************************************************************)
(* What the broker forwards, a bus publishes or flushes.                   *)
(***************************************************************************)
LEMMA ForwardStarted ==
    ASSUME NetTypeOK, NEW ms \in Seq(Command), NEW S, Forward(ms), OnlyStarted(ms, S),
           \A a \in Agents : OnlyStarted(inbox[a], S)
    PROVE  \A a \in Agents : OnlyStarted(inbox'[a], S)
<1> TAKE a \in Agents
<1>1. inbox[a] \in Seq(Command)
  BY DEF NetTypeOK
<1>2. OnlyStarted(inbox[a] \o ms, S)
  BY <1>1, OnlyStartedConcat
<1>3. inbox'[a] = inbox[a] \o ms \/ inbox'[a] = inbox[a]
  BY DEF Forward
<1> QED BY <1>2, <1>3

LEMMA PublishStarted ==
    ASSUME NetTypeOK, NEW r \in Runs, NEW c \in Commands, NEW S, Publish(r, c),
           c = "start_at" => r \in S,
           \A a \in Agents : OnlyStarted(inbox[a], S),
           \A q \in Runs : OnlyStarted(outbox[q], S)
    PROVE  /\ \A a \in Agents : OnlyStarted(inbox'[a], S)
           /\ \A q \in Runs : OnlyStarted(outbox'[q], S)
<1> DEFINE m == [cmd |-> c, run |-> r]
<1>1. m \in Command /\ <<m>> \in Seq(Command) /\ <<m, m>> \in Seq(Command)
  BY DEF Command
<1>2. OnlyStarted(<<m>>, S) /\ OnlyStarted(<<m, m>>, S)
  BY DEF OnlyStarted
<1>3. CASE (Forward(<<m>>) \/ Forward(<<m, m>>)) /\ UNCHANGED outbox
  BY <1>1, <1>2, <1>3, ForwardStarted
<1>4. CASE outbox' = [outbox EXCEPT ![r] = Append(@, m)] /\ UNCHANGED inbox
  <2>1. outbox[r] \in Seq(Command)
    BY DEF NetTypeOK
  <2>2. OnlyStarted(Append(outbox[r], m), S)
    BY <1>1, <2>1, OnlyStartedAppend
  <2>3. ASSUME NEW q \in Runs PROVE OnlyStarted(outbox'[q], S)
    BY <1>4, <2>2 DEF NetTypeOK
  <2> QED BY <1>4, <2>3
<1> QED BY <1>3, <1>4 DEF Publish

LEMMA TakeSessionStarted ==
    ASSUME NetTypeOK, NEW r \in Runs, NEW S, TakeSession(r),
           \A a \in Agents : OnlyStarted(inbox[a], S),
           \A q \in Runs : OnlyStarted(outbox[q], S)
    PROVE  /\ \A a \in Agents : OnlyStarted(inbox'[a], S)
           /\ \A q \in Runs : OnlyStarted(outbox'[q], S)
<1>1. outbox[r] \in Seq(Command) /\ Forward(outbox[r])
  BY DEF NetTypeOK, TakeSession
<1>2. \A a \in Agents : OnlyStarted(inbox'[a], S)
  BY <1>1, ForwardStarted
<1>3. ASSUME NEW q \in Runs PROVE OnlyStarted(outbox'[q], S)
  BY OnlyStartedEmpty DEF TakeSession, NetTypeOK
<1> QED BY <1>2, <1>3

LEMMA TakesStarted ==
    ASSUME NetTypeOK, NEW a \in Agents, NEW c, NEW r \in Runs, NEW S, Takes(a, c, r),
           \A b \in Agents : OnlyStarted(inbox[b], S)
    PROVE  /\ \A b \in Agents : OnlyStarted(inbox'[b], S)
           /\ c = "start_at" => r \in S
<1>1. inbox[a] \in Seq(Command) /\ inbox[a] # << >>
  BY DEF NetTypeOK, Takes
<1>2. OnlyStarted(Tail(inbox[a]), S)
  BY <1>1, OnlyStartedTail
<1>3. \A b \in Agents : OnlyStarted(inbox'[b], S)
  BY <1>2 DEF Takes, NetTypeOK
<1>4. inbox[a][1] = [cmd |-> c, run |-> r] /\ 1 \in DOMAIN inbox[a]
  BY <1>1 DEF Takes
<1>5. c = "start_at" => r \in S
  BY <1>4 DEF OnlyStarted
<1> QED BY <1>3, <1>5

(***************************************************************************)
(* The agent's steps: a thread is spawned by a start_at only.              *)
(***************************************************************************)
LEMMA AgentStarts ==
    ASSUME TypeOK, StartsAreStarted, NEW a \in Agents, AgentStep(a), UNCHANGED ctrlVars
    PROVE  StartsAreStarted'
<1> USE DEF TypeOK
<1>1. UNCHANGED <<started, acks, outbox>>
  BY DEF ctrlVars, AgentStep, MqttThread, HandlePrepare, HandleStartAt, HandleStop,
     HandleTeardown, FinishPrepare, Takes, WorkerThread, WakeUp, StartTraffic, Finish, Release,
     GoIdle, BootDone, Crash, Restart, Network, LinkLost, Reconnect, netVars
<1>2. \A b \in Agents : OnlyStarted(inbox'[b], started)
  <2>1. ASSUME NEW c, NEW r \in Runs, Takes(a, c, r)
        PROVE  \A b \in Agents : OnlyStarted(inbox'[b], started)
    BY <2>1, TakesStarted DEF StartsAreStarted
  <2>2. CASE UNCHANGED inbox
    BY <2>2 DEF StartsAreStarted
  <2>3. CASE inbox' = [inbox EXCEPT ![a] = << >>]
    BY <2>3, OnlyStartedEmpty DEF StartsAreStarted, NetTypeOK
  <2> QED BY <2>1, <2>2, <2>3 DEF AgentStep, MqttThread, HandlePrepare, HandleStartAt,
          HandleStop, HandleTeardown, FinishPrepare, WorkerThread, WakeUp, StartTraffic,
          Finish, Release, GoIdle, BootDone, Crash, Restart, Network, LinkLost, Reconnect,
          netVars
<1>3. ASSUME NEW b \in Agents, NEW u \in Threads, worker'[b][u].pc # "none"
      PROVE  worker'[b][u].run \in started
  <2>1. CASE \E r \in Runs : HandleStartAt(a, r)
    <3>1. PICK r \in Runs : HandleStartAt(a, r)
      BY <2>1
    <3>2. r \in started
      BY <3>1, TakesStarted DEF HandleStartAt, StartsAreStarted
    <3>3. CASE UNCHANGED worker
      BY <1>3, <3>3 DEF StartsAreStarted
    <3>4. ASSUME NEW t \in Threads,
                 worker' = [worker EXCEPT ![a][t] =
                     [pc |-> "sleeping", run |-> r, cfg |-> NoRun]]
          PROVE  worker'[b][u].run \in started
      <4>1. CASE b = a /\ u = t
        BY <3>2, <3>4, <4>1 DEF AgentTypeOK
      <4>2. CASE ~(b = a /\ u = t)
        <5>1. worker'[b][u] = worker[b][u]
          BY <3>4, <4>2 DEF AgentTypeOK
        <5> QED BY <1>3, <5>1 DEF StartsAreStarted
      <4> QED BY <4>1, <4>2
    <3> QED BY <3>1, <3>3, <3>4 DEF HandleStartAt
  <2>2. CASE \E t \in Threads : WorkerThread(a, t)
    <3>1. PICK t \in Threads : WorkerThread(a, t)
      BY <2>2
    <3>2. worker[a][t].pc # "none" /\ worker[a][t] \in Worker
      <4>1. worker[a][t] \in Worker
        BY DEF AgentTypeOK
      <4>2. worker[a][t].pc \in {"sleeping", "awake", "client", "refused", "server", "reported", "released"}
        BY <3>1 DEF WorkerThread, WakeUp, StartTraffic, Finish, CanEnd, Release, GoIdle
      <4> QED BY <4>1, <4>2
    <3>3. worker[a][t].run \in started
      BY <3>2 DEF StartsAreStarted
    <3>4. CASE b = a /\ u = t
      <4>1. CASE StartTraffic(a, t)
        BY <3>3, <3>4, <4>1 DEF StartTraffic, AgentTypeOK
      <4>2. CASE GoIdle(a, t)
        BY <1>3, <3>4, <4>2 DEF GoIdle, AgentTypeOK, NoWorker
      <4>3. ASSUME NEW pc, worker' = [worker EXCEPT ![a][t].pc = pc]
            PROVE  worker'[b][u].run \in started
        <5>1. worker'[a][t] = [worker[a][t] EXCEPT !.pc = pc]
          BY <4>3 DEF AgentTypeOK
        <5>2. worker'[a][t].run = worker[a][t].run
          BY <3>2, <5>1 DEF Worker, NoWorker
        <5> QED BY <3>3, <3>4, <5>2
      <4> QED BY <3>1, <4>1, <4>2, <4>3 DEF WorkerThread, WakeUp, Finish, Release
    <3>5. CASE ~(b = a /\ u = t)
      <4>1. ASSUME NEW x, worker' = [worker EXCEPT ![a][t] = x]
            PROVE  worker'[b][u] = worker[b][u]
        BY <3>5, <4>1 DEF AgentTypeOK
      <4>2. ASSUME NEW pc, worker' = [worker EXCEPT ![a][t].pc = pc]
            PROVE  worker'[b][u] = worker[b][u]
        BY <3>5, <4>2 DEF AgentTypeOK
      <4>3. worker'[b][u] = worker[b][u]
        BY <3>1, <4>1, <4>2 DEF WorkerThread, WakeUp, StartTraffic, Finish, Release, GoIdle
      <4> QED BY <1>3, <4>3 DEF StartsAreStarted
    <3> QED BY <3>4, <3>5
  <2>3. CASE Crash(a)
    BY <1>3, <2>3 DEF Crash, StartsAreStarted, AgentTypeOK, NoWorker
  <2>4. CASE UNCHANGED worker
    BY <1>3, <2>4 DEF StartsAreStarted
  <2> QED BY <2>1, <2>2, <2>3, <2>4 DEF AgentStep, MqttThread, HandlePrepare, HandleStop,
          HandleTeardown, FinishPrepare, BootDone, Restart, Network, agentVars
<1>4. ASSUME NEW r \in Runs, NEW b \in Agents, <<r, b>> \in measured'
      PROVE  r \in started
  <2>1. CASE \E t \in Threads, status \in Statuses : Finish(a, t, status)
    <3>1. PICK t \in Threads, status \in Statuses : Finish(a, t, status)
      BY <2>1
    <3>2. worker[a][t].run \in started
      BY <3>1 DEF Finish, CanEnd, StartsAreStarted
    <3>3. <<r, b>> \in measured \/ r = worker[a][t].run
      BY <1>4, <3>1 DEF Finish
    <3> QED BY <3>2, <3>3 DEF StartsAreStarted
  <2>2. CASE UNCHANGED measured
    BY <1>4, <2>2 DEF StartsAreStarted
  <2> QED BY <2>1, <2>2 DEF AgentStep, MqttThread, HandlePrepare, HandleStartAt, HandleStop,
          HandleTeardown, FinishPrepare, WorkerThread, WakeUp, StartTraffic, Release, GoIdle,
          BootDone, Crash, Restart, Network, agentVars
<1> QED BY <1>1, <1>2, <1>3, <1>4 DEF StartsAreStarted

(***************************************************************************)
(* The orchestrator's: start_at is published with all the acks in, and     *)
(* acks are never taken back.                                              *)
(***************************************************************************)
LEMMA ControllerStarts ==
    ASSUME TypeOK, StartsAreStarted, NEW r \in Runs, ControllerStep(r), UNCHANGED agentVars
    PROVE  StartsAreStarted'
<1> USE DEF TypeOK
<1>1. UNCHANGED <<worker, measured, acks>>
  BY DEF agentVars, ctrlVars, ControllerStep, RunStep, Connect, Begin, StartRun, AckTimeout,
     StartDownlinkClients, StopRun, Conclude, Close, Resume, StartServer, StopServer,
     SpawnFails, Interrupt
<1>2. CASE StartRun(r)
  <2>1. started' = started \cup {r} /\ Expected[r] \subseteq acks[r]
    BY <1>2 DEF StartRun
  <2>2. /\ \A a \in Agents : OnlyStarted(inbox[a], started')
        /\ \A q \in Runs : OnlyStarted(outbox[q], started')
    BY <2>1, OnlyStartedGrows DEF StartsAreStarted
  <2>3. /\ \A a \in Agents : OnlyStarted(inbox'[a], started')
        /\ \A q \in Runs : OnlyStarted(outbox'[q], started')
    BY <1>2, <2>1, <2>2, PublishStarted DEF StartRun, Commands
  <2> QED BY <1>1, <2>1, <2>3 DEF StartsAreStarted
<1>3. ASSUME NEW c \in Commands \ {"start_at"}, Publish(r, c), UNCHANGED started
      PROVE  StartsAreStarted'
  <2>1. /\ \A a \in Agents : OnlyStarted(inbox'[a], started)
        /\ \A q \in Runs : OnlyStarted(outbox'[q], started)
    BY <1>3, PublishStarted DEF StartsAreStarted
  <2> QED BY <1>1, <1>3, <2>1 DEF StartsAreStarted
<1>4. CASE TakeSession(r) /\ UNCHANGED started
  <2>1. /\ \A a \in Agents : OnlyStarted(inbox'[a], started)
        /\ \A q \in Runs : OnlyStarted(outbox'[q], started)
    BY <1>4, TakeSessionStarted DEF StartsAreStarted
  <2> QED BY <1>1, <1>4, <2>1 DEF StartsAreStarted
<1>5. CASE Close(r)
  <2>1. \A q \in Runs : OnlyStarted(outbox'[q], started)
    BY <1>5, OnlyStartedEmpty DEF Close, DropSession, StartsAreStarted, NetTypeOK
  <2> QED BY <1>1, <1>5, <2>1 DEF Close, StartsAreStarted
<1>6. CASE UNCHANGED <<inbox, outbox, started>>
  BY <1>1, <1>6 DEF StartsAreStarted
<1> QED BY <1>2, <1>3, <1>4, <1>5, <1>6 DEF ControllerStep, RunStep, Connect, Begin,
        AckTimeout, StartDownlinkClients, StopRun, Conclude, Resume, StartServer, StopServer,
        SpawnFails, Interrupt, ctrlVars, Commands

LEMMA StartsStep ==
    ASSUME TypeOK, StartsAreStarted, [Next]_vars
    PROVE  StartsAreStarted'
<1>1. ASSUME NEW a \in Agents, AgentStep(a), UNCHANGED ctrlVars PROVE StartsAreStarted'
  BY <1>1, AgentStarts
<1>2. ASSUME NEW r \in Runs, ControllerStep(r), UNCHANGED agentVars PROVE StartsAreStarted'
  BY <1>2, ControllerStarts
<1>3. CASE UNCHANGED <<inbox, outbox, worker, measured, started>>
           /\ \A r \in Runs : acks[r] \subseteq acks'[r]
  <2>1. started \subseteq Runs
    BY DEF TypeOK, CtrlTypeOK
  <2> QED BY <1>3, <2>1 DEF StartsAreStarted
<1>4. CASE Broker /\ UNCHANGED agentVars
  <2>1. ASSUME NEW m \in reports, Deliver(m) PROVE \A r \in Runs : acks[r] \subseteq acks'[r]
    BY <2>1 DEF Deliver, OnAck, OnResult, TypeOK, CtrlTypeOK
  <2> QED BY <1>3, <1>4, <2>1 DEF Broker, Deliver, ControllerLinkLost, agentVars, ctrlVars
<1> QED BY <1>1, <1>2, <1>3, <1>4 DEF Next, Heartbeat, OnAgentHeartbeat, vars, netVars,
        agentVars, ctrlVars

(***************************************************************************)
(* No station has a thread for a run, or has measured for it, before every *)
(* station of the scenario has been acknowledged: the barrier of prepare,  *)
(* ack and start_at, with stale threads, duplicated broadcasts, restarts   *)
(* and overlapping runs.                                                   *)
(***************************************************************************)
THEOREM BarrierHolds == Spec => []Barrier
<1>1. Init => StartsAreStarted
  BY DEF Init, NetInit, AgentInit, CtrlInit, StartsAreStarted, OnlyStarted, NoWorker
<1>2. TypeOK /\ StartsAreStarted /\ [Next]_vars => StartsAreStarted'
  BY StartsStep
<1>3. StartsAreStarted => Barrier
  BY DEF StartsAreStarted, Barrier, Live
<1> QED BY <1>1, <1>2, <1>3, TypeCorrect, PTL DEF Spec


-----------------------------------------------------------------------------

(***************************************************************************)
(* What the phase of a run says of its bus: it is open from "connected" on *)
(* until Close.                                                            *)
(***************************************************************************)
PhasesOpen ==
    \A r \in Runs :
        /\ phase[r] = "new" => r \notin open
        /\ phase[r] \in {"connected"} \cup UnderWay => r \in open

(***************************************************************************)
(* With MaxActive = 1 there is one open run at a time ...                  *)
(***************************************************************************)
OneAtATime == IsFiniteSet(open) /\ \A q, r \in open : q = r

(***************************************************************************)
(* ... which holds the session, so that nothing waits in an outbox; and    *)
(* when no run is under way a teardown is the last word of every inbox     *)
(* that is not empty, and has been heard where it is.                      *)
(***************************************************************************)
SessionHeld ==
    /\ left["link"] = 0 /\ left["interrupt"] = 0
    /\ \A r \in Runs : outbox[r] = << >>
    /\ \A r \in open : session = r

AtRest(a) == state[a] \notin {"PREPARING", "ARMED"} /\ arming[a] = NoRun

LastIsTeardown(s) == s # << >> /\ s[Len(s)].cmd = "teardown"

TornDown ==
    /\ \A a \in Agents : a \notin online => inbox[a] = << >> /\ AtRest(a)
    /\ (\A r \in Runs : phase[r] \notin UnderWay) =>
           \A a \in Agents : LastIsTeardown(inbox[a]) \/ (inbox[a] = << >> /\ AtRest(a))

(***************************************************************************)
(* While there is one run only: a prepare comes before everything else,    *)
(* before any thread, and no thread is past its sleep while its agent is   *)
(* ARMED.                                                                  *)
(***************************************************************************)
PreparesFirst(s) ==
    \A i, j \in DOMAIN s : i < j /\ s[j].cmd = "prepare" => s[i].cmd = "prepare"

NoPrepare(s) == \A i \in DOMAIN s : s[i].cmd # "prepare"

OneRun == \A q, r \in Runs : q = r

PrepareOnce ==
    /\ \A r \in Runs :
          /\ session = r => outbox[r] = << >>
          /\ PreparesFirst(outbox[r])
          /\ phase[r] \in {"new", "connected"} => outbox[r] = << >>
    /\ \A a \in Agents : PreparesFirst(inbox[a])
    /\ \A a \in Agents, r \in Runs :
          /\ phase[r] \in {"new", "connected"} => inbox[a] = << >> /\ Live(a) = {}
          /\ NoPrepare(outbox[r]) \/ (inbox[a] = << >> /\ Live(a) = {})

ArmedAt(a) ==
    /\ Live(a) # {} => arming[a] = NoRun /\ NoPrepare(inbox[a])
    /\ \A t \in Live(a) : worker[a][t].pc # "sleeping" => state[a] # "ARMED"
    /\ arming[a] # NoRun => cfg[a] = arming[a] /\ runId[a] = arming[a]
    /\ state[a] = "ARMED" => cfg[a] # NoRun /\ runId[a] = cfg[a]

ArmedOnce == \A a \in Agents : ArmedAt(a)

(***************************************************************************)
(* Phases and open buses change in the steps of the orchestrators only.    *)
(***************************************************************************)
LEMMA OnlyRunsMove ==
    ASSUME [Next]_vars
    PROVE  \/ UNCHANGED <<phase, open>>
           \/ \E r \in Runs : ControllerStep(r)
<1>1. CASE Broker
  BY <1>1 DEF Broker, Deliver, ControllerLinkLost, ctrlVars
<1>2. ASSUME NEW a \in Agents, Heartbeat(a) PROVE UNCHANGED <<phase, open>>
  BY <1>2 DEF Heartbeat, OnAgentHeartbeat
<1> QED BY <1>1, <1>2 DEF Next, vars, ctrlVars

LEMMA PhasesOpenStep ==
    ASSUME TypeOK, PhasesOpen, [Next]_vars
    PROVE  PhasesOpen'
<1> USE DEF TypeOK, NetTypeOK, CtrlTypeOK, PhasesOpen, UnderWay, Ended, SetPhase
<1>1. CASE UNCHANGED <<phase, open>>
  BY <1>1
<1>2. ASSUME NEW r \in Runs, ControllerStep(r) PROVE PhasesOpen'
  <2>1. CASE Connect(r)
    BY <2>1 DEF Connect, TakeSession
  <2>2. CASE StartServer(r) \/ StopServer(r)
    BY <2>2 DEF StartServer, StopServer
  <2>3. CASE Begin(r) \/ StartRun(r) \/ AckTimeout(r) \/ StopRun(r) \/ Conclude(r)
             \/ StartDownlinkClients(r)
    BY <2>3 DEF Begin, StartRun, AckTimeout, StopRun, Conclude, StartDownlinkClients
  <2>4. CASE Close(r)
    BY <2>4 DEF Close
  <2>5. CASE Resume(r)
    BY <2>5 DEF Resume, TakeSession, ctrlVars
  <2>6. CASE SpawnFails(r) \/ Interrupt(r)
    <3>1. r \in open
      BY <2>6 DEF SpawnFails, Interrupt
    <3> QED BY <2>6, <3>1 DEF SpawnFails, Interrupt
  <2> QED BY <1>2, <2>1, <2>2, <2>3, <2>4, <2>5, <2>6 DEF ControllerStep, RunStep
<1> QED BY <1>1, <1>2, OnlyRunsMove

LEMMA FaultsAreSpent ==
    ASSUME TypeOK, [Next]_vars, NEW k \in FaultKinds, left[k] = 0
    PROVE  left'[k] = 0
<1> USE DEF TypeOK, NetTypeOK
<1>1. ASSUME NEW j \in FaultKinds, Spend(j) PROVE left'[k] = 0
  BY <1>1 DEF Spend
<1>2. UNCHANGED left \/ \E j \in FaultKinds : Spend(j)
  <2> USE DEF FaultKinds
  <2>1. ASSUME NEW a \in Agents, AgentStep(a)
        PROVE  UNCHANGED left \/ \E j \in FaultKinds : Spend(j)
    <3>1. CASE MqttThread(a)
      BY <3>1 DEF MqttThread, HandlePrepare, HandleStartAt, HandleStop, HandleTeardown,
         FinishPrepare, Takes
    <3>2. ASSUME NEW t \in Threads, WorkerThread(a, t) PROVE UNCHANGED left
      BY <3>2 DEF WorkerThread, WakeUp, StartTraffic, Finish, Release, GoIdle, netVars
    <3>3. CASE Crash(a) \/ LinkLost(a)
      BY <3>3 DEF Crash, LinkLost
    <3>4. CASE BootDone(a) \/ Restart(a) \/ Reconnect(a)
      BY <3>4 DEF BootDone, Restart, Reconnect, netVars
    <3> HIDE DEF FaultKinds, Spend
    <3> QED BY <2>1, <3>1, <3>2, <3>3, <3>4 DEF AgentStep, Network
  <2>2. ASSUME NEW r \in Runs, ControllerStep(r)
        PROVE  UNCHANGED left \/ \E j \in FaultKinds : Spend(j)
    BY <2>2 DEF ControllerStep, RunStep, Connect, TakeSession, Begin, Publish, StartRun,
       AckTimeout, StopRun, Conclude, StartDownlinkClients, Interrupt, Close, Resume,
       StartServer, StopServer, SpawnFails
  <2>3. CASE Broker
    BY <2>3 DEF Broker, Deliver, ControllerLinkLost
  <2>4. ASSUME NEW a \in Agents, Heartbeat(a) PROVE UNCHANGED left
    BY <2>4 DEF Heartbeat, OnAgentHeartbeat, netVars
  <2> QED BY <2>1, <2>2, <2>3, <2>4 DEF Next, vars, netVars
<1> QED BY <1>1, <1>2

(***************************************************************************)
(* One run at a time: the guard of Connect with MaxActive = 1.             *)
(***************************************************************************)
LEMMA OneAtATimeStep ==
    ASSUME MaxActive = 1, TypeOK, OneAtATime, [Next]_vars
    PROVE  OneAtATime'
<1>1. CASE UNCHANGED open
  BY <1>1 DEF OneAtATime
<1>2. ASSUME NEW r \in Runs, Connect(r) PROVE OneAtATime'
  <2>1. Cardinality(open) < 1 /\ open' = open \cup {r}
    BY <1>2 DEF Connect
  <2>2. open = {}
    <3>1. Cardinality(open) \in Nat
      BY FS_CardinalityType DEF OneAtATime
    <3>2. Cardinality(open) = 0
      BY <2>1, <3>1
    <3> QED BY <3>2, FS_EmptySet DEF OneAtATime
  <2>3. IsFiniteSet(open')
    BY <2>1, FS_AddElement DEF OneAtATime
  <2> QED BY <2>1, <2>2, <2>3 DEF OneAtATime
<1>3. ASSUME NEW r \in Runs, Close(r) PROVE OneAtATime'
  <2>1. open' = open \ {r}
    BY <1>3 DEF Close
  <2>2. IsFiniteSet(open')
    BY <2>1, FS_RemoveElement DEF OneAtATime
  <2> QED BY <2>1, <2>2 DEF OneAtATime
<1>4. ASSUME NEW r \in Runs, ControllerStep(r), ~Connect(r), ~Close(r) PROVE UNCHANGED open
  BY <1>4 DEF ControllerStep, RunStep, Begin, StartRun, AckTimeout, StopRun, Conclude,
     StartDownlinkClients, Interrupt, Resume, StartServer, StopServer, SpawnFails, ctrlVars
<1> QED BY <1>1, <1>2, <1>3, <1>4, OnlyRunsMove

-----------------------------------------------------------------------------

(***************************************************************************)
(* Sequences of broadcasts with no prepare, or with the prepares first.    *)
(***************************************************************************)
LEMMA NoPrepareConcat ==
    ASSUME NEW s \in Seq(Command), NEW m \in Seq(Command), NoPrepare(m)
    PROVE  /\ NoPrepare(s) => NoPrepare(s \o m)
           /\ PreparesFirst(s) => PreparesFirst(s \o m)
<1>1. NoPrepare(s) => NoPrepare(s \o m)
  BY DEF NoPrepare
<1>2. ASSUME PreparesFirst(s), NEW i \in DOMAIN (s \o m), NEW j \in DOMAIN (s \o m),
             i < j, (s \o m)[j].cmd = "prepare"
      PROVE  (s \o m)[i].cmd = "prepare"
  <2>1. j \in DOMAIN s /\ (s \o m)[j] = s[j]
    <3>1. CASE j > Len(s)
      <4>1. (s \o m)[j] = m[j - Len(s)] /\ j - Len(s) \in DOMAIN m
        BY <1>2, <3>1
      <4> QED BY <1>2, <4>1 DEF NoPrepare
    <3>2. CASE j <= Len(s)
      BY <1>2, <3>2
    <3> QED BY <1>2, <3>1, <3>2
  <2>2. i \in DOMAIN s /\ (s \o m)[i] = s[i]
    BY <1>2, <2>1
  <2> QED BY <1>2, <2>1, <2>2 DEF PreparesFirst
<1> QED BY <1>1, <1>2 DEF PreparesFirst

LEMMA NoPrepareAppend ==
    ASSUME NEW s \in Seq(Command), NEW c \in Command, c.cmd # "prepare"
    PROVE  /\ NoPrepare(s) => NoPrepare(Append(s, c))
           /\ PreparesFirst(s) => PreparesFirst(Append(s, c))
<1>1. NoPrepare(<<c>>) /\ <<c>> \in Seq(Command) /\ Append(s, c) = s \o <<c>>
  BY DEF NoPrepare
<1> QED BY <1>1, NoPrepareConcat

LEMMA NoPrepareTail ==
    ASSUME NEW s \in Seq(Command), s # << >>
    PROVE  /\ NoPrepare(s) => NoPrepare(Tail(s))
           /\ PreparesFirst(s) => PreparesFirst(Tail(s))
           /\ PreparesFirst(s) /\ Head(s).cmd # "prepare" => NoPrepare(s)
           /\ NoPrepare(s) => Head(s).cmd # "prepare"
<1>1. NoPrepare(s) => NoPrepare(Tail(s)) /\ Head(s).cmd # "prepare"
  BY DEF NoPrepare
<1>2. ASSUME PreparesFirst(s), NEW i \in DOMAIN Tail(s), NEW j \in DOMAIN Tail(s), i < j,
             Tail(s)[j].cmd = "prepare"
      PROVE  Tail(s)[i].cmd = "prepare"
  <2>1. /\ i + 1 \in DOMAIN s /\ j + 1 \in DOMAIN s /\ i + 1 < j + 1
        /\ Tail(s)[i] = s[i + 1] /\ Tail(s)[j] = s[j + 1]
    BY <1>2
  <2> QED BY <1>2, <2>1 DEF PreparesFirst
<1>3. ASSUME PreparesFirst(s), Head(s).cmd # "prepare", NEW j \in DOMAIN s
      PROVE  s[j].cmd # "prepare"
  <2>1. 1 \in DOMAIN s /\ s[1] = Head(s) /\ (j = 1 \/ 1 < j)
    BY <1>3
  <2> QED BY <1>3, <2>1 DEF PreparesFirst
<1> QED BY <1>1, <1>2, <1>3 DEF NoPrepare, PreparesFirst

LEMMA PreparesOnly ==
    ASSUME NEW m \in Command, m.cmd = "prepare"
    PROVE  PreparesFirst(<<m>>) /\ PreparesFirst(<<m, m>>)
BY DEF PreparesFirst

LEMMA NoPrepareEmpty == NoPrepare(<< >>) /\ PreparesFirst(<< >>)
BY DEF NoPrepare, PreparesFirst

(***************************************************************************)
(* What a step of an agent does to its own threads and inbox, and that it  *)
(* touches nothing of another agent.                                       *)
(***************************************************************************)
LEMMA ThreadAlone ==
    ASSUME TypeOK, NEW a \in Agents, NEW t \in Threads, WorkerThread(a, t)
    PROVE  /\ \A u \in Threads \ {t} : worker'[a][u] = worker[a][u]
           /\ \A b \in Agents \ {a} : worker'[b] = worker[b]
<1> USE DEF TypeOK, AgentTypeOK
<1> DEFINE Alone == /\ \A u \in Threads \ {t} : worker'[a][u] = worker[a][u]
                    /\ \A b \in Agents \ {a} : worker'[b] = worker[b]
<1>1. ASSUME NEW x, worker' = [worker EXCEPT ![a][t] = x] PROVE Alone
  BY <1>1
<1>2. ASSUME NEW pc, worker' = [worker EXCEPT ![a][t].pc = pc] PROVE Alone
  BY <1>2
<1> HIDE DEF Alone
<1>3. ASSUME WakeUp(a, t) PROVE Alone
  BY <1>2, <1>3 DEF WakeUp
<1>4. ASSUME StartTraffic(a, t) PROVE Alone
  BY <1>1, <1>4 DEF StartTraffic
<1>5. ASSUME NEW status \in Statuses, Finish(a, t, status) PROVE Alone
  BY <1>2, <1>5 DEF Finish
<1>6. ASSUME Release(a, t) PROVE Alone
  BY <1>2, <1>6 DEF Release
<1>7. ASSUME GoIdle(a, t) PROVE Alone
  BY <1>1, <1>7 DEF GoIdle
<1>8. Alone
  BY <1>3, <1>4, <1>5, <1>6, <1>7 DEF WorkerThread
<1> QED BY <1>8 DEF Alone

LEMMA WorkerEffect ==
    ASSUME TypeOK, NEW a \in Agents, NEW t \in Threads, WorkerThread(a, t)
    PROVE  /\ t \in Live(a)
           /\ Live(a)' \subseteq Live(a)
           /\ UNCHANGED <<inbox, arming, online, session, outbox>>
           /\ \/ state'[a] \in {"RUNNING", "REPORTING", "IDLE"}
              \/ UNCHANGED state /\ worker[a][t].pc # "sleeping"
<1> USE DEF TypeOK, AgentTypeOK, SetState
<1> DEFINE Effect ==
      /\ worker[a][t].pc # "none"
      /\ UNCHANGED <<inbox, arming, online, session, outbox>>
      /\ \/ state'[a] \in {"RUNNING", "REPORTING", "IDLE"}
         \/ UNCHANGED state /\ worker[a][t].pc # "sleeping"
<1>1. ASSUME WakeUp(a, t) PROVE Effect
  BY <1>1 DEF WakeUp, netVars
<1>2. ASSUME StartTraffic(a, t) PROVE Effect
  BY <1>2 DEF StartTraffic
<1>3. ASSUME NEW status \in Statuses, Finish(a, t, status) PROVE Effect
  BY <1>3 DEF Finish, CanEnd
<1>4. ASSUME Release(a, t) PROVE Effect
  BY <1>4 DEF Release, netVars
<1>5. ASSUME GoIdle(a, t) PROVE Effect
  BY <1>5 DEF GoIdle, netVars
<1>6. Effect
  BY <1>1, <1>2, <1>3, <1>4, <1>5 DEF WorkerThread
<1>7. \A u \in Threads \ {t} : worker'[a][u] = worker[a][u]
  BY ThreadAlone
<1> QED BY <1>6, <1>7 DEF Live

LEMMA OthersUntouched ==
    ASSUME TypeOK, NEW a \in Agents, AgentStep(a), NEW b \in Agents \ {a}
    PROVE  /\ state'[b] = state[b] /\ runId'[b] = runId[b] /\ cfg'[b] = cfg[b]
           /\ arming'[b] = arming[b] /\ worker'[b] = worker[b] /\ inbox'[b] = inbox[b]
           /\ Live(b)' = Live(b)
           /\ b \in online' <=> b \in online
<1> USE DEF TypeOK, AgentTypeOK, NetTypeOK, SetState
<1>1. CASE MqttThread(a)
  <2>1. ASSUME NEW x, worker' = [worker EXCEPT ![a] = x] \/ UNCHANGED worker
        PROVE  worker'[b] = worker[b]
    BY <2>1
  <2>2. worker'[b] = worker[b]
    BY <1>1 DEF MqttThread, HandlePrepare, HandleStartAt, HandleStop, HandleTeardown, FinishPrepare
  <2>3. /\ state'[b] = state[b] /\ runId'[b] = runId[b] /\ cfg'[b] = cfg[b]
        /\ arming'[b] = arming[b]
    BY <1>1 DEF MqttThread, HandlePrepare, HandleStartAt, HandleStop, HandleTeardown, FinishPrepare
  <2>4. inbox'[b] = inbox[b] /\ UNCHANGED online
    BY <1>1 DEF MqttThread, HandlePrepare, HandleStartAt, HandleStop, HandleTeardown,
       FinishPrepare, Takes
  <2> QED BY <2>2, <2>3, <2>4 DEF Live
<1>2. ASSUME NEW t \in Threads, WorkerThread(a, t)
      PROVE  /\ state'[b] = state[b] /\ runId'[b] = runId[b] /\ cfg'[b] = cfg[b]
             /\ arming'[b] = arming[b] /\ worker'[b] = worker[b] /\ inbox'[b] = inbox[b]
             /\ UNCHANGED online
  <2>1. worker'[b] = worker[b]
    BY <1>2, ThreadAlone
  <2>2. state'[b] = state[b] /\ runId'[b] = runId[b] /\ cfg'[b] = cfg[b]
    BY <1>2 DEF WorkerThread, WakeUp, StartTraffic, Finish, Release, GoIdle
  <2> QED BY <1>2, <2>1, <2>2, WorkerEffect
<1>3. CASE Crash(a)
  BY <1>3 DEF Crash, Live
<1>4. CASE BootDone(a) \/ Restart(a)
  BY <1>4 DEF BootDone, Restart, Live, netVars
<1>5. CASE Network(a)
  BY <1>5 DEF Network, LinkLost, Reconnect, Live, agentVars
<1> QED BY <1>1, <1>2, <1>3, <1>4, <1>5 DEF AgentStep, Live

(***************************************************************************)
(* ArmedAt is kept by the agent itself.                                    *)
(***************************************************************************)
LEMMA ArmedByItself ==
    ASSUME TypeOK, NEW a \in Agents, PreparesFirst(inbox[a]), ArmedAt(a), AgentStep(a)
    PROVE  ArmedAt(a)'
<1> USE NetAssumption DEF TypeOK, AgentTypeOK, NetTypeOK, SetState
<1>1. inbox[a] \in Seq(Command)
  OBVIOUS
<1>2. ASSUME NEW r \in Runs, HandlePrepare(a, r) PROVE ArmedAt(a)'
  <2>1. inbox[a] # << >> /\ Head(inbox[a]).cmd = "prepare" /\ arming[a] = NoRun
    BY <1>2 DEF HandlePrepare, Takes
  <2>2. Live(a) = {}
    BY <1>1, <2>1, NoPrepareTail DEF ArmedAt
  <2>3. Live(a)' = {}
    BY <1>2, <2>2 DEF HandlePrepare, Live
  <2>4. \/ state'[a] = "PREPARING" /\ cfg'[a] = r /\ runId'[a] = r /\ arming'[a] = r
        \/ UNCHANGED <<state, runId, cfg, arming>>
    BY <1>2 DEF HandlePrepare
  <2> QED BY <2>1, <2>3, <2>4 DEF ArmedAt
<1>3. CASE FinishPrepare(a)
  <2>1. Live(a) = {} /\ Live(a)' = {} /\ arming[a] # NoRun
    BY <1>3 DEF FinishPrepare, ArmedAt, Live
  <2>2. arming'[a] = NoRun /\ UNCHANGED <<runId, cfg>>
    BY <1>3 DEF FinishPrepare
  <2> QED BY <2>1, <2>2 DEF ArmedAt
<1>4. ASSUME NEW r \in Runs, HandleStartAt(a, r) PROVE ArmedAt(a)'
  <2>1. /\ inbox[a] # << >> /\ Head(inbox[a]).cmd = "start_at" /\ arming[a] = NoRun
        /\ inbox'[a] = Tail(inbox[a])
    BY <1>4 DEF HandleStartAt, Takes
  <2>2. NoPrepare(inbox'[a])
    BY <1>1, <2>1, NoPrepareTail
  <2>3. UNCHANGED <<state, runId, cfg, arming>>
    BY <1>4 DEF HandleStartAt
  <2>4. ASSUME NEW t \in Live(a)', worker'[a][t].pc # "sleeping"
        PROVE  state[a] # "ARMED"
    <3>1. CASE UNCHANGED worker
      BY <2>4, <3>1 DEF ArmedAt, Live
    <3>2. ASSUME NEW u \in Threads,
                 worker' = [worker EXCEPT ![a][u] =
                     [pc |-> "sleeping", run |-> r, cfg |-> NoRun]]
          PROVE  state[a] # "ARMED"
      <4>1. t # u
        BY <2>4, <3>2
      <4>2. worker'[a][t] = worker[a][t]
        BY <2>4, <3>2, <4>1 DEF Live
      <4> QED BY <2>4, <4>2 DEF ArmedAt, Live
    <3> QED BY <1>4, <3>1, <3>2 DEF HandleStartAt
  <2> QED BY <2>1, <2>2, <2>3, <2>4 DEF ArmedAt
<1>5. ASSUME NEW r \in Runs, HandleStop(a, r) \/ HandleTeardown(a, r) PROVE ArmedAt(a)'
  <2>1. /\ inbox[a] # << >> /\ inbox'[a] = Tail(inbox[a])
        /\ UNCHANGED <<runId, cfg, arming, worker>>
    BY <1>5 DEF HandleStop, HandleTeardown, Takes
  <2>2. NoPrepare(inbox[a]) => NoPrepare(inbox'[a])
    BY <1>1, <2>1, NoPrepareTail
  <2>3. UNCHANGED state \/ state'[a] = "IDLE"
    BY <1>5 DEF HandleStop, HandleTeardown
  <2> QED BY <2>1, <2>2, <2>3 DEF ArmedAt, Live
<1>6. ASSUME NEW t \in Threads, WorkerThread(a, t) PROVE ArmedAt(a)'
  <2>1. /\ t \in Live(a) /\ Live(a)' \subseteq Live(a) /\ UNCHANGED <<inbox, arming>>
        /\ \/ state'[a] \in {"RUNNING", "REPORTING", "IDLE"}
           \/ UNCHANGED state /\ worker[a][t].pc # "sleeping"
    BY <1>6, WorkerEffect
  <2>2. state'[a] # "ARMED" /\ arming[a] = NoRun /\ NoPrepare(inbox[a])
    BY <2>1 DEF ArmedAt
  <2> QED BY <2>1, <2>2 DEF ArmedAt
<1>7. CASE BootDone(a) \/ Restart(a)
  <2>1. /\ state'[a] \in {"IDLE", "BOOT"}
        /\ UNCHANGED <<runId, cfg, arming, worker, inbox>>
    BY <1>7 DEF BootDone, Restart, netVars
  <2> QED BY <2>1 DEF ArmedAt, Live
<1>8. CASE Crash(a)
  <2>1. Live(a)' = {}
    BY <1>8 DEF Crash, Live, NoWorker
  <2>2. state'[a] = "OFFLINE" /\ arming'[a] = NoRun
    BY <1>8 DEF Crash
  <2> QED BY <2>1, <2>2 DEF ArmedAt
<1>9. CASE Network(a)
  <2>1. UNCHANGED <<state, runId, cfg, arming, worker>>
    BY <1>9 DEF Network, agentVars
  <2>2. inbox'[a] = inbox[a] \/ inbox'[a] = << >>
    BY <1>9 DEF Network, LinkLost, Reconnect
  <2> QED BY <2>1, <2>2, NoPrepareEmpty DEF ArmedAt, Live
<1> QED BY <1>2, <1>3, <1>4, <1>5, <1>6, <1>7, <1>8, <1>9 DEF AgentStep, MqttThread

(***************************************************************************)
(* What an agent does leaves the prepares first, and nothing wakes up in   *)
(* an agent that has received nothing.                                     *)
(***************************************************************************)
LEMMA PreparesByAgent ==
    ASSUME TypeOK, PrepareOnce, NEW a \in Agents, AgentStep(a), UNCHANGED ctrlVars
    PROVE  PrepareOnce'
<1> USE DEF TypeOK, AgentTypeOK, NetTypeOK
<1>1. UNCHANGED <<session, outbox, phase>>
  <2>1. CASE MqttThread(a)
    BY <2>1 DEF MqttThread, HandlePrepare, HandleStartAt, HandleStop, HandleTeardown,
       FinishPrepare, Takes, ctrlVars
  <2>2. ASSUME NEW t \in Threads, WorkerThread(a, t) PROVE UNCHANGED <<session, outbox, phase>>
    BY <2>2, WorkerEffect DEF ctrlVars
  <2>3. CASE BootDone(a) \/ Restart(a) \/ Crash(a)
    BY <2>3 DEF BootDone, Restart, Crash, netVars, ctrlVars
  <2>4. CASE Network(a)
    BY <2>4 DEF Network, LinkLost, Reconnect, ctrlVars
  <2> QED BY <2>1, <2>2, <2>3, <2>4 DEF AgentStep
<1>2. \/ inbox'[a] = inbox[a]
      \/ inbox'[a] = << >>
      \/ inbox[a] # << >> /\ inbox'[a] = Tail(inbox[a])
  <2>1. CASE MqttThread(a)
    BY <2>1 DEF MqttThread, HandlePrepare, HandleStartAt, HandleStop, HandleTeardown,
       FinishPrepare, Takes
  <2>2. ASSUME NEW t \in Threads, WorkerThread(a, t) PROVE UNCHANGED inbox
    BY <2>2, WorkerEffect
  <2>3. CASE BootDone(a) \/ Restart(a) \/ Crash(a)
    BY <2>3 DEF BootDone, Restart, Crash, netVars
  <2>4. CASE Network(a)
    BY <2>4 DEF Network, LinkLost, Reconnect
  <2> QED BY <2>1, <2>2, <2>3, <2>4 DEF AgentStep
<1>3. inbox[a] = << >> /\ Live(a) = {} => Live(a)' = {}
  <2>1. CASE \E r \in Runs : HandleStartAt(a, r)
    BY <2>1 DEF HandleStartAt, Takes
  <2>2. ASSUME NEW t \in Threads, WorkerThread(a, t) PROVE Live(a)' \subseteq Live(a)
    BY <2>2, WorkerEffect
  <2>3. CASE Crash(a)
    BY <2>3 DEF Crash, Live, NoWorker
  <2>4. CASE UNCHANGED worker
    BY <2>4 DEF Live
  <2> QED BY <2>1, <2>2, <2>3, <2>4 DEF AgentStep, MqttThread, HandlePrepare, HandleStop,
          HandleTeardown, FinishPrepare, BootDone, Restart, Network, agentVars
<1>4. PreparesFirst(inbox'[a])
  <2>1. inbox[a] \in Seq(Command) /\ PreparesFirst(inbox[a])
    BY DEF PrepareOnce
  <2>2. inbox[a] # << >> => PreparesFirst(Tail(inbox[a]))
    BY <2>1, NoPrepareTail
  <2> QED BY <1>2, <2>1, <2>2, NoPrepareEmpty
<1>5. inbox[a] = << >> => inbox'[a] = << >>
  BY <1>2
<1>6. \A b \in Agents \ {a} : inbox'[b] = inbox[b] /\ Live(b)' = Live(b)
  BY OthersUntouched
<1> QED BY <1>1, <1>3, <1>4, <1>5, <1>6 DEF PrepareOnce

(***************************************************************************)
(* The one run publishes its prepare first, to agents that have heard      *)
(* nothing, and no prepare later.                                          *)
(***************************************************************************)
LEMMA FirstPublish ==
    ASSUME TypeOK, OneRun, PrepareOnce, ArmedOnce, NEW r \in Runs, phase[r] = "connected",
           Publish(r, "prepare"), UNCHANGED <<session, worker>>, phase'[r] = "preparing"
    PROVE  PrepareOnce' /\ \A a \in Agents : Live(a)' = {}
<1> USE DEF TypeOK, NetTypeOK, CtrlTypeOK
<1> DEFINE m == [cmd |-> "prepare", run |-> r]
<1>1. m \in Command /\ m.cmd = "prepare"
  BY DEF Command, Commands
<1>2. \A a \in Agents : inbox[a] = << >> /\ Live(a) = {} /\ Live(a)' = {}
  BY DEF PrepareOnce, Live
<1>3. outbox[r] = << >>
  BY DEF PrepareOnce
<1>4. PreparesFirst(<<m>>) /\ PreparesFirst(<<m, m>>)
  BY <1>1, PreparesOnly
<1>5. \A q \in Runs : q = r
  BY DEF OneRun
<1> HIDE DEF m
<1>6. CASE session = r /\ (Forward(<<m>>) \/ Forward(<<m, m>>)) /\ UNCHANGED outbox
  <2>1. ASSUME NEW ms \in {<<m>>, <<m, m>>}, Forward(ms), NEW a \in Agents
        PROVE  PreparesFirst(inbox'[a])
    <3>1. << >> \o ms = ms
      BY <1>1, <2>1
    <3>2. inbox'[a] = ms \/ inbox'[a] = << >>
      BY <1>2, <2>1, <3>1 DEF Forward
    <3> QED BY <1>4, <2>1, <3>2, NoPrepareEmpty
  <2>2. NoPrepare(outbox'[r]) /\ outbox'[r] = << >>
    BY <1>3, <1>6, NoPrepareEmpty
  <2> QED BY <1>2, <1>5, <1>6, <2>1, <2>2, NoPrepareEmpty DEF PrepareOnce
<1>7. CASE session # r /\ outbox' = [outbox EXCEPT ![r] = Append(@, m)] /\ UNCHANGED inbox
  <2>1. Append(<< >>, m) = <<m>>
    BY <1>1
  <2>2. outbox'[r] = <<m>>
    BY <1>3, <1>7, <2>1
  <2> QED BY <1>2, <1>4, <1>5, <1>7, <2>2, NoPrepareEmpty DEF PrepareOnce
<1> QED BY <1>6, <1>7 DEF Publish, m

LEMMA LaterPublish ==
    ASSUME TypeOK, OneRun, PrepareOnce, NEW r \in Runs, phase[r] \in UnderWay,
           NEW c \in Commands \ {"prepare"}, Publish(r, c), UNCHANGED <<session, worker>>,
           phase'[r] \notin {"new", "connected"}
    PROVE  PrepareOnce' /\ \A a \in Agents : NoPrepare(inbox[a]) => NoPrepare(inbox'[a])
<1> USE DEF TypeOK, NetTypeOK, CtrlTypeOK
<1> DEFINE m == [cmd |-> c, run |-> r]
<1>1. m \in Command /\ m.cmd # "prepare" /\ <<m>> \in Seq(Command) /\ <<m, m>> \in Seq(Command)
  BY DEF Command
<1>2. NoPrepare(<<m>>) /\ NoPrepare(<<m, m>>)
  BY <1>1 DEF NoPrepare
<1>3. \A a \in Agents : inbox[a] \in Seq(Command) /\ Live(a)' = Live(a)
  BY DEF Live
<1>4. \A q \in Runs : q = r
  BY DEF OneRun
<1> HIDE DEF m
<1>5. CASE session = r /\ (Forward(<<m>>) \/ Forward(<<m, m>>)) /\ UNCHANGED outbox
  <2>1. ASSUME NEW ms \in {<<m>>, <<m, m>>}, Forward(ms), NEW a \in Agents
        PROVE  /\ PreparesFirst(inbox'[a])
               /\ NoPrepare(inbox[a]) => NoPrepare(inbox'[a])
    <3>1. inbox'[a] = inbox[a] \o ms \/ inbox'[a] = inbox[a]
      BY <2>1 DEF Forward
    <3>2. ms \in Seq(Command) /\ NoPrepare(ms)
      BY <1>1, <1>2
    <3>3. /\ NoPrepare(inbox[a]) => NoPrepare(inbox[a] \o ms)
          /\ PreparesFirst(inbox[a]) => PreparesFirst(inbox[a] \o ms)
      BY <1>3, <3>2, NoPrepareConcat
    <3> QED BY <3>1, <3>3 DEF PrepareOnce
  <2>2. outbox[r] = << >> /\ NoPrepare(outbox'[r])
    BY <1>5, NoPrepareEmpty DEF PrepareOnce
  <2> QED BY <1>3, <1>4, <1>5, <2>1, <2>2, NoPrepareEmpty DEF PrepareOnce
<1>6. CASE session # r /\ outbox' = [outbox EXCEPT ![r] = Append(@, m)] /\ UNCHANGED inbox
  <2>1. outbox[r] \in Seq(Command) /\ outbox'[r] = Append(outbox[r], m)
    BY <1>6
  <2>2. /\ NoPrepare(outbox[r]) => NoPrepare(outbox'[r])
        /\ PreparesFirst(outbox[r]) => PreparesFirst(outbox'[r])
    BY <1>1, <2>1, NoPrepareAppend
  <2> QED BY <1>3, <1>4, <1>6, <2>2 DEF PrepareOnce
<1> QED BY <1>5, <1>6 DEF Publish, m

(***************************************************************************)
(* What its bus had queued is sent when it holds the session: the prepare  *)
(* only to agents that have heard nothing.                                 *)
(***************************************************************************)
LEMMA QueueSent ==
    ASSUME TypeOK, OneRun, PrepareOnce, ArmedOnce, NEW r \in Runs, TakeSession(r),
           UNCHANGED worker, phase[r] \notin {"new", "connected"} => phase'[r] \notin {"new", "connected"}
    PROVE  /\ PrepareOnce'
           /\ \A a \in Agents : Live(a) # {} /\ NoPrepare(inbox[a]) => NoPrepare(inbox'[a])
<1> USE DEF TypeOK, NetTypeOK, CtrlTypeOK
<1>1. outbox[r] \in Seq(Command) /\ outbox'[r] = << >> /\ session' = r
  BY DEF TakeSession
<1>2. \A q \in Runs : q = r
  BY DEF OneRun
<1>3. ASSUME NEW a \in Agents
      PROVE  /\ PreparesFirst(inbox'[a])
             /\ Live(a) # {} /\ NoPrepare(inbox[a]) => NoPrepare(inbox'[a])
             /\ outbox[r] = << >> => inbox'[a] = inbox[a]
  <2>1. inbox[a] \in Seq(Command) /\ PreparesFirst(inbox[a]) /\ PreparesFirst(outbox[r])
    BY DEF PrepareOnce
  <2>2. inbox'[a] = inbox[a] \o outbox[r] \/ inbox'[a] = inbox[a]
    BY DEF TakeSession, Forward
  <2>3. CASE NoPrepare(outbox[r])
    <3>1. /\ NoPrepare(inbox[a]) => NoPrepare(inbox[a] \o outbox[r])
          /\ PreparesFirst(inbox[a]) => PreparesFirst(inbox[a] \o outbox[r])
      BY <1>1, <2>1, <2>3, NoPrepareConcat
    <3>2. outbox[r] = << >> => inbox[a] \o outbox[r] = inbox[a]
      BY <2>1
    <3> QED BY <2>1, <2>2, <3>1, <3>2
  <2>4. CASE inbox[a] = << >> /\ Live(a) = {}
    <3>1. << >> \o outbox[r] = outbox[r]
      BY <1>1
    <3> QED BY <2>1, <2>2, <2>4, <3>1
  <2> QED BY <2>3, <2>4 DEF PrepareOnce
<1>4. \A a \in Agents : Live(a)' = Live(a)
  BY DEF Live
<1>5. phase[r] \in {"new", "connected"} => outbox[r] = << >> /\ \A a \in Agents : inbox[a] = << >>
  BY DEF PrepareOnce
<1> QED BY <1>1, <1>2, <1>3, <1>4, <1>5, NoPrepareEmpty DEF PrepareOnce

LEMMA PrepareOnceStep ==
    ASSUME TypeOK, OneRun, PrepareOnce, ArmedOnce, [Next]_vars
    PROVE  PrepareOnce' /\ ArmedOnce'
<1> USE DEF TypeOK, NetTypeOK, CtrlTypeOK, SetPhase
<1>1. ASSUME NEW a \in Agents, AgentStep(a), UNCHANGED ctrlVars
      PROVE  PrepareOnce' /\ ArmedOnce'
  <2>1. PrepareOnce'
    BY <1>1, PreparesByAgent
  <2>2. ArmedAt(a)'
    BY <1>1, ArmedByItself DEF PrepareOnce, ArmedOnce
  <2>3. ASSUME NEW b \in Agents \ {a} PROVE ArmedAt(b)'
    <3>1. /\ state'[b] = state[b] /\ runId'[b] = runId[b] /\ cfg'[b] = cfg[b]
          /\ arming'[b] = arming[b] /\ worker'[b] = worker[b] /\ inbox'[b] = inbox[b]
          /\ Live(b)' = Live(b)
      BY <1>1, <2>3, OthersUntouched
    <3>2. ArmedAt(b)
      BY <2>3 DEF ArmedOnce
    <3> QED BY <3>1, <3>2 DEF ArmedAt
  <2> QED BY <2>1, <2>2, <2>3 DEF ArmedOnce
<1>2. ASSUME UNCHANGED agentVars,
             \A a \in Agents : Live(a) # {} /\ NoPrepare(inbox[a]) => NoPrepare(inbox'[a])
      PROVE  ArmedOnce'
  <2>1. \A a \in Agents : Live(a)' = Live(a)
    BY <1>2 DEF agentVars, Live
  <2> QED BY <1>2, <2>1 DEF agentVars, ArmedOnce, ArmedAt
<1>3. ASSUME NEW r \in Runs, ControllerStep(r), UNCHANGED agentVars
      PROVE  PrepareOnce' /\ ArmedOnce'
  <2> USE <1>3
  <2>0. UNCHANGED worker
    BY DEF agentVars
  <2>1. CASE Connect(r) \/ Resume(r)
    <3>1. TakeSession(r) /\ (phase[r] \notin {"new", "connected"} => phase'[r] \notin {"new", "connected"})
      BY <2>1 DEF Connect, Resume, ctrlVars
    <3>2. /\ PrepareOnce'
          /\ \A a \in Agents : Live(a) # {} /\ NoPrepare(inbox[a]) => NoPrepare(inbox'[a])
      BY <2>0, <3>1, QueueSent
    <3> QED BY <1>2, <3>2
  <2>2. CASE Begin(r)
    <3>1. /\ Publish(r, "prepare") /\ phase[r] = "connected" /\ phase'[r] = "preparing"
          /\ UNCHANGED session
      BY <2>2 DEF Begin
    <3>2. PrepareOnce' /\ \A a \in Agents : Live(a)' = {}
      BY <2>0, <2>2, <3>1, FirstPublish
    <3>3. \A a \in Agents : Live(a) = {}
      BY <2>0, <3>2 DEF Live
    <3> QED BY <1>2, <3>2, <3>3
  <2>3. CASE StartRun(r) \/ AckTimeout(r) \/ StopRun(r) \/ Conclude(r)
    <3>1. PICK c \in Commands \ {"prepare"} : Publish(r, c)
      BY <2>3 DEF StartRun, AckTimeout, StopRun, Conclude, Commands
    <3>2. /\ phase[r] \in UnderWay /\ UNCHANGED session
          /\ phase'[r] \notin {"new", "connected"}
      BY <2>3 DEF StartRun, AckTimeout, StopRun, Conclude, UnderWay
    <3>3. PrepareOnce' /\ \A a \in Agents : NoPrepare(inbox[a]) => NoPrepare(inbox'[a])
      BY <2>0, <3>1, <3>2, LaterPublish
    <3> QED BY <1>2, <3>3
  <2>4. CASE UNCHANGED <<inbox, outbox, session>> /\ phase'[r] \notin {"new", "connected"}
    <3>1. \A q \in Runs : q = r
      BY DEF OneRun
    <3>2. \A a \in Agents : Live(a)' = Live(a)
      BY <2>0 DEF Live
    <3> QED BY <1>2, <2>4, <3>1, <3>2 DEF PrepareOnce
  <2>5. CASE Close(r)
    <3>1. \A q \in Runs : q = r
      BY DEF OneRun
    <3>2. \A a \in Agents : Live(a)' = Live(a)
      BY <2>0 DEF Live
    <3>3. outbox'[r] = << >> /\ UNCHANGED <<inbox, phase>>
      BY <2>5 DEF Close, DropSession
    <3> QED BY <1>2, <3>1, <3>2, <3>3, NoPrepareEmpty DEF PrepareOnce
  <2>6. CASE StartServer(r) \/ StopServer(r)
    <3>1. UNCHANGED <<inbox, outbox, session, phase>>
      BY <2>6 DEF StartServer, StopServer
    <3>2. \A a \in Agents : Live(a)' = Live(a)
      BY <2>0 DEF Live
    <3> QED BY <1>2, <3>1, <3>2 DEF PrepareOnce
  <2>7. CASE StartDownlinkClients(r) \/ SpawnFails(r) \/ Interrupt(r)
    <3>1. UNCHANGED <<inbox, outbox, session>>
      BY <2>7 DEF StartDownlinkClients, SpawnFails, Interrupt
    <3>2. phase'[r] \notin {"new", "connected"}
      BY <2>7 DEF StartDownlinkClients, SpawnFails, Interrupt, Ended
    <3> QED BY <2>4, <3>1, <3>2
  <2> QED BY <2>1, <2>2, <2>3, <2>5, <2>6, <2>7 DEF ControllerStep, RunStep
<1>4. CASE UNCHANGED <<inbox, outbox, phase, agentVars>> /\ session' \in {session, NoRun}
  <2>1. \A a \in Agents : Live(a)' = Live(a)
    BY <1>4 DEF Live, agentVars
  <2> QED BY <1>2, <1>4, <2>1, NetAssumption DEF PrepareOnce, NetAssumption
<1>5. CASE Broker /\ UNCHANGED agentVars
  BY <1>4, <1>5 DEF Broker, Deliver, ControllerLinkLost, ctrlVars
<1>6. ASSUME NEW a \in Agents, Heartbeat(a), UNCHANGED agentVars
      PROVE  PrepareOnce' /\ ArmedOnce'
  BY <1>4, <1>6 DEF Heartbeat, OnAgentHeartbeat, netVars
<1>7. CASE UNCHANGED vars
  BY <1>4, <1>7 DEF vars, netVars, ctrlVars
<1> QED BY <1>1, <1>3, <1>5, <1>6, <1>7 DEF Next

(***************************************************************************)
(* While there is one run, an ARMED agent holds the configuration of the   *)
(* prepare it acknowledged, whatever is duplicated, lost or restarted: the *)
(* prepare has been handled before there is a thread, and the thread that  *)
(* clears the configuration has said RUNNING before.  (The second run is   *)
(* what the run StaleWorker is about.)                                     *)
(***************************************************************************)
THEOREM ArmedIsConfigured ==
    ASSUME OneRun
    PROVE  Spec => []ArmedHasConfig
<1>1. Init => PrepareOnce /\ ArmedOnce
  <2> SUFFICES ASSUME Init PROVE PrepareOnce /\ ArmedOnce
    OBVIOUS
  <2>1. \A a \in Agents : Live(a) = {}
    BY DEF Init, AgentInit, Live, NoWorker
  <2> QED BY <2>1, NoPrepareEmpty DEF Init, NetInit, AgentInit, CtrlInit, PrepareOnce,
          ArmedOnce, ArmedAt
<1>2. TypeOK /\ PrepareOnce /\ ArmedOnce /\ [Next]_vars => PrepareOnce' /\ ArmedOnce'
  BY PrepareOnceStep
<1>3. ArmedOnce => ArmedHasConfig
  BY DEF ArmedOnce, ArmedAt, ArmedHasConfig
<1> QED BY <1>1, <1>2, <1>3, TypeCorrect, PTL DEF Spec

-----------------------------------------------------------------------------

(***************************************************************************)
(* A run past its acks has been started, one before has not.               *)
(***************************************************************************)
PhaseMatches ==
    \A r \in Runs :
        /\ phase[r] \in {"armed", "running", "collecting", "done"} => r \in started
        /\ phase[r] \in {"new", "connected", "preparing"} => r \notin started

LEMMA PhaseStep ==
    ASSUME TypeOK, PhaseMatches, [Next]_vars
    PROVE  PhaseMatches'
<1> USE DEF TypeOK, CtrlTypeOK
<1>1. CASE UNCHANGED <<phase, started>>
  BY <1>1 DEF PhaseMatches
<1>2. ASSUME NEW r \in Runs, ControllerStep(r) PROVE PhaseMatches'
  <2>1. CASE StartRun(r)
    BY <2>1 DEF StartRun, SetPhase, PhaseMatches
  <2>2. CASE UNCHANGED started /\ phase[r] = "new" /\ SetPhase(r, "connected")
    BY <2>2 DEF SetPhase, PhaseMatches
  <2>3. CASE UNCHANGED started /\ phase[r] = "connected" /\ SetPhase(r, "preparing")
    BY <2>3 DEF SetPhase, PhaseMatches
  <2>4. ASSUME NEW p \in {"failed", "aborted"}, UNCHANGED started, SetPhase(r, p)
        PROVE  PhaseMatches'
    BY <2>4 DEF SetPhase, PhaseMatches
  <2>5. ASSUME NEW p \in {"running", "collecting", "done"}, UNCHANGED started, SetPhase(r, p),
               phase[r] \in {"armed", "running", "collecting"}
        PROVE  PhaseMatches'
    BY <2>5 DEF SetPhase, PhaseMatches
  <2>6. CASE Interrupt(r)
    BY <2>6 DEF Interrupt, Ended, PhaseMatches
  <2> QED BY <1>1, <1>2, <2>1, <2>2, <2>3, <2>4, <2>5, <2>6 DEF ControllerStep, RunStep, Connect,
          Begin, AckTimeout, StartDownlinkClients, StopRun, Conclude, Close, Resume, StartServer,
          StopServer, SpawnFails, ctrlVars
<1> QED BY <1>1, <1>2 DEF Next, Heartbeat, OnAgentHeartbeat, Broker, Deliver,
        ControllerLinkLost, vars, ctrlVars

(***************************************************************************)
(* While there is one run and nothing is sent twice, there is one start_at *)
(* and each agent makes at most one thread of it: as long as the start_at  *)
(* waits, in the bus or before the agent, there is no thread.              *)
(***************************************************************************)
NoStart(s) == OnlyStarted(s, {})

StartsOnce(s) ==
    \A i, j \in DOMAIN s : i < j /\ s[j].cmd = "start_at" => s[i].cmd # "start_at"

OneThread(a) ==
    /\ StartsOnce(inbox[a])
    /\ \A r \in Runs : NoStart(inbox[a]) \/ NoStart(outbox[r])
    /\ Live(a) # {} => NoStart(inbox[a]) /\ \A r \in Runs : NoStart(outbox[r])
    /\ \A t, u \in Live(a) : t = u

(***************************************************************************)
(* The configuration a thread will read, or has read, is its run's.        *)
(***************************************************************************)
Own(a, t) ==
    /\ worker[a][t].pc \in {"sleeping", "awake"} => cfg[a] = worker[a][t].run
    /\ worker[a][t].pc \in {"client", "server", "refused"}
           => worker[a][t].cfg = worker[a][t].run

StartedOnce ==
    /\ \A r \in Runs : StartsOnce(outbox[r])
    /\ \A a \in Agents : OneThread(a) /\ \A t \in Threads : Own(a, t)

LEMMA StartsOnceConcat ==
    ASSUME NEW s \in Seq(Command), NEW m \in Seq(Command), StartsOnce(s), StartsOnce(m),
           NoStart(s) \/ NoStart(m)
    PROVE  StartsOnce(s \o m)
<1> SUFFICES ASSUME NEW i \in DOMAIN (s \o m), NEW j \in DOMAIN (s \o m), i < j,
                    (s \o m)[j].cmd = "start_at"
             PROVE  (s \o m)[i].cmd # "start_at"
  BY DEF StartsOnce
<1>1. CASE j <= Len(s)
  <2>1. i \in DOMAIN s /\ j \in DOMAIN s /\ (s \o m)[i] = s[i] /\ (s \o m)[j] = s[j]
    BY <1>1
  <2> QED BY <2>1 DEF StartsOnce
<1>2. CASE i > Len(s)
  <2>1. /\ i - Len(s) \in DOMAIN m /\ j - Len(s) \in DOMAIN m /\ i - Len(s) < j - Len(s)
        /\ (s \o m)[i] = m[i - Len(s)] /\ (s \o m)[j] = m[j - Len(s)]
    BY <1>2
  <2> QED BY <2>1 DEF StartsOnce
<1>3. CASE i <= Len(s) /\ j > Len(s)
  <2>1. /\ i \in DOMAIN s /\ j - Len(s) \in DOMAIN m
        /\ (s \o m)[i] = s[i] /\ (s \o m)[j] = m[j - Len(s)]
    BY <1>3
  <2> QED BY <2>1 DEF NoStart, OnlyStarted
<1> QED BY <1>1, <1>2, <1>3

LEMMA StartsOnceTail ==
    ASSUME NEW s \in Seq(Command), s # << >>, StartsOnce(s)
    PROVE  /\ StartsOnce(Tail(s))
           /\ Head(s).cmd = "start_at" => ~NoStart(s) /\ NoStart(Tail(s))
           /\ NoStart(s) => NoStart(Tail(s))
<1>1. ASSUME NEW i \in DOMAIN Tail(s), NEW j \in DOMAIN Tail(s), i < j,
             Tail(s)[j].cmd = "start_at"
      PROVE  Tail(s)[i].cmd # "start_at"
  <2>1. /\ i + 1 \in DOMAIN s /\ j + 1 \in DOMAIN s /\ i + 1 < j + 1
        /\ Tail(s)[i] = s[i + 1] /\ Tail(s)[j] = s[j + 1]
    BY <1>1
  <2> QED BY <1>1, <2>1 DEF StartsOnce
<1>2. 1 \in DOMAIN s /\ s[1] = Head(s)
  OBVIOUS
<1>3. ASSUME Head(s).cmd = "start_at", NEW j \in DOMAIN Tail(s)
      PROVE  Tail(s)[j].cmd # "start_at"
  <2>1. j + 1 \in DOMAIN s /\ 1 < j + 1 /\ Tail(s)[j] = s[j + 1]
    OBVIOUS
  <2> QED BY <1>2, <1>3, <2>1 DEF StartsOnce
<1> QED BY <1>1, <1>2, <1>3, OnlyStartedTail DEF StartsOnce, NoStart, OnlyStarted

LEMMA StartsOnceEmpty == NoStart(<< >>) /\ StartsOnce(<< >>)
BY DEF NoStart, OnlyStarted, StartsOnce

(***************************************************************************)
(* What an agent does keeps its one thread and that thread's configuration.*)
(***************************************************************************)
LEMMA OneThreadByItself ==
    ASSUME TypeOK, OneRun, NEW a \in Agents, AgentStep(a), UNCHANGED outbox,
           PreparesFirst(inbox[a]), ArmedAt(a), OneThread(a), \A t \in Threads : Own(a, t)
    PROVE  OneThread(a)' /\ \A t \in Threads : Own(a, t)'
<1> USE DEF TypeOK, AgentTypeOK, NetTypeOK, SetState
<1> DEFINE Goal == OneThread(a)' /\ \A t \in Threads : Own(a, t)'
<1>1. inbox[a] \in Seq(Command)
  OBVIOUS
<1> DEFINE Kept == /\ worker' = worker /\ cfg' = cfg
                   /\ \/ inbox'[a] = inbox[a]
                      \/ inbox'[a] = << >>
                      \/ inbox[a] # << >> /\ inbox'[a] = Tail(inbox[a])
<1>2. ASSUME Kept PROVE Goal
  <2>1. StartsOnce(inbox'[a]) /\ (NoStart(inbox[a]) => NoStart(inbox'[a]))
    <3>1. StartsOnce(inbox[a])
      BY DEF OneThread
    <3>2. inbox[a] # << >> => /\ StartsOnce(Tail(inbox[a]))
                              /\ NoStart(inbox[a]) => NoStart(Tail(inbox[a]))
      BY <1>1, <3>1, StartsOnceTail
    <3> QED BY <1>2, <3>1, <3>2, StartsOnceEmpty
  <2>2. Live(a)' = Live(a)
    BY <1>2 DEF Live
  <2> QED BY <1>2, <2>1, <2>2 DEF OneThread, Own
<1> HIDE DEF Goal, Kept
<1>3. ASSUME NEW r \in Runs, HandlePrepare(a, r) PROVE Goal
  <2>1. /\ inbox[a] # << >> /\ Head(inbox[a]).cmd = "prepare" /\ inbox'[a] = Tail(inbox[a])
        /\ UNCHANGED worker
    BY <1>3 DEF HandlePrepare, Takes
  <2>2. Live(a) = {} /\ Live(a)' = {}
    BY <1>1, <2>1, NoPrepareTail DEF ArmedAt, Live
  <2>3. StartsOnce(inbox'[a]) /\ (NoStart(inbox[a]) => NoStart(inbox'[a]))
    BY <1>1, <2>1, StartsOnceTail DEF OneThread
  <2>4. \A t \in Threads : worker'[a][t].pc = "none"
    BY <2>2 DEF Live
  <2> QED BY <2>2, <2>3, <2>4 DEF OneThread, Own, Goal
<1>4. ASSUME NEW r \in Runs, HandleStartAt(a, r) PROVE Goal
  <2>1. /\ inbox[a] # << >> /\ Head(inbox[a]).cmd = "start_at" /\ inbox'[a] = Tail(inbox[a])
        /\ UNCHANGED cfg
    BY <1>4 DEF HandleStartAt, Takes
  <2>2. CASE UNCHANGED worker
    BY <1>2, <2>1, <2>2 DEF Kept
  <2>3. ASSUME state[a] = "ARMED", NEW t \in Threads,
               worker' = [worker EXCEPT ![a][t] =
                   [pc |-> "sleeping", run |-> r, cfg |-> NoRun]]
        PROVE  Goal
    <3>1. ~NoStart(inbox[a]) /\ NoStart(inbox'[a]) /\ StartsOnce(inbox'[a])
      BY <1>1, <2>1, StartsOnceTail DEF OneThread
    <3>2. Live(a) = {} /\ \A q \in Runs : NoStart(outbox[q])
      BY <3>1 DEF OneThread
    <3>3. /\ worker'[a][t] = [pc |-> "sleeping", run |-> r, cfg |-> NoRun]
          /\ \A u \in Threads \ {t} : worker'[a][u] = worker[a][u]
      BY <2>3
    <3>4. \A u \in Threads \ {t} : worker'[a][u].pc = "none"
      BY <3>2, <3>3 DEF Live
    <3>5. cfg[a] = r
      BY <2>3 DEF ArmedAt, OneRun, RunOrNone
    <3>6. Live(a)' \subseteq {t}
      BY <3>4 DEF Live
    <3>7. OneThread(a)'
      BY <3>1, <3>2, <3>6 DEF OneThread
    <3>8. ASSUME NEW u \in Threads PROVE Own(a, u)'
      <4>1. cfg'[a] = r
        BY <2>1, <3>5
      <4>2. CASE u = t
        <5>1. worker'[a][u].pc = "sleeping" /\ worker'[a][u].run = r
          BY <3>3, <4>2
        <5> QED BY <4>1, <5>1 DEF Own
      <4>3. CASE u # t
        BY <3>4, <4>3 DEF Own
      <4> QED BY <4>2, <4>3
    <3> QED BY <3>7, <3>8 DEF Goal
  <2> QED BY <1>4, <2>2, <2>3 DEF HandleStartAt
<1>5. ASSUME NEW r \in Runs, HandleStop(a, r) \/ HandleTeardown(a, r) PROVE Goal
  <2>1. inbox[a] # << >> /\ inbox'[a] = Tail(inbox[a]) /\ UNCHANGED <<worker, cfg>>
    BY <1>5 DEF HandleStop, HandleTeardown, Takes
  <2> QED BY <1>2, <2>1 DEF Kept
<1>6. CASE FinishPrepare(a)
  <2>1. UNCHANGED <<worker, cfg>> /\ inbox'[a] = inbox[a]
    BY <1>6 DEF FinishPrepare
  <2> QED BY <1>2, <2>1 DEF Kept, Goal
<1>7. ASSUME NEW t \in Threads, WorkerThread(a, t) PROVE Goal
  <2>1. t \in Live(a) /\ Live(a)' \subseteq Live(a) /\ UNCHANGED inbox
    BY <1>7, WorkerEffect
  <2>2. \A u \in Threads \ {t} : worker[a][u].pc = "none" /\ worker'[a][u] = worker[a][u]
    BY <1>7, <2>1, ThreadAlone DEF OneThread, Live
  <2>3. OneThread(a)'
    BY <2>1 DEF OneThread
  <2>4. Own(a, t)'
    <3>1. CASE WakeUp(a, t)
      BY <3>1 DEF WakeUp, Own
    <3>2. CASE StartTraffic(a, t)
      <4>1. PICK pc \in {"client", "server", "refused"} :
                worker' = [worker EXCEPT ![a][t] = [pc |-> pc, run |-> @.run, cfg |-> cfg[a]]]
        BY <3>2 DEF StartTraffic
      <4>2. worker'[a][t] = [pc |-> pc, run |-> worker[a][t].run, cfg |-> cfg[a]]
        BY <4>1
      <4>3. cfg[a] = worker[a][t].run
        BY <3>2 DEF StartTraffic, Own
      <4> QED BY <4>2, <4>3 DEF Own
    <3>3. ASSUME NEW status \in Statuses, Finish(a, t, status) PROVE Own(a, t)'
      <4>1. worker[a][t] \in Worker \ {NoWorker}
        <5>1. worker[a][t].pc # "none"
          BY <3>3 DEF Finish, CanEnd
        <5>2. worker[a][t] \in Worker
          OBVIOUS
        <5> QED BY <5>1, <5>2 DEF NoWorker
      <4>2. worker' = [worker EXCEPT ![a][t].pc = "reported"]
        BY <3>3 DEF Finish
      <4>3. worker'[a][t] = [worker[a][t] EXCEPT !.pc = "reported"]
        BY <4>2
      <4>4. worker'[a][t].pc = "reported"
        BY <4>1, <4>3 DEF Worker
      <4> QED BY <4>4 DEF Own
    <3>4. CASE Release(a, t)
      <4>1. worker'[a][t].pc = "released"
        BY <3>4 DEF Release, Worker, NoWorker
      <4> QED BY <4>1 DEF Own
    <3>5. CASE GoIdle(a, t)
      <4>1. worker'[a][t].pc = "none"
        BY <3>5 DEF GoIdle, NoWorker
      <4> QED BY <4>1 DEF Own
    <3> QED BY <1>7, <3>1, <3>2, <3>3, <3>4, <3>5 DEF WorkerThread
  <2>5. ASSUME NEW u \in Threads \ {t} PROVE Own(a, u)'
    BY <2>2, <2>5 DEF Own
  <2> QED BY <2>3, <2>4, <2>5 DEF Goal
<1>8. CASE BootDone(a) \/ Restart(a)
  <2>1. UNCHANGED <<worker, cfg>> /\ inbox'[a] = inbox[a]
    BY <1>8 DEF BootDone, Restart, netVars
  <2> QED BY <1>2, <2>1 DEF Kept, Goal
<1>9. CASE Crash(a)
  <2>1. inbox'[a] = << >> /\ \A t \in Threads : worker'[a][t].pc = "none"
    BY <1>9 DEF Crash, NoWorker
  <2>2. Live(a)' = {}
    BY <2>1 DEF Live
  <2> QED BY <2>1, <2>2, StartsOnceEmpty DEF OneThread, Own, Goal
<1>10. CASE Network(a)
  <2>1. UNCHANGED <<worker, cfg>> /\ (inbox'[a] = inbox[a] \/ inbox'[a] = << >>)
    BY <1>10 DEF Network, LinkLost, Reconnect, agentVars
  <2> QED BY <1>2, <2>1 DEF Kept, Goal
<1> QED BY <1>3, <1>4, <1>5, <1>6, <1>7, <1>8, <1>9, <1>10 DEF AgentStep, MqttThread, Goal

(***************************************************************************)
(* A bus publishes, or sends its queue: never a start_at where there is    *)
(* one or has been one.                                                    *)
(***************************************************************************)
LEMMA StartsByPublish ==
    ASSUME TypeOK, StartedOnce, OneRun, NEW r \in Runs, NEW c \in Commands, Publish(r, c),
           ~Spend("dup"), UNCHANGED <<worker, cfg>>,
           c = "start_at" => /\ NoStart(outbox[r])
                             /\ \A a \in Agents : NoStart(inbox[a]) /\ Live(a) = {}
    PROVE  StartedOnce'
<1> USE DEF TypeOK, NetTypeOK
<1> DEFINE m == [cmd |-> c, run |-> r]
<1>1. <<m>> \in Seq(Command) /\ m \in Command
  BY DEF Command
<1>2. StartsOnce(<<m>>) /\ (c # "start_at" => NoStart(<<m>>))
  BY DEF StartsOnce, NoStart, OnlyStarted
<1>3. \A q \in Runs : q = r
  BY DEF OneRun
<1>4. \A a \in Agents : Live(a)' = Live(a) /\ \A t \in Threads : Own(a, t)'
  BY DEF Live, Own, StartedOnce
<1>5. \A a \in Agents : OneThread(a) /\ inbox[a] \in Seq(Command)
  BY DEF StartedOnce
<1>6. StartsOnce(outbox[r]) /\ outbox[r] \in Seq(Command)
  BY DEF StartedOnce
<1>7. \A s \in Seq(Command) :
         StartsOnce(s) /\ (c = "start_at" => NoStart(s))
            => StartsOnce(s \o <<m>>) /\ (c # "start_at" /\ NoStart(s) => NoStart(s \o <<m>>))
  BY <1>1, <1>2, StartsOnceConcat, OnlyStartedConcat DEF NoStart
<1> HIDE DEF m
<1>8. CASE Forward(<<m>>) /\ UNCHANGED outbox
  <2>1. ASSUME NEW a \in Agents PROVE OneThread(a)'
    <3>1. inbox'[a] = inbox[a] \o <<m>> \/ inbox'[a] = inbox[a]
      BY <1>8 DEF Forward
    <3>2. /\ StartsOnce(inbox'[a])
          /\ c # "start_at" /\ NoStart(inbox[a]) => NoStart(inbox'[a])
      BY <1>5, <1>7, <3>1 DEF OneThread
    <3> QED BY <1>3, <1>4, <1>5, <1>8, <3>2 DEF OneThread
  <2> QED BY <1>3, <1>4, <1>6, <1>8, <2>1 DEF StartedOnce
<1>9. CASE outbox' = [outbox EXCEPT ![r] = Append(@, m)] /\ UNCHANGED inbox
  <2>1. outbox'[r] = outbox[r] \o <<m>>
    <3>1. outbox'[r] = Append(outbox[r], m)
      BY <1>9
    <3>2. Append(outbox[r], m) = outbox[r] \o <<m>>
      BY <1>1, <1>6, AppendIsConcat
    <3> QED BY <3>1, <3>2
  <2>2. /\ StartsOnce(outbox'[r])
        /\ c # "start_at" /\ NoStart(outbox[r]) => NoStart(outbox'[r])
    BY <1>6, <1>7, <2>1
  <2>3. \A a \in Agents : OneThread(a)'
    BY <1>3, <1>4, <1>5, <1>9, <2>2 DEF OneThread
  <2> QED BY <1>3, <1>4, <2>2, <2>3 DEF StartedOnce
<1> QED BY <1>8, <1>9 DEF Publish, m

LEMMA StartsBySession ==
    ASSUME TypeOK, StartedOnce, OneRun, NEW r \in Runs, TakeSession(r), UNCHANGED <<worker, cfg>>
    PROVE  StartedOnce'
<1> USE DEF TypeOK, NetTypeOK
<1>1. outbox[r] \in Seq(Command) /\ outbox'[r] = << >> /\ StartsOnce(outbox[r])
  BY DEF TakeSession, StartedOnce
<1>2. \A q \in Runs : q = r
  BY DEF OneRun
<1>3. ASSUME NEW a \in Agents PROVE OneThread(a)' /\ \A t \in Threads : Own(a, t)'
  <2>1. inbox[a] \in Seq(Command) /\ OneThread(a) /\ \A t \in Threads : Own(a, t)
    BY DEF StartedOnce
  <2>2. inbox'[a] = inbox[a] \o outbox[r] \/ inbox'[a] = inbox[a]
    BY DEF TakeSession, Forward
  <2>3. NoStart(inbox[a]) \/ NoStart(outbox[r])
    BY <2>1 DEF OneThread
  <2>4. StartsOnce(inbox'[a])
    BY <1>1, <2>1, <2>2, <2>3, StartsOnceConcat DEF OneThread
  <2>5. NoStart(inbox[a]) /\ NoStart(outbox[r]) => NoStart(inbox'[a])
    BY <1>1, <2>1, <2>2, OnlyStartedConcat DEF NoStart
  <2>6. Live(a)' = Live(a)
    BY DEF Live
  <2> QED BY <1>1, <1>2, <2>1, <2>4, <2>5, <2>6, StartsOnceEmpty DEF OneThread, Own
<1> QED BY <1>1, <1>2, <1>3, StartsOnceEmpty DEF StartedOnce

LEMMA StartedOnceStep ==
    ASSUME TypeOK, OneRun, PrepareOnce, ArmedOnce, StartsAreStarted, PhaseMatches, StartedOnce,
           left["dup"] = 0, [Next]_vars
    PROVE  StartedOnce'
<1> USE DEF TypeOK, NetTypeOK, CtrlTypeOK
<1>1. ASSUME NEW a \in Agents, AgentStep(a), UNCHANGED ctrlVars PROVE StartedOnce'
  <2>1. UNCHANGED outbox
    <3>1. CASE MqttThread(a)
      BY <3>1 DEF MqttThread, HandlePrepare, HandleStartAt, HandleStop, HandleTeardown,
         FinishPrepare, Takes
    <3>2. ASSUME NEW t \in Threads, WorkerThread(a, t) PROVE UNCHANGED outbox
      BY <3>2, WorkerEffect
    <3>3. CASE BootDone(a) \/ Restart(a) \/ Crash(a)
      BY <3>3 DEF BootDone, Restart, Crash, netVars
    <3>4. CASE Network(a)
      BY <3>4 DEF Network, LinkLost, Reconnect
    <3> QED BY <1>1, <3>1, <3>2, <3>3, <3>4 DEF AgentStep
  <2>2. OneThread(a)' /\ \A t \in Threads : Own(a, t)'
    BY <1>1, <2>1, OneThreadByItself DEF PrepareOnce, ArmedOnce, StartedOnce
  <2>3. ASSUME NEW b \in Agents \ {a} PROVE OneThread(b)' /\ \A t \in Threads : Own(b, t)'
    <3>1. /\ cfg'[b] = cfg[b] /\ worker'[b] = worker[b] /\ inbox'[b] = inbox[b]
          /\ Live(b)' = Live(b)
      BY <1>1, <2>3, OthersUntouched
    <3>2. OneThread(b) /\ \A t \in Threads : Own(b, t)
      BY <2>3 DEF StartedOnce
    <3> QED BY <2>1, <3>1, <3>2 DEF OneThread, Own
  <2> QED BY <2>1, <2>2, <2>3 DEF StartedOnce
<1>2. ~Spend("dup")
  BY DEF Spend
<1>3. ASSUME UNCHANGED <<inbox, outbox, worker, cfg>> PROVE StartedOnce'
  <2>1. \A a \in Agents : Live(a)' = Live(a)
    BY <1>3 DEF Live
  <2> QED BY <1>3, <2>1 DEF StartedOnce, OneThread, Own
<1>4. ASSUME NEW r \in Runs, ControllerStep(r), UNCHANGED agentVars PROVE StartedOnce'
  <2>0. UNCHANGED <<worker, cfg>>
    BY <1>4 DEF agentVars
  <2>1. CASE Connect(r) \/ Resume(r)
    BY <2>0, <2>1, StartsBySession DEF Connect, Resume
  <2>2. CASE StartRun(r)
    <3>1. started = {}
      BY <2>2 DEF StartRun, PhaseMatches, OneRun
    <3>2. /\ NoStart(outbox[r])
          /\ \A a \in Agents : NoStart(inbox[a]) /\ Live(a) = {}
      BY <3>1 DEF StartsAreStarted, NoStart, Live
    <3>3. Publish(r, "start_at") /\ "start_at" \in Commands
      BY <2>2 DEF StartRun, Commands
    <3> QED BY <1>2, <2>0, <3>2, <3>3, StartsByPublish
  <2>3. ASSUME NEW c \in Commands \ {"start_at"}, Publish(r, c) PROVE StartedOnce'
    BY <1>2, <2>0, <2>3, StartsByPublish
  <2>4. CASE Close(r)
    <3>1. outbox'[r] = << >> /\ UNCHANGED inbox
      BY <2>4 DEF Close, DropSession
    <3>2. \A q \in Runs : q = r
      BY DEF OneRun
    <3>3. \A a \in Agents : Live(a)' = Live(a)
      BY <2>0 DEF Live
    <3> QED BY <2>0, <3>1, <3>2, <3>3, StartsOnceEmpty DEF StartedOnce, OneThread, Own
  <2>5. CASE UNCHANGED <<inbox, outbox>>
    BY <1>3, <2>0, <2>5
  <2> QED BY <1>4, <2>1, <2>2, <2>3, <2>4, <2>5 DEF ControllerStep, RunStep, Begin,
          AckTimeout, StopRun, Conclude, StartDownlinkClients, StartServer, StopServer,
          SpawnFails, Interrupt, Commands
<1> QED BY <1>1, <1>3, <1>4 DEF Next, Heartbeat, OnAgentHeartbeat, Broker, Deliver,
        ControllerLinkLost, vars, netVars, agentVars

(***************************************************************************)
(* While there is one run and no broadcast comes twice, a thread sends the *)
(* traffic its own prepare brought, whatever is lost, interrupted or       *)
(* restarted between the start_at and the end of its sleep: there is one   *)
(* start_at, an agent makes one thread of it, only when it is ARMED, and   *)
(* nobody else sets or clears the configuration while that thread sleeps.  *)
(***************************************************************************)
THEOREM TrafficIsOwn ==
    ASSUME OneRun, Faults["dup"] = 0
    PROVE  Spec => []OwnTraffic
<1> DEFINE Inv == /\ PrepareOnce /\ ArmedOnce /\ StartsAreStarted /\ PhaseMatches
                  /\ StartedOnce /\ left["dup"] = 0
<1>1. Init => Inv
  <2> SUFFICES ASSUME Init PROVE Inv
    OBVIOUS
  <2>1. \A a \in Agents : Live(a) = {}
    BY DEF Init, AgentInit, Live, NoWorker
  <2>2. PrepareOnce /\ ArmedOnce
    BY <2>1, NoPrepareEmpty DEF Init, NetInit, AgentInit, CtrlInit, PrepareOnce,
       ArmedOnce, ArmedAt
  <2>3. StartsAreStarted /\ PhaseMatches
    BY DEF Init, NetInit, AgentInit, CtrlInit, StartsAreStarted, OnlyStarted, NoWorker,
       PhaseMatches
  <2>4. \A a \in Agents, t \in Threads : worker[a][t].pc = "none"
    BY DEF Init, AgentInit, NoWorker
  <2>5. StartedOnce
    BY <2>1, <2>4, StartsOnceEmpty DEF Init, NetInit, StartedOnce, OneThread, Own
  <2> QED BY <2>2, <2>3, <2>5 DEF Init, NetInit
<1>2. TypeOK /\ Inv /\ [Next]_vars => Inv'
  <2> SUFFICES ASSUME TypeOK, Inv, [Next]_vars PROVE Inv'
    OBVIOUS
  <2>1. "dup" \in FaultKinds
    BY DEF FaultKinds
  <2> QED BY <2>1, PrepareOnceStep, StartsStep, PhaseStep, StartedOnceStep, FaultsAreSpent
<1>3. Inv => OwnTraffic
  BY DEF StartedOnce, Own, OwnTraffic
<1> QED BY <1>1, <1>2, <1>3, TypeCorrect, PTL DEF Spec

-----------------------------------------------------------------------------

(***************************************************************************)
(* When the last broadcast of a queue is a teardown, the one taken is it   *)
(* or leaves it the last.                                                  *)
(***************************************************************************)
LEMMA LastOfTail ==
    ASSUME NEW s \in Seq(Command), LastIsTeardown(s)
    PROVE  \/ Tail(s) = << >> /\ Head(s).cmd = "teardown"
           \/ LastIsTeardown(Tail(s))
<1>1. Len(s) \in Nat /\ Len(s) # 0 /\ s[Len(s)].cmd = "teardown"
  BY DEF LastIsTeardown
<1>2. Tail(s) \in Seq(Command) /\ Len(Tail(s)) = Len(s) - 1
  BY <1>1
<1>3. CASE Tail(s) = << >>
  <2>1. Len(Tail(s)) = 0
    BY <1>3, EmptySeq
  <2>2. Len(s) = 1
    <3> DEFINE n == Len(s)
    <3>1. n \in Nat /\ 0 = n - 1
      BY <1>1, <1>2, <2>1
    <3> HIDE DEF n
    <3>2. n = 1
      BY <3>1
    <3> QED BY <3>2 DEF n
  <2>3. Head(s) = s[1]
    OBVIOUS
  <2> QED BY <1>1, <1>3, <2>2, <2>3
<1>4. CASE Tail(s) # << >>
  <2>1. Len(Tail(s)) \in Nat \ {0}
    BY <1>2, <1>4, EmptySeq
  <2>2. Tail(s)[Len(Tail(s))] = s[Len(s)]
    BY <1>1, <1>2, <2>1
  <2> QED BY <1>1, <1>4, <2>2 DEF LastIsTeardown
<1> QED BY <1>3, <1>4

(***************************************************************************)
(* An agent with nothing to hear that is at rest stays so.                 *)
(***************************************************************************)
LEMMA RestStays ==
    ASSUME TypeOK, left["link"] = 0, NEW a \in Agents, AgentStep(a),
           inbox[a] = << >>, AtRest(a)
    PROVE  inbox'[a] = << >> /\ AtRest(a)'
<1> USE DEF TypeOK, AgentTypeOK, NetTypeOK, AtRest, SetState
<1>1. CASE MqttThread(a)
  BY <1>1 DEF MqttThread, HandlePrepare, HandleStartAt, HandleStop, HandleTeardown,
     FinishPrepare, Takes
<1>2. ASSUME NEW t \in Threads, WorkerThread(a, t) PROVE inbox'[a] = << >> /\ AtRest(a)'
  <2>1. /\ UNCHANGED <<inbox, arming>>
        /\ state'[a] \in {"RUNNING", "REPORTING", "IDLE"} \/ UNCHANGED state
    BY <1>2, WorkerEffect
  <2> QED BY <2>1
<1>3. CASE BootDone(a) \/ Restart(a)
  BY <1>3 DEF BootDone, Restart, netVars
<1>4. CASE Crash(a)
  BY <1>4 DEF Crash
<1>5. CASE Network(a)
  BY <1>5 DEF Network, LinkLost, Spend, Reconnect, agentVars
<1> QED BY <1>1, <1>2, <1>3, <1>4, <1>5 DEF AgentStep

LEMMA TeardownHeard ==
    ASSUME TypeOK, left["link"] = 0, NEW a \in Agents, AgentStep(a), LastIsTeardown(inbox[a])
    PROVE  LastIsTeardown(inbox'[a]) \/ (inbox'[a] = << >> /\ AtRest(a)')
<1> USE DEF TypeOK, AgentTypeOK, NetTypeOK, SetState
<1>1. inbox[a] \in Seq(Command) /\ inbox[a] # << >>
  BY DEF LastIsTeardown
<1>2. \/ Tail(inbox[a]) = << >> /\ Head(inbox[a]).cmd = "teardown"
      \/ LastIsTeardown(Tail(inbox[a]))
  BY <1>1, LastOfTail
<1>3. ASSUME NEW c \in Commands, NEW r \in Runs, Takes(a, c, r), c # "teardown"
      PROVE  LastIsTeardown(inbox'[a])
  BY <1>2, <1>3 DEF Takes
<1>4. ASSUME NEW r \in Runs, HandleTeardown(a, r)
      PROVE  LastIsTeardown(inbox'[a]) \/ (inbox'[a] = << >> /\ AtRest(a)')
  <2>1. inbox'[a] = Tail(inbox[a]) /\ state'[a] = "IDLE" /\ arming'[a] = NoRun
    BY <1>4 DEF HandleTeardown, Takes
  <2> QED BY <1>2, <2>1 DEF AtRest
<1>5. ASSUME NEW t \in Threads, WorkerThread(a, t) PROVE UNCHANGED inbox
  BY <1>5, WorkerEffect
<1>6. CASE Crash(a)
  BY <1>6 DEF Crash, AtRest
<1>7. CASE FinishPrepare(a) \/ BootDone(a) \/ Restart(a) \/ Network(a)
  <2>1. UNCHANGED inbox
    BY <1>7 DEF FinishPrepare, BootDone, Restart, Network, LinkLost, Spend, Reconnect, netVars
  <2> QED BY <2>1
<1> QED BY <1>3, <1>4, <1>5, <1>6, <1>7 DEF AgentStep, MqttThread, HandlePrepare,
        HandleStartAt, HandleStop, Commands

(***************************************************************************)
(* An agent goes offline by a crash, and is at rest then.                  *)
(***************************************************************************)
LEMMA OfflineByCrash ==
    ASSUME TypeOK, left["link"] = 0, NEW a \in Agents, AgentStep(a), a \in online, a \notin online'
    PROVE  inbox'[a] = << >> /\ AtRest(a)'
<1> USE DEF TypeOK, AgentTypeOK, NetTypeOK
<1>1. CASE MqttThread(a)
  BY <1>1 DEF MqttThread, HandlePrepare, HandleStartAt, HandleStop, HandleTeardown,
     FinishPrepare, Takes
<1>2. ASSUME NEW t \in Threads, WorkerThread(a, t) PROVE UNCHANGED online
  BY <1>2, WorkerEffect
<1>3. CASE BootDone(a) \/ Restart(a) \/ Network(a)
  BY <1>3 DEF BootDone, Restart, Network, LinkLost, Spend, Reconnect, netVars
<1>4. CASE Crash(a)
  BY <1>4 DEF Crash, SetState, AtRest
<1> QED BY <1>1, <1>2, <1>3, <1>4 DEF AgentStep

(***************************************************************************)
(* The one open run holds the session.                                     *)
(***************************************************************************)
LEMMA SessionHeldStep ==
    ASSUME TypeOK, PhasesOpen, OneAtATime, OneAtATime', SessionHeld, [Next]_vars
    PROVE  SessionHeld'
<1> USE DEF TypeOK, NetTypeOK, CtrlTypeOK, SessionHeld
<1>1. left'["link"] = 0 /\ left'["interrupt"] = 0
  BY FaultsAreSpent DEF FaultKinds
<1>2. CASE UNCHANGED <<session, outbox, open>>
  BY <1>1, <1>2
<1>3. ASSUME NEW a \in Agents, AgentStep(a), UNCHANGED ctrlVars
      PROVE  UNCHANGED <<session, outbox, open>>
  <2>1. CASE MqttThread(a)
    BY <1>3, <2>1 DEF MqttThread, HandlePrepare, HandleStartAt, HandleStop, HandleTeardown,
       FinishPrepare, Takes, ctrlVars
  <2>2. ASSUME NEW t \in Threads, WorkerThread(a, t) PROVE UNCHANGED <<session, outbox>>
    BY <2>2, WorkerEffect
  <2>3. CASE BootDone(a) \/ Restart(a) \/ Crash(a)
    BY <1>3, <2>3 DEF BootDone, Restart, Crash, netVars, ctrlVars
  <2>4. CASE Network(a)
    BY <1>3, <2>4 DEF Network, LinkLost, Reconnect, ctrlVars
  <2> QED BY <1>3, <2>1, <2>2, <2>3, <2>4 DEF AgentStep, ctrlVars
<1>4. ASSUME NEW r \in Runs, ControllerStep(r) PROVE SessionHeld'
  <2>1. ASSUME NEW c, Publish(r, c), r \in open PROVE UNCHANGED outbox
    BY <2>1 DEF Publish
  <2>2. CASE Connect(r)
    BY <1>1, <2>2 DEF Connect, TakeSession, OneAtATime
  <2>3. CASE Resume(r)
    BY <2>3 DEF Resume, TakeSession
  <2>4. CASE Close(r)
    BY <1>1, <2>4 DEF Close, DropSession, OneAtATime
  <2>5. CASE Begin(r) \/ StartRun(r) \/ AckTimeout(r) \/ StopRun(r) \/ Conclude(r)
    <3>1. r \in open /\ UNCHANGED <<session, open>>
      BY <2>5 DEF Begin, StartRun, AckTimeout, StopRun, Conclude, PhasesOpen, UnderWay
    <3>2. UNCHANGED outbox
      BY <2>1, <2>5, <3>1 DEF Begin, StartRun, AckTimeout, StopRun, Conclude
    <3> QED BY <1>2, <3>1, <3>2
  <2>6. CASE StartDownlinkClients(r) \/ StartServer(r) \/ StopServer(r) \/ SpawnFails(r)
             \/ Interrupt(r)
    BY <1>2, <2>6 DEF StartDownlinkClients, StartServer, StopServer, SpawnFails, Interrupt
  <2> QED BY <1>4, <2>2, <2>3, <2>4, <2>5, <2>6 DEF ControllerStep, RunStep
<1>5. CASE Broker
  BY <1>2, <1>5 DEF Broker, Deliver, ControllerLinkLost, Spend, ctrlVars
<1>6. ASSUME NEW a \in Agents, Heartbeat(a) PROVE UNCHANGED <<session, outbox, open>>
  BY <1>6 DEF Heartbeat, OnAgentHeartbeat, netVars
<1> QED BY <1>2, <1>3, <1>4, <1>5, <1>6 DEF Next, vars, netVars, ctrlVars

(***************************************************************************)
(* A teardown that is published reaches every agent that is connected.     *)
(***************************************************************************)
LEMMA TeardownForwarded ==
    ASSUME TypeOK, NEW r \in Runs, session = r, Publish(r, "teardown"), NEW a \in online
    PROVE  LastIsTeardown(inbox'[a])
<1> USE DEF TypeOK, NetTypeOK
<1> DEFINE m == [cmd |-> "teardown", run |-> r]
<1>1. m \in Command /\ m.cmd = "teardown" /\ inbox[a] \in Seq(Command)
  BY DEF Command, Commands
<1> HIDE DEF m
<1>2. LastIsTeardown(inbox[a] \o <<m>>) /\ LastIsTeardown(inbox[a] \o <<m, m>>)
  BY <1>1 DEF LastIsTeardown
<1>3. Forward(<<m>>) \/ Forward(<<m, m>>)
  BY DEF Publish, m
<1> QED BY <1>2, <1>3 DEF Forward

LEMMA TornDownStep ==
    ASSUME TypeOK, PhasesOpen, OneAtATime, SessionHeld, TornDown, [Next]_vars
    PROVE  TornDown'
<1> USE DEF TypeOK, NetTypeOK, CtrlTypeOK
<1>1. ASSUME NEW a \in Agents, AgentStep(a), UNCHANGED ctrlVars PROVE TornDown'
  <2>1. /\ inbox[a] = << >> /\ AtRest(a) => inbox'[a] = << >> /\ AtRest(a)'
        /\ LastIsTeardown(inbox[a])
               => LastIsTeardown(inbox'[a]) \/ (inbox'[a] = << >> /\ AtRest(a)')
        /\ a \in online /\ a \notin online' => inbox'[a] = << >> /\ AtRest(a)'
    BY <1>1, RestStays, TeardownHeard, OfflineByCrash DEF SessionHeld
  <2>2. ASSUME NEW b \in Agents \ {a}
        PROVE  /\ inbox'[b] = inbox[b] /\ (AtRest(b)' <=> AtRest(b))
               /\ b \in online' <=> b \in online
    BY <1>1, <2>2, OthersUntouched DEF AtRest
  <2>3. UNCHANGED phase
    BY <1>1 DEF ctrlVars
  <2> QED BY <2>1, <2>2, <2>3 DEF TornDown
<1>2. ASSUME NEW r \in Runs, ControllerStep(r), UNCHANGED agentVars PROVE TornDown'
  <2>1. \A a \in Agents : AtRest(a)' <=> AtRest(a)
    BY <1>2 DEF agentVars, AtRest
  <2>2. ASSUME NEW c \in Commands, Publish(r, c), UNCHANGED online, phase'[r] \in UnderWay
        PROVE  TornDown'
    <3>1. \A a \in Agents : a \notin online => inbox'[a] = inbox[a]
      BY <2>2 DEF Publish, Forward
    <3> QED BY <2>1, <2>2, <3>1 DEF TornDown
  <2>3. CASE Begin(r) \/ StartRun(r) \/ StopRun(r)
    <3>1. \E c \in Commands : Publish(r, c) /\ UNCHANGED online /\ phase'[r] \in UnderWay
      BY <2>3 DEF Begin, StartRun, StopRun, SetPhase, UnderWay, Commands
    <3> QED BY <2>2, <3>1
  <2>4. CASE AckTimeout(r) \/ Conclude(r)
    <3>1. session = r /\ Publish(r, "teardown") /\ UNCHANGED online
      BY <2>4 DEF AckTimeout, Conclude, SessionHeld, PhasesOpen, UnderWay
    <3>2. \A a \in online : LastIsTeardown(inbox'[a])
      BY <3>1, TeardownForwarded
    <3>3. \A a \in Agents : a \notin online => inbox'[a] = inbox[a]
      BY <3>1 DEF Publish, Forward
    <3> QED BY <2>1, <3>1, <3>2, <3>3 DEF TornDown
  <2>5. CASE Connect(r)
    <3>1. Forward(<< >>)
      BY <2>5 DEF Connect, TakeSession, SessionHeld
    <3>2. \A a \in Agents : inbox'[a] = inbox[a]
      BY <3>1 DEF Forward
    <3>3. UNCHANGED online /\ \A q \in Runs : phase'[q] \in UnderWay <=> phase[q] \in UnderWay
      BY <2>5 DEF Connect, TakeSession, SetPhase, UnderWay
    <3> QED BY <2>1, <3>2, <3>3 DEF TornDown
  <2>6. CASE Resume(r)
    BY <2>6 DEF Resume, TakeSession, SessionHeld
  <2>7. CASE Close(r)
    <3>1. UNCHANGED <<inbox, online, phase>>
      BY <2>7 DEF Close
    <3> QED BY <2>1, <3>1 DEF TornDown
  <2>8. CASE StartDownlinkClients(r)
    <3>1. UNCHANGED <<inbox, online>> /\ phase'[r] \in UnderWay
      BY <2>8 DEF StartDownlinkClients, SetPhase, UnderWay
    <3> QED BY <2>1, <3>1 DEF TornDown
  <2>9. CASE Interrupt(r)
    BY <2>9 DEF Interrupt, Spend, SessionHeld
  <2>10. CASE StartServer(r) \/ StopServer(r)
    <3>1. UNCHANGED <<inbox, online, phase>>
      BY <2>10 DEF StartServer, StopServer
    <3> QED BY <2>1, <3>1 DEF TornDown
  <2>11. CASE SpawnFails(r)
    <3>1. UNCHANGED <<inbox, online>> /\ \A q \in Runs : phase'[q] \in UnderWay <=> phase[q] \in UnderWay
      BY <2>11 DEF SpawnFails, SetPhase, UnderWay
    <3> QED BY <2>1, <3>1 DEF TornDown
  <2> QED BY <1>2, <2>3, <2>4, <2>5, <2>6, <2>7, <2>8, <2>9, <2>10, <2>11 DEF ControllerStep, RunStep
<1>3. CASE UNCHANGED <<inbox, online, phase, agentVars>>
  BY <1>3 DEF TornDown, AtRest, agentVars
<1>4. CASE Broker /\ UNCHANGED agentVars
  BY <1>3, <1>4 DEF Broker, Deliver, ControllerLinkLost, ctrlVars
<1>5. ASSUME NEW a \in Agents, Heartbeat(a), UNCHANGED agentVars PROVE TornDown'
  BY <1>3, <1>5 DEF Heartbeat, OnAgentHeartbeat, netVars
<1>6. CASE UNCHANGED vars
  BY <1>3, <1>6 DEF vars, netVars, ctrlVars
<1> QED BY <1>1, <1>2, <1>4, <1>5, <1>6 DEF Next

(***************************************************************************)
(* When every run is over and an agent has heard everything, it is neither *)
(* PREPARING nor ARMED, with any number of agents, runs, duplicates and    *)
(* crashes: the teardown is the last word of every run that said prepare.  *)
(* It takes one run at a time, no lost connection and no interrupt; each   *)
(* of the three keeps a teardown from an agent.                            *)
(***************************************************************************)
THEOREM NobodyStaysArmed ==
    ASSUME MaxActive = 1, Faults["link"] = 0, Faults["interrupt"] = 0
    PROVE  Spec => []NobodyLeftArmed
<1> DEFINE Inv == PhasesOpen /\ OneAtATime /\ SessionHeld /\ TornDown
<1>1. Init => Inv
  BY FS_EmptySet DEF Init, NetInit, AgentInit, CtrlInit, PhasesOpen, OneAtATime, SessionHeld,
     TornDown, AtRest, UnderWay
<1>2. TypeOK /\ Inv /\ [Next]_vars => Inv'
  BY PhasesOpenStep, OneAtATimeStep, SessionHeldStep, TornDownStep
<1>3. Inv => NobodyLeftArmed
  BY DEF NobodyLeftArmed, AllOver, TornDown, UnderWay, Ended, LastIsTeardown, AtRest
<1> QED BY <1>1, <1>2, <1>3, TypeCorrect, PTL DEF Spec

-----------------------------------------------------------------------------

(***************************************************************************)
(* The strengthening the runs check with the properties it implies is an   *)
(* invariant, under every fault: types, a measurement behind every         *)
(* "complete" that is stored or on its way, and a started run behind every *)
(* start_at and every thread.                                              *)
(***************************************************************************)
THEOREM EvidenceAndStarts == Spec => []IInv
<1>1. Init => CompleteIsMeasured /\ StartsAreStarted
  BY DEF Init, NetInit, AgentInit, CtrlInit, CompleteIsMeasured, StartsAreStarted, OnlyStarted,
     NoWorker
<1>2. TypeOK /\ CompleteIsMeasured /\ StartsAreStarted /\ [Next]_vars
          => CompleteIsMeasured' /\ StartsAreStarted'
  BY EvidenceStep, StartsStep
<1> QED BY <1>1, <1>2, TypeCorrect, PTL DEF Spec, IInv

=============================================================================
