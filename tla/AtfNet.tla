------------------------------- MODULE AtfNet -------------------------------
(***************************************************************************)
(* What the agents and the controller share: the MQTT broker with the      *)
(* queues of MQTTBus at its two ends, and the TCP ports iperf3 uses on the *)
(* two sides of the radio link.  Everything a component may do to that     *)
(* shared state is an operator here; AtfAgent and Orchestrator call it.    *)
(*                                                                         *)
(* An MQTTBus connects with a clean session: a subscriber that is not      *)
(* connected loses what is published meanwhile, a publisher that is not    *)
(* connected queues its QoS 1 messages and sends them when it reconnects,  *)
(* and a message whose PUBACK was lost with the connection is sent twice.  *)
(***************************************************************************)
EXTENDS Naturals, Sequences, FiniteSets

CONSTANTS
    Agents,      \* the test stations
    Runs,        \* the run ids; an Orchestrator instance serves one run
    NoRun,       \* None, where a run id is expected
    Ports,       \* the iperf3 ports, BASE_IPERF3_PORT + i
    Expected,    \* Expected[r]: the stations of the scenario of run r
    Downlink,    \* Downlink[r]: those of them whose direction is downlink
    Port,        \* Port[r][a]: the port run r gives to station a
    MaxActive,   \* how many orchestrators may be open at once
    MaxThreads,  \* bound on the live iperf3 threads of an agent
    Faults       \* how often each kind of fault may occur

FaultKinds == {"dup", "link", "crash", "interrupt", "spawn"}
Threads == 1 .. MaxThreads
RunOrNone == Runs \cup {NoRun}

ASSUME NetAssumption ==
    /\ NoRun \notin Runs
    /\ Ports \subseteq Nat
    /\ Expected \in [Runs -> SUBSET Agents]
    /\ Downlink \in [Runs -> SUBSET Agents]
    /\ Port \in [Runs -> [Agents -> Ports]]
    /\ MaxActive \in Nat
    /\ MaxThreads \in Nat
    /\ Faults \in [FaultKinds -> Nat]

(***************************************************************************)
(* Broadcasts go to every agent on atf/ctrl/broadcast/<cmd>.  Acks and     *)
(* results come back; the body of an ack says whether it carries the IP    *)
(* of the station, the body of a result is its status.                     *)
(***************************************************************************)
Commands == {"prepare", "start_at", "stop", "teardown"}
Command == [cmd : Commands, run : Runs]
Statuses == {"complete", "error"}
Report == [kind : {"ack"}, agent : Agents, run : Runs, body : {"ip", "noip"}]
            \cup [kind : {"result"}, agent : Agents, run : Runs, body : Statuses]

VARIABLES
    inbox,    \* inbox[a]: broadcasts on their way to agent a, in order
    online,   \* the agents connected to the broker
    reports,  \* acks and results on their way to the controller
    session,  \* the run whose bus holds the client id "atf-controller"
    outbox,   \* outbox[r]: publishes of run r queued while not connected
    bound,    \* bound[r]: the ports on which a server of run r listens
    socket,   \* socket[a][p]: the iperf3 server socket of agent a on port p
    left      \* left[k]: how many more faults of kind k may occur

netVars == <<inbox, online, reports, session, outbox, bound, socket, left>>

Sockets == {"closed", "listening", "connected"}

NetTypeOK ==
    /\ inbox \in [Agents -> Seq(Command)]
    /\ online \subseteq Agents
    /\ reports \subseteq Report
    /\ session \in RunOrNone
    /\ outbox \in [Runs -> Seq(Command)]
    /\ bound \in [Runs -> SUBSET Ports]
    /\ socket \in [Agents -> [Ports -> Sockets]]
    /\ left \in [FaultKinds -> Nat]

NetInit ==
    /\ inbox = [a \in Agents |-> << >>]
    /\ online = Agents
    /\ reports = {}
    /\ session = NoRun
    /\ outbox = [r \in Runs |-> << >>]
    /\ bound = [r \in Runs |-> {}]
    /\ socket = [a \in Agents |-> [p \in Ports |-> "closed"]]
    /\ left = Faults

(***************************************************************************)
(* A fault of kind k: there are only Faults[k] of them in a behaviour.     *)
(***************************************************************************)
Spend(k) == left[k] > 0 /\ left' = [left EXCEPT ![k] = @ - 1]

(***************************************************************************)
(* The broker passes the messages ms on to every connected agent.          *)
(***************************************************************************)
Forward(ms) ==
    inbox' = [a \in Agents |-> IF a \in online THEN inbox[a] \o ms ELSE inbox[a]]

(***************************************************************************)
(* MQTTBus.publish of a broadcast by the bus of run r.  A bus that does    *)
(* not hold the session keeps the message until it does.  A connection     *)
(* lost before the PUBACK makes the client send the message again ("dup"). *)
(***************************************************************************)
Publish(r, c) ==
    LET m == [cmd |-> c, run |-> r] IN
    \/ /\ session = r
       /\ \/ Forward(<<m>>) /\ UNCHANGED left
          \/ Forward(<<m, m>>) /\ Spend("dup")
       /\ UNCHANGED outbox
    \/ /\ session # r
       /\ outbox' = [outbox EXCEPT ![r] = Append(@, m)]
       /\ UNCHANGED <<inbox, left>>

(***************************************************************************)
(* An agent publishes the report m; its client queues it while the agent   *)
(* is not connected, so it is in flight either way.                        *)
(***************************************************************************)
Send(m) == reports' = reports \cup {m}

(***************************************************************************)
(* Agent a loses its broker connection, and with it the broadcasts that    *)
(* were under way: the session is clean.                                   *)
(***************************************************************************)
LinkLost(a) ==
    /\ a \in online
    /\ Spend("link")
    /\ online' = online \ {a}
    /\ inbox' = [inbox EXCEPT ![a] = << >>]
    /\ UNCHANGED <<reports, session, outbox, bound, socket>>

(***************************************************************************)
(* The network loop of the client reconnects; _on_connect subscribes again.*)
(***************************************************************************)
Reconnect(a) ==
    /\ a \notin online
    /\ online' = online \cup {a}
    /\ UNCHANGED <<inbox, reports, session, outbox, bound, socket, left>>

(***************************************************************************)
(* The controller's connection breaks: nobody holds its session.           *)
(***************************************************************************)
ControllerLinkLost ==
    /\ session # NoRun
    /\ Spend("link")
    /\ session' = NoRun
    /\ UNCHANGED <<inbox, online, reports, outbox, bound, socket>>

(***************************************************************************)
(* The bus of run r connects as "atf-controller".  The broker closes the   *)
(* session another bus has under this client id; what the bus of r had     *)
(* queued is sent.                                                         *)
(***************************************************************************)
TakeSession(r) ==
    /\ session # r
    /\ session' = r
    /\ Forward(outbox[r])
    /\ outbox' = [outbox EXCEPT ![r] = << >>]
    /\ UNCHANGED <<online, reports, bound, socket, left>>

(***************************************************************************)
(* MQTTBus.disconnect: the queue dies with the client.                     *)
(***************************************************************************)
DropSession(r) ==
    /\ session' = IF session = r THEN NoRun ELSE session
    /\ outbox' = [outbox EXCEPT ![r] = << >>]

(***************************************************************************)
(* The ports the controller has a listening iperf3 server on.              *)
(***************************************************************************)
AllBound == UNION {bound[r] : r \in Runs}

=============================================================================
