----------------------------- MODULE AgentBoard -----------------------------
(***************************************************************************)
(* What the inspector knows of the agents: the heartbeats, retained        *)
(* statuses and last wills of the agents (agent/atf_agent/main.py,         *)
(* shared/mqtt_bus.py) and the InspectorState they end up in               *)
(* (inspector/state.py, server.py).                                        *)
(*                                                                         *)
(* Time passes in seconds (Tick).  Messages are delivered and heartbeats   *)
(* sent in the second they are due.  What a station's state machine does   *)
(* is in AtfAgent: here its state changes at will.  Mishaps bounds what    *)
(* goes wrong: "lag", a second a platform call takes; "link", a connection *)
(* of an agent breaks; "die", an agent is killed; "stop", it is stopped;   *)
(* "restart", of the inspector; "outage", it loses the broker for a while; *)
(* "break", its page loses /events.  OfflineGuard composes the actions     *)
(* below with the page.                                                    *)
(***************************************************************************)
EXTENDS Naturals, Sequences, FiniteSets

CONSTANTS Agents, Mishaps, MaxInFlight

Window == 5   \* AgentState.is_online
Settled == 2  \* how long the history counts a calm agent

MishapKinds == {"lag", "link", "die", "stop", "restart", "outage", "break"}

ASSUME BoardAssumption ==
    /\ IsFiniteSet(Agents)
    /\ Mishaps \in [MishapKinds -> Nat]
    /\ MaxInFlight \in Nat

States == {"BOOT", "IDLE", "RUNNING", "OFFLINE"}
NoState == "none"

VARIABLES
    main,      \* main[a]: where the agent's main thread is
    state,     \* state[a]: ATFAgent._state
    composed,  \* composed[a]: the state in the heartbeat being composed
    link,      \* link[a]: "on", "lost" while the broker has not noticed, "off"
    queued,    \* queued[a]: statuses the client sends when it is connected
    retained,  \* retained[a]: the retained status
    inbox,     \* messages on their way to the inspector
    viewState, \* viewState[a]: AgentState.state, or NoState without an entry
    age,       \* age[a]: seconds since last_seen, up to Window
    listening, \* the inspector is connected to the broker
    hearsay,   \* history: entries made for a status of an agent that was long silent
    silent,    \* history: seconds since a was last running and connected
    calm,      \* history: seconds since anything happened to a
    left       \* how many more mishaps of each kind may occur

agentVars == <<main, state, composed, link, queued>>
viewVars == <<viewState, age, listening, hearsay>>
brokerVars == <<retained, inbox>>
boardVars == <<agentVars, brokerVars, viewVars, silent, calm, left>>

Message == [kind : {"status", "heartbeat"}, agent : Agents, state : States]

BoardTypeOK ==
    /\ main \in [Agents -> {"down", "boot", "sleep", "due", "compose"}]
    /\ state \in [Agents -> States]
    /\ composed \in [Agents -> States \cup {NoState}]
    /\ link \in [Agents -> {"on", "lost", "off"}]
    /\ queued \in [Agents -> Seq(States)]
    /\ retained \in [Agents -> States \cup {NoState}]
    /\ inbox \in Seq(Message)
    /\ viewState \in [Agents -> States \cup {NoState, "UNKNOWN"}]
    /\ age \in [Agents -> 0 .. Window]
    /\ listening \in BOOLEAN /\ hearsay \subseteq Agents
    /\ silent \in [Agents -> 0 .. Window]
    /\ calm \in [Agents -> 0 .. Settled]
    /\ left \in [MishapKinds -> Nat]

BoardInit ==
    /\ main = [a \in Agents |-> "down"]
    /\ state = [a \in Agents |-> "OFFLINE"]
    /\ composed = [a \in Agents |-> NoState]
    /\ link = [a \in Agents |-> "off"]
    /\ queued = [a \in Agents |-> << >>]
    /\ retained = [a \in Agents |-> NoState]
    /\ inbox = << >>
    /\ viewState = [a \in Agents |-> NoState]
    /\ age = [a \in Agents |-> Window]
    /\ listening = TRUE /\ hearsay = {}
    /\ silent = [a \in Agents |-> Window]
    /\ calm = [a \in Agents |-> 0]
    /\ left = Mishaps

Befall(k) == left[k] > 0 /\ left' = [left EXCEPT ![k] = @ - 1]

Up(a) == main[a] # "down"
Online(a) == viewState[a] # NoState /\ age[a] < Window
Stir(a) == calm' = [calm EXCEPT ![a] = 0]
Heard(a) == silent' = [silent EXCEPT ![a] = 0]

-----------------------------------------------------------------------------

(***************************************************************************)
(* The broker: statuses are retained and passed on, heartbeats passed on,  *)
(* to an inspector that is connected.                                      *)
(***************************************************************************)
Statuses(a, ss) == [i \in DOMAIN ss |-> [kind |-> "status", agent |-> a, state |-> ss[i]]]

Retain(a, ss) ==
    /\ inbox' = IF listening THEN inbox \o Statuses(a, ss) ELSE inbox
    /\ retained' = IF ss = << >> THEN retained ELSE [retained EXCEPT ![a] = ss[Len(ss)]]

(***************************************************************************)
(* _set_state: the client queues the status while it is not connected.     *)
(***************************************************************************)
SetState(a, s) ==
    /\ state' = [state EXCEPT ![a] = s]
    /\ IF link[a] = "on"
       THEN Retain(a, <<s>>) /\ UNCHANGED queued
       ELSE queued' = [queued EXCEPT ![a] = Append(@, s)] /\ UNCHANGED <<inbox, retained>>

(***************************************************************************)
(* A new connection under the agent's client id: the broker publishes the  *)
(* will of one it still had.                                               *)
(***************************************************************************)
Will(a) == IF link[a] = "lost" THEN <<"OFFLINE">> ELSE << >>

Start(a) ==
    /\ main[a] = "down"
    /\ main' = [main EXCEPT ![a] = "boot"]
    /\ link' = [link EXCEPT ![a] = "on"]
    /\ state' = [state EXCEPT ![a] = "BOOT"]
    /\ Retain(a, Append(Will(a), "BOOT"))
    /\ Stir(a) /\ Heard(a)
    /\ UNCHANGED <<composed, queued, viewVars, left>>

BootDone(a) ==
    /\ main[a] = "boot"
    /\ main' = [main EXCEPT ![a] = "due"]
    /\ SetState(a, "IDLE")
    /\ Stir(a)
    /\ UNCHANGED <<composed, link, viewVars, silent, left>>

(***************************************************************************)
(* A command or a worker thread changes the state.                         *)
(***************************************************************************)
ChangeState(a) ==
    /\ main[a] \in {"sleep", "due", "compose"}
    /\ Len(inbox) + Len(queued[a]) < MaxInFlight
    /\ SetState(a, IF state[a] = "IDLE" THEN "RUNNING" ELSE "IDLE")
    /\ Stir(a)
    /\ UNCHANGED <<main, composed, link, viewVars, silent, left>>

(***************************************************************************)
(* _run_heartbeat_loop: the payload takes the state first and then asks    *)
(* the platform; the publish is lost while the client is not connected.    *)
(***************************************************************************)
Compose(a) ==
    /\ main[a] = "due"
    /\ main' = [main EXCEPT ![a] = "compose"]
    /\ composed' = [composed EXCEPT ![a] = state[a]]
    /\ UNCHANGED <<state, link, queued, retained, inbox, viewVars, silent, calm, left>>

Beat(a) ==
    /\ main[a] = "compose"
    /\ main' = [main EXCEPT ![a] = "sleep"]
    /\ inbox' = IF link[a] = "on" /\ listening
                THEN Append(inbox, [kind |-> "heartbeat", agent |-> a, state |-> composed[a]])
                ELSE inbox
    /\ composed' = [composed EXCEPT ![a] = NoState]
    /\ UNCHANGED <<state, link, queued, retained, viewVars, silent, calm, left>>

(***************************************************************************)
(* stop() says OFFLINE and disconnects; a killed agent says nothing.       *)
(***************************************************************************)
Stop(a) ==
    /\ Up(a)
    /\ Befall("stop")
    /\ main' = [main EXCEPT ![a] = "down"]
    /\ state' = [state EXCEPT ![a] = "OFFLINE"]
    /\ IF link[a] = "on"
       THEN Retain(a, <<"OFFLINE">>) /\ link' = [link EXCEPT ![a] = "off"]
       ELSE UNCHANGED <<inbox, retained, link>>
    /\ composed' = [composed EXCEPT ![a] = NoState]
    /\ queued' = [queued EXCEPT ![a] = << >>]
    /\ Stir(a)
    /\ UNCHANGED <<viewVars, silent>>

Die(a) ==
    /\ Up(a)
    /\ Befall("die")
    /\ main' = [main EXCEPT ![a] = "down"]
    /\ state' = [state EXCEPT ![a] = "OFFLINE"]
    /\ link' = [link EXCEPT ![a] = IF @ = "on" THEN "lost" ELSE @]
    /\ composed' = [composed EXCEPT ![a] = NoState]
    /\ queued' = [queued EXCEPT ![a] = << >>]
    /\ Stir(a)
    /\ UNCHANGED <<retained, inbox, viewVars, silent>>

(***************************************************************************)
(* The connection breaks; the client connects again, before or after the   *)
(* broker has noticed.  Nothing says the status again.                     *)
(***************************************************************************)
LoseLink(a) ==
    /\ Up(a) /\ link[a] = "on"
    /\ Befall("link")
    /\ link' = [link EXCEPT ![a] = "lost"]
    /\ Stir(a)
    /\ UNCHANGED <<main, state, composed, queued, retained, inbox, viewVars, silent>>

Relink(a) ==
    /\ Up(a) /\ link[a] # "on"
    /\ link' = [link EXCEPT ![a] = "on"]
    /\ Retain(a, Will(a) \o queued[a])
    /\ queued' = [queued EXCEPT ![a] = << >>]
    /\ Stir(a) /\ Heard(a)
    /\ UNCHANGED <<main, state, composed, viewVars, left>>

Notice(a) ==
    /\ link[a] = "lost"
    /\ link' = [link EXCEPT ![a] = "off"]
    /\ Retain(a, <<"OFFLINE">>)
    /\ Stir(a)
    /\ UNCHANGED <<main, state, composed, queued, viewVars, silent, left>>

-----------------------------------------------------------------------------

\* Mutant: a heartbeat is no sign of life.
UpdateHeartbeatStale(m) ==
    /\ viewState' = [viewState EXCEPT ![m.agent] = m.state]
    /\ UNCHANGED age

(***************************************************************************)
(* InspectorState.update_heartbeat                                         *)
(***************************************************************************)
UpdateHeartbeat(m) ==
    /\ viewState' = [viewState EXCEPT ![m.agent] = m.state]
    /\ age' = [age EXCEPT ![m.agent] = 0]

\* Mutant: a status is a sign of life.
UpdateStatusFresh(m) ==
    /\ viewState' = [viewState EXCEPT ![m.agent] = m.state]
    /\ age' = [age EXCEPT ![m.agent] = IF m.state = "OFFLINE" THEN Window ELSE 0]

(***************************************************************************)
(* InspectorState.update_status: a new entry has been seen now, whatever   *)
(* the status; else only OFFLINE changes last_seen.                        *)
(***************************************************************************)
UpdateStatus(m) ==
    /\ viewState' = [viewState EXCEPT ![m.agent] = m.state]
    /\ age' = [age EXCEPT ![m.agent] = IF m.state = "OFFLINE" THEN Window
                                       ELSE IF viewState[m.agent] = NoState THEN 0 ELSE @]

Receive ==
    /\ inbox # << >>
    /\ IF Head(inbox).kind = "heartbeat"
       THEN UpdateHeartbeat(Head(inbox))
       ELSE UpdateStatus(Head(inbox))
    /\ inbox' = Tail(inbox)
    /\ LET a == Head(inbox).agent IN
       hearsay' = IF Head(inbox).kind = "heartbeat" THEN hearsay \ {a}
                  ELSE IF viewState[a] = NoState /\ silent[a] > 0 THEN hearsay \cup {a}
                  ELSE hearsay
    /\ UNCHANGED <<agentVars, listening, retained, silent, calm, left>>

(***************************************************************************)
(* The inspector subscribes: what is retained comes first, in any order    *)
(* of the agents.  A restarted one has forgotten everything; one that lost *)
(* the connection keeps its entries and, with a clean session, gets        *)
(* nothing of what was sent meanwhile.                                     *)
(***************************************************************************)
Orders(S) == {f \in [1 .. Cardinality(S) -> S] : \A a \in S : \E i \in DOMAIN f : f[i] = a}

Resubscribe ==
    /\ \E f \in Orders({a \in Agents : retained[a] # NoState}) :
          inbox' = [i \in DOMAIN f |->
                       [kind |-> "status", agent |-> f[i], state |-> retained[f[i]]]]
    /\ listening' = TRUE
    /\ calm' = [a \in Agents |-> 0]
    /\ UNCHANGED <<agentVars, retained, silent>>

RestartInspector ==
    /\ Befall("restart")
    /\ Resubscribe
    /\ viewState' = [a \in Agents |-> NoState]
    /\ age' = [a \in Agents |-> Window]
    /\ hearsay' = {}

LoseInspector ==
    /\ listening
    /\ Befall("outage")
    /\ listening' = FALSE
    /\ inbox' = << >>
    /\ calm' = [a \in Agents |-> 0]
    /\ UNCHANGED <<agentVars, retained, viewState, age, hearsay, silent>>

ReconnectInspector ==
    /\ ~listening
    /\ Resubscribe
    /\ UNCHANGED <<viewState, age, hearsay, left>>

-----------------------------------------------------------------------------

(***************************************************************************)
(* A second passes: everything due in the former one has happened, except  *)
(* that a platform call may hold up a heartbeat ("lag").                   *)
(***************************************************************************)
Late(n, max) == IF n < max THEN n + 1 ELSE n
Lagging == {a \in Agents : main[a] = "compose"}

Tick ==
    /\ inbox = << >> /\ \A a \in Agents : main[a] # "due"
    /\ IF Lagging = {} THEN UNCHANGED left ELSE Befall("lag")
    /\ main' = [a \in Agents |-> IF main[a] = "sleep" THEN "due" ELSE main[a]]
    /\ age' = [a \in Agents |-> Late(age[a], Window)]
    /\ silent' = [a \in Agents |-> IF Up(a) /\ link[a] = "on" THEN 0 ELSE Late(silent[a], Window)]
    /\ calm' = [a \in Agents |->
                   IF a \in Lagging \/ ~listening THEN 0 ELSE Late(calm[a], Settled)]
    /\ UNCHANGED <<state, composed, link, queued, retained, inbox, viewState, listening, hearsay>>

AgentStep(a) ==
    \/ Start(a) \/ BootDone(a) \/ ChangeState(a) \/ Compose(a) \/ Beat(a)
    \/ Stop(a) \/ Die(a) \/ LoseLink(a) \/ Relink(a) \/ Notice(a)

-----------------------------------------------------------------------------

(***************************************************************************)
(* Heartbeats repair whatever statuses, wills and stale heartbeats have    *)
(* done to the view: a running, connected agent to which nothing has       *)
(* happened for two seconds is online in the inspector, with its state.    *)
(***************************************************************************)
CaughtUp ==
    \A a \in {b \in Agents : main[b] \in {"sleep", "due", "compose"} /\ link[b] = "on"} :
        calm[a] = Settled /\ inbox = << >> => Online(a) /\ viewState[a] = state[a]

(***************************************************************************)
(* An agent that has been gone or cut off for the five seconds of          *)
(* is_online is not online, also when its retained status or its late will *)
(* comes again; but an inspector that has no entry of it makes one, seen   *)
(* now, of a status that says anything but OFFLINE (update_status).        *)
(***************************************************************************)
Gone(a) == silent[a] = Window /\ ~(Up(a) /\ link[a] = "on")

GoneIsShown == \A a \in Agents \ hearsay : Gone(a) => ~Online(a)

=============================================================================
