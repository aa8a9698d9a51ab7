------------------------------- MODULE MqttBus -------------------------------
(***************************************************************************)
(* shared/mqtt_bus.py: the thread of the client answers connections and    *)
(* messages while the main thread adds subscriptions, both on the one      *)
(* dictionary of callbacks.                                                *)
(***************************************************************************)
EXTENDS Integers, Sequences, Functions

CONSTANTS
    Topics,       \* patterns the program subscribes to, no two alike
    MaxDrops,     \* bound: broken connections
    MaxMessages   \* bound: messages delivered

VARIABLES
    dict,      \* _subscriptions, in the order of insertion
    main,      \* subscribe: the pattern the main thread is adding, and how far it is
    net,       \* the client's thread: connection, snapshot or iteration under way
    atBroker,  \* pattern -> QoS, for this connection (the session is clean)
    drops, messages

busVars == <<dict, main, net, atBroker, drops, messages>>

Rest == [pc |-> "rest", todo |-> <<>>, size |-> 0, topic |-> "none"]

BusInit ==
    /\ dict = <<>> /\ atBroker = <<>>
    /\ main = [pc |-> "rest", topic |-> "none"]
    /\ net = [Rest EXCEPT !.pc = "down"]
    /\ drops = 0 /\ messages = 0

Grant(topic, qos) == atBroker' = [t \in DOMAIN atBroker \cup {topic} |->
                                    IF t = topic THEN qos ELSE atBroker[t]]

\* Mutant: the request first.
AddEntryLate(topic) ==
    /\ topic \notin Range(dict)
    /\ \/ /\ main.pc = "rest" /\ UNCHANGED dict
          /\ main' = [pc |-> "entry", topic |-> topic]
          /\ IF net.pc \in {"down", "dead"} THEN UNCHANGED atBroker ELSE Grant(topic, 1)
       \/ /\ main.pc = "entry" /\ topic = main.topic
          /\ dict' = Append(dict, topic)
          /\ main' = [main EXCEPT !.pc = "rest"]
          /\ UNCHANGED atBroker
    /\ UNCHANGED <<net, drops, messages>>

(* subscribe: the entry first, then the request, which paho refuses        *)
(* without a word while there is no connection.                            *)
AddEntry(topic) ==
    /\ main.pc = "rest" /\ topic \notin Range(dict)
    /\ dict' = Append(dict, topic)
    /\ main' = [pc |-> "request", topic |-> topic]
    /\ UNCHANGED <<net, atBroker, drops, messages>>

Request ==
    /\ main.pc = "request"
    /\ main' = [main EXCEPT !.pc = "rest"]
    /\ IF net.pc \in {"down", "dead"} THEN UNCHANGED atBroker ELSE Grant(main.topic, 1)
    /\ UNCHANGED <<dict, net, drops, messages>>

(* _on_connect: a snapshot of the keys, then one request after the other,  *)
(* each at paho's default QoS of 0.                                        *)
OnConnect ==
    /\ net.pc = "down"
    /\ net' = [Rest EXCEPT !.pc = "resubscribe", !.todo = dict]
    /\ UNCHANGED <<dict, main, atBroker, drops, messages>>

Resubscribe ==
    /\ net.pc = "resubscribe"
    /\ IF net.todo = <<>> THEN net' = Rest /\ UNCHANGED atBroker
       ELSE net' = [net EXCEPT !.todo = Tail(@)] /\ Grant(Head(net.todo), 0)
    /\ UNCHANGED <<dict, main, drops, messages>>

(* _on_disconnect; the broker forgets a clean session.                     *)
OnDisconnect ==
    /\ net.pc \in {"rest", "resubscribe"} /\ drops < MaxDrops
    /\ drops' = drops + 1
    /\ net' = [Rest EXCEPT !.pc = "down"] /\ atBroker' = <<>>
    /\ UNCHANGED <<dict, main, messages>>

(* _on_message: the dictionary itself is iterated over, up to the pattern  *)
(* that matches; an iterator that finds it grown raises, and paho lets the *)
(* exception end the thread.                                               *)
OnMessage(topic) ==
    /\ net.pc = "rest" /\ topic \in DOMAIN atBroker /\ messages < MaxMessages
    /\ messages' = messages + 1
    /\ net' = [pc |-> "iterate", todo |-> dict, size |-> Len(dict), topic |-> topic]
    /\ UNCHANGED <<dict, main, atBroker, drops>>

Iterate ==
    /\ net.pc = "iterate"
    /\ net' = IF Len(dict) # net.size THEN [Rest EXCEPT !.pc = "dead"]
              ELSE IF net.todo = <<>> \/ Head(net.todo) = net.topic THEN Rest
              ELSE [net EXCEPT !.todo = Tail(@)]
    /\ UNCHANGED <<dict, main, atBroker, drops, messages>>

BusNext ==
    \/ \E topic \in Topics : AddEntry(topic) \/ OnMessage(topic)
    \/ Request \/ OnConnect \/ Resubscribe \/ OnDisconnect \/ Iterate

(* Once a connection has been answered and no call of subscribe is under   *)
(* way, the broker has every pattern of the dictionary, whichever way the  *)
(* two threads met (subscribe, _on_connect).                               *)
AllSubscribed ==
    net.pc \in {"rest", "iterate"} /\ main.pc = "rest" => Range(dict) \subseteq DOMAIN atBroker

(* The thread of the client outlives what the main thread does: the        *)
(* comment in _on_connect takes care that a subscription added meanwhile   *)
(* does not make an iteration fail.                                        *)
DispatchSurvives == net.pc # "dead"

=============================================================================
