---------------------------- MODULE OfflineGuard ----------------------------
(***************************************************************************)
(* The page over the AgentBoard (templates/index.html): the list of agents *)
(* it gets on /events (inspector/server.py, sse_events), the selection of  *)
(* devices for a run, and the guard that takes a device out of it when the *)
(* device has been offline for eight seconds.  One page, so the update     *)
(* event has one waiter; EventsStream has more.                            *)
(***************************************************************************)
EXTENDS AgentBoard

Grace == 8    \* OFFLINE_GRACE_MS
Period == 2   \* the timeout of sse_events
NoTimer == Grace + 1
Patience == Period + Grace  \* how long a device that is gone stays selected

VARIABLES
    stream,    \* the page's EventSource on /events is connected
    notified,  \* _update_event is set
    since,     \* seconds since the page got a message
    shown,     \* the agents that are online in the page's agents
    selected,  \* the page's selected
    timer,     \* timer[a]: seconds until the offline timer fires, or NoTimer
    running,   \* the page's runId is not null
    locked,    \* and was so when renderAgentList drew the list
    back,      \* history: who has been online in the inspector for a second
    gone       \* history: seconds for which the guard has had to act on a

pageVars == <<stream, notified, since, shown, selected, timer, running, locked, back, gone>>
vars == <<boardVars, pageVars>>

TypeOK ==
    /\ BoardTypeOK
    /\ stream \in BOOLEAN /\ notified \in BOOLEAN /\ running \in BOOLEAN /\ locked \in BOOLEAN
    /\ since \in 0 .. Period
    /\ shown \subseteq Agents /\ selected \subseteq Agents /\ back \subseteq Agents
    /\ timer \in [Agents -> 0 .. NoTimer]
    /\ gone \in [Agents -> 0 .. Patience + 1]

Init ==
    /\ BoardInit
    /\ stream = TRUE /\ notified = FALSE /\ running = FALSE /\ locked = FALSE
    /\ since = 0
    /\ shown = {} /\ selected = {} /\ back = {}
    /\ timer = [a \in Agents |-> NoTimer]
    /\ gone = [a \in Agents |-> 0]

-----------------------------------------------------------------------------

\* Mutants: an agent that is back keeps its timer; every message starts it again;
\* it starts a second too long.
OnMessageKeeping(known, on) ==
    timer' = [a \in Agents |->
        IF a \in known \ on /\ a \in selected /\ timer[a] = NoTimer /\ ~running THEN Grace ELSE timer[a]]

OnMessageRestarting(known, on) ==
    timer' = [a \in Agents |->
        CASE a \in on -> NoTimer
          [] a \in known \ on /\ a \in selected /\ ~running -> Grace
          [] OTHER -> timer[a]]

OnMessageLong(known, on) ==
    timer' = [a \in Agents |->
        IF a \in known \ on /\ a \in selected /\ timer[a] = NoTimer THEN NoTimer + 1 ELSE timer[a]]

(***************************************************************************)
(* agentEs.onmessage: who is back loses its timer, who is offline and      *)
(* selected gets one, unless a run is on.                                  *)
(***************************************************************************)
OnMessage(known, on) ==
    timer' = [a \in Agents |->
        CASE a \in on -> NoTimer
          [] a \in known \ on /\ a \in selected /\ timer[a] = NoTimer /\ ~running -> Grace
          [] OTHER -> timer[a]]

(***************************************************************************)
(* sse_events sends the list when it is notified, or after its timeout.    *)
(* Agents the inspector does not know are not in the list; the handler     *)
(* leaves their timers alone.                                              *)
(***************************************************************************)
Push ==
    LET known == {a \in Agents : viewState[a] # NoState}
        on == {a \in known : Online(a)} IN
    /\ stream
    /\ notified \/ since > 0
    /\ OnMessage(known, on)
    /\ shown' = on
    /\ since' = 0
    /\ notified' = FALSE
    /\ locked' = running
    /\ UNCHANGED <<boardVars, stream, selected, running, back, gone>>

(***************************************************************************)
(* The page loses /events; the EventSource connects again by itself, and a *)
(* new generator sends the list at once.                                   *)
(***************************************************************************)
Wait(as) == gone' = [a \in Agents |-> IF a \in as THEN 0 ELSE gone[a]]

Break ==
    /\ stream
    /\ Befall("break")
    /\ stream' = FALSE
    /\ Wait(Agents)
    /\ UNCHANGED <<agentVars, brokerVars, viewVars, silent, calm>>
    /\ UNCHANGED <<notified, since, shown, selected, timer, running, locked, back>>

Rejoin ==
    /\ ~stream
    /\ stream' = TRUE
    /\ notified' = TRUE
    /\ UNCHANGED <<boardVars, since, shown, selected, timer, running, locked, back, gone>>

(***************************************************************************)
(* toggleAgent, for agents the list lets the user toggle.  Like the        *)
(* message handler and the timer, it draws the list again.                 *)
(***************************************************************************)
Toggle(a) ==
    /\ ~locked
    /\ a \in shown \/ (a \in selected /\ timer[a] # NoTimer)
    /\ selected' = IF a \in selected THEN selected \ {a} ELSE selected \cup {a}
    /\ locked' = running
    /\ Wait({a})
    /\ UNCHANGED <<boardVars, notified, stream, since, shown, timer, running, back>>

(***************************************************************************)
(* The offline timer of an agent.                                          *)
(***************************************************************************)
Fire(a) ==
    /\ timer[a] = 0
    /\ timer' = [timer EXCEPT ![a] = NoTimer]
    /\ selected' = selected \ {a}
    /\ locked' = IF a \in selected THEN running ELSE locked
    /\ UNCHANGED <<boardVars, notified, stream, since, shown, running, back, gone>>

(***************************************************************************)
(* runId is set and reset (see RunConsole).                                *)
(***************************************************************************)
SetRun ==
    /\ running \/ selected # {}
    /\ running' = ~running
    /\ Wait(Agents)
    /\ UNCHANGED <<boardVars, notified, stream, since, shown, selected, timer, locked, back>>

-----------------------------------------------------------------------------

(***************************************************************************)
(* What a step of the board is to the page: an update of the               *)
(* InspectorState notifies, a restart of the inspector breaks the stream.  *)
(***************************************************************************)
BoardStep ==
    \/ /\ (\E a \in Agents : AgentStep(a)) \/ LoseInspector \/ ReconnectInspector
       /\ UNCHANGED pageVars
    \/ /\ Receive
       /\ notified' = TRUE
       /\ Wait({a \in Agents : age'[a] = 0})
       /\ UNCHANGED <<stream, since, shown, selected, timer, running, locked, back>>
    \/ /\ RestartInspector
       /\ stream' = FALSE
       /\ Wait(Agents)
       /\ UNCHANGED <<notified, since, shown, selected, timer, running, locked, back>>

(***************************************************************************)
(* A second passes for the page too, when due timers have fired and an     *)
(* open stream has sent what it has to.                                    *)
(***************************************************************************)
PageTick ==
    /\ Tick
    /\ \A a \in Agents : timer[a] # 0
    /\ stream => ~notified /\ since < Period
    /\ timer' = [a \in Agents |-> IF timer[a] = NoTimer THEN NoTimer ELSE timer[a] - 1]
    /\ since' = Late(since, Period)
    /\ back' = {a \in Agents : Online(a) /\ age'[a] < Window}
    /\ gone' = [a \in Agents |->
          IF a \in selected \ back' /\ viewState[a] # NoState /\ stream /\ ~running
          THEN Late(gone[a], Patience + 1) ELSE 0]
    /\ UNCHANGED <<stream, notified, shown, selected, running, locked>>

Next ==
    \/ BoardStep
    \/ \E a \in Agents : Toggle(a) \/ Fire(a)
    \/ Push \/ Break \/ Rejoin \/ SetRun
    \/ PageTick

Spec == Init /\ [][Next]_vars

-----------------------------------------------------------------------------

(***************************************************************************)
(* The offline guard: a device that came back in time, a second ago or     *)
(* more, is not deselected when its timer fires.  A page that has lost     *)
(* /events, by itself or by a restart of the inspector, may not have heard *)
(* that the device is back.                                                *)
(***************************************************************************)
EventsKept == \A k \in {"restart", "break"} : left[k] = Mishaps[k]

GuardPatient ==
    [][EventsKept => \A a \in Agents : Fire(a) /\ a \in selected => ~(Online(a) /\ a \in back)]_vars

(***************************************************************************)
(* And it does act: while the page is connected and no run is on, a device *)
(* that is offline in the inspector is still selected for no longer than   *)
(* it takes to tell the page and to wait the eight seconds.                *)
(***************************************************************************)
GuardActs == \A a \in Agents : gone[a] <= Patience

=============================================================================
