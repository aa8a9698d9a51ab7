---------------------------- MODULE EventsStream ----------------------------
(***************************************************************************)
(* GET /events of the inspector (inspector/server.py): every page has a    *)
(* generator that sends the list of agents and waits for _update_event,    *)
(* one asyncio.Event for all of them, which the MQTT thread sets through   *)
(* the event loop and each generator clears.  The list is a version        *)
(* number: it grows when the MQTT thread updates the InspectorState, and   *)
(* when time takes an agent offline, which notifies nobody.                *)
(***************************************************************************)
EXTENDS Naturals

CONSTANTS
    Clients,     \* the pages
    MaxUpdates,  \* how many updates come from the MQTT thread
    MaxExpiries  \* how many agents go offline by the clock

ASSUME EventsAssumption == MaxUpdates \in Nat /\ MaxExpiries \in Nat

MaxVersion == MaxUpdates + MaxExpiries

VARIABLES
    version,  \* the version of InspectorState
    updates,  \* how many of its changes were updates
    sets,     \* calls of _update_event.set the event loop still has to make
    flag,     \* _update_event is set
    gen,      \* gen[c]: where the generator of page c is, or "closed"
    snap,     \* snap[c]: the version it has listed last
    page,     \* page[c]: the version page c shows
    notified  \* history: the version of the last update that was notified

vars == <<version, updates, sets, flag, gen, snap, page, notified>>

GenSteps == {"closed", "listing", "sending", "entering", "waiting", "woken"}

TypeOK ==
    /\ version \in 0 .. MaxVersion
    /\ updates \in 0 .. MaxUpdates
    /\ sets \in 0 .. MaxUpdates
    /\ flag \in BOOLEAN
    /\ gen \in [Clients -> GenSteps]
    /\ snap \in [Clients -> 0 .. MaxVersion]
    /\ page \in [Clients -> 0 .. MaxVersion]
    /\ notified \in 0 .. MaxVersion

Init ==
    /\ version = 0 /\ updates = 0 /\ sets = 0 /\ notified = 0
    /\ flag = FALSE
    /\ gen = [c \in Clients |-> "closed"]
    /\ snap = [c \in Clients |-> 0]
    /\ page = [c \in Clients |-> 0]

Go(c, from, to) == gen[c] = from /\ gen' = [gen EXCEPT ![c] = to]

-----------------------------------------------------------------------------

(***************************************************************************)
(* _on_heartbeat, _on_status: update, then _notify.                        *)
(***************************************************************************)
Update ==
    /\ updates < MaxUpdates
    /\ version' = version + 1
    /\ updates' = updates + 1
    /\ sets' = sets + 1
    /\ notified' = version'
    /\ UNCHANGED <<flag, gen, snap, page>>

(***************************************************************************)
(* is_online becomes false by the clock.                                   *)
(***************************************************************************)
Expire ==
    /\ version - updates < MaxExpiries
    /\ version' = version + 1
    /\ UNCHANGED <<updates, sets, flag, gen, snap, page, notified>>

\* Mutant: the event is set unasked.
SetEventUnasked ==
    /\ sets' = sets - 1
    /\ flag' = TRUE
    /\ UNCHANGED <<version, updates, gen, snap, page, notified>>

(***************************************************************************)
(* The event loop runs _update_event.set: all waiters wake up.             *)
(***************************************************************************)
SetEvent ==
    /\ sets > 0
    /\ sets' = sets - 1
    /\ flag' = TRUE
    /\ gen' = [c \in Clients |-> IF gen[c] = "waiting" THEN "woken" ELSE gen[c]]
    /\ UNCHANGED <<version, updates, snap, page, notified>>

(***************************************************************************)
(* A page connects or goes away.                                           *)
(***************************************************************************)
Open(c) ==
    /\ Go(c, "closed", "listing")
    /\ page' = [page EXCEPT ![c] = 0]
    /\ UNCHANGED <<version, updates, sets, flag, snap, notified>>

Leave(c) ==
    /\ gen[c] # "closed"
    /\ gen' = [gen EXCEPT ![c] = "closed"]
    /\ UNCHANGED <<version, updates, sets, flag, snap, page, notified>>

(***************************************************************************)
(* One turn of the generator: list, send, and start the task that waits.   *)
(* The task finds the event set or waits; other generators run in between. *)
(***************************************************************************)
List(c) ==
    /\ Go(c, "listing", "sending")
    /\ snap' = [snap EXCEPT ![c] = version]
    /\ UNCHANGED <<version, updates, sets, flag, page, notified>>

Sent(c) ==
    /\ Go(c, "sending", "entering")
    /\ page' = [page EXCEPT ![c] = snap[c]]
    /\ UNCHANGED <<version, updates, sets, flag, snap, notified>>

Enter(c) ==
    /\ Go(c, "entering", IF flag THEN "woken" ELSE "waiting")
    /\ UNCHANGED <<version, updates, sets, flag, snap, page, notified>>

Resume(c) ==
    /\ Go(c, "woken", "listing")
    /\ flag' = FALSE
    /\ UNCHANGED <<version, updates, sets, snap, page, notified>>

\* Mutant: wait without a timeout.
TimeoutNever(c) == FALSE /\ Go(c, "waiting", "listing")

(***************************************************************************)
(* The timeout of two seconds; it may also beat a wake-up, and then the    *)
(* event stays set.                                                        *)
(***************************************************************************)
Timeout(c) ==
    /\ \/ Go(c, "waiting", "listing")
       \/ Go(c, "woken", "listing")
    /\ UNCHANGED <<version, updates, sets, flag, snap, page, notified>>

Generator(c) == List(c) \/ Sent(c) \/ Enter(c) \/ Resume(c) \/ Timeout(c)

Next ==
    \/ Update \/ Expire \/ SetEvent
    \/ \E c \in Clients : Open(c) \/ Leave(c) \/ Generator(c)

Spec == Init /\ [][Next]_vars

(***************************************************************************)
(* The event loop goes on.  Pages and agents need not do anything.         *)
(***************************************************************************)
Fairness ==
    /\ WF_vars(SetEvent)
    /\ \A c \in Clients : WF_vars(Generator(c))

-----------------------------------------------------------------------------

(***************************************************************************)
(* The docstring of sse_events: "pushes full agent list on every state     *)
(* change".  A generator that waits has listed the last notified update,   *)
(* or the event loop is about to wake it.  Holds of a page that is alone   *)
(* (PageProofs); another page may clear the event first.                   *)
(***************************************************************************)
NoMissedUpdate ==
    \A c \in Clients : gen[c] = "waiting" /\ sets = 0 => snap[c] >= notified

(***************************************************************************)
(* Whatever was missed, and whatever only the clock has changed, every     *)
(* page that stays connected shows the last version in the end.            *)
(***************************************************************************)
PagesCatchUp ==
    \A c \in Clients :
        \A v \in 1 .. MaxVersion : version = v ~> (page[c] >= v \/ gen[c] = "closed")

=============================================================================
