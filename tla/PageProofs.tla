----------------------------- MODULE PageProofs -----------------------------
(***************************************************************************)
(* What the page shows, for any number of pages, agents, updates and runs: *)
(* the list of agents over the events stream, and the chart of the runs.   *)
(***************************************************************************)
EXTENDS MCPage, FiniteSetTheorems, TLAPS

(***************************************************************************)
(* The events stream.  A page that has the events to itself misses no      *)
(* update, however many there are; next to a second page it may.  The flag *)
(* is the link between an update and the next listing: as long as it is    *)
(* not set, and the event loop owes no call, what the generator has listed *)
(* is not older than the last notified update.                             *)
(***************************************************************************)

Counted ==
    /\ updates <= version /\ version - updates <= MaxExpiries
    /\ sets <= updates
    /\ notified <= version

WaitsUnset == flag => \A c \in Clients : gen[c] # "waiting"

EInv == TypeOK /\ Counted /\ WaitsUnset

Listed(c) == gen[c] \in {"sending", "entering", "waiting"}

Linked == \A c \in Clients : Listed(c) /\ sets = 0 /\ ~flag => snap[c] >= notified

-----------------------------------------------------------------------------

(***************************************************************************)
(* The initial states have the types and counts.                           *)
(***************************************************************************)
LEMMA EInvInit == Init => EInv
<1> SUFFICES ASSUME Init
             PROVE  EInv
  OBVIOUS
<1> USE EventsAssumption DEF Init
<1>1. TypeOK
  <2>1. 0 \in 0 .. MaxVersion /\ 0 \in 0 .. MaxUpdates
    BY DEF MaxVersion
  <2> QED
    BY <2>1, Zenon DEF TypeOK, GenSteps
<1>2. Counted
  BY DEF Counted
<1>3. WaitsUnset
  BY DEF WaitsUnset
<1> QED
  BY <1>1, <1>2, <1>3 DEF EInv

(***************************************************************************)
(* Every step keeps them, however many pages there are: SetEvent wakes all *)
(* waiters, and a generator enters the wait only when the event is unset.  *)
(***************************************************************************)
LEMMA EInvStep == EInv /\ [Next]_vars => EInv'
<1> SUFFICES ASSUME EInv, [Next]_vars
             PROVE  EInv'
  OBVIOUS
<1> USE EventsAssumption DEF EInv, TypeOK, Counted, WaitsUnset, MaxVersion, GenSteps
<1>1. CASE Update
  BY <1>1 DEF Update
<1>2. CASE Expire
  BY <1>2 DEF Expire
<1>3. CASE SetEvent
  BY <1>3 DEF SetEvent
<1>4. ASSUME NEW c \in Clients, Open(c) \/ Leave(c) \/ List(c) \/ Sent(c)
      PROVE  EInv'
  BY <1>4 DEF Open, Leave, List, Sent, Go
<1>5. ASSUME NEW c \in Clients, Enter(c)
      PROVE  EInv'
  <2>1. CASE flag
    BY <1>5, <2>1 DEF Enter, Go
  <2>2. CASE ~flag
    BY <1>5, <2>2 DEF Enter, Go
  <2> QED
    BY <2>1, <2>2
<1>6. ASSUME NEW c \in Clients, Resume(c)
      PROVE  EInv'
  BY <1>6 DEF Resume, Go
<1>7. ASSUME NEW c \in Clients, Timeout(c)
      PROVE  EInv'
  <2>1. CASE Go(c, "waiting", "listing")
    BY <1>7, <2>1 DEF Timeout, Go
  <2>2. CASE Go(c, "woken", "listing")
    BY <1>7, <2>2 DEF Timeout, Go
  <2> QED
    BY <1>7, <2>1, <2>2 DEF Timeout
<1>8. CASE UNCHANGED vars
  BY <1>8 DEF vars
<1> QED
  BY <1>1, <1>2, <1>3, <1>4, <1>5, <1>6, <1>7, <1>8 DEF Next, Generator

(***************************************************************************)
(* Every variable of the events stream keeps its type, for any pages.      *)
(***************************************************************************)
THEOREM EventsTyped == Spec => []TypeOK
<1>1. EInv => TypeOK
  BY DEF EInv
<1> QED
  BY <1>1, EInvInit, EInvStep, PTL DEF Spec

-----------------------------------------------------------------------------

(***************************************************************************)
(* With one page, what it has listed stays up to date until the event is   *)
(* set: nobody else clears it.                                             *)
(***************************************************************************)
LEMMA LinkedStep ==
    ASSUME NEW p, Clients = {p}, EInv, Linked, [Next]_vars
    PROVE  Linked'
<1> USE DEF EInv, TypeOK, Counted, Linked, Listed
<1>1. CASE Update
  BY <1>1 DEF Update
<1>2. CASE Expire
  BY <1>2 DEF Expire
<1>3. CASE SetEvent
  BY <1>3 DEF SetEvent
<1>4. ASSUME NEW c \in Clients, Open(c) \/ Leave(c) \/ List(c) \/ Sent(c)
      PROVE  Linked'
  BY <1>4 DEF Open, Leave, List, Sent, Go
<1>5. ASSUME NEW c \in Clients, Enter(c) \/ Resume(c) \/ Timeout(c)
      PROVE  Linked'
  BY <1>5 DEF Enter, Resume, Timeout, Go
<1>6. CASE UNCHANGED vars
  BY <1>6 DEF vars
<1> QED
  BY <1>1, <1>2, <1>3, <1>4, <1>5, <1>6 DEF Next, Generator

(***************************************************************************)
(* A single page misses no update (the docstring of sse_events).           *)
(***************************************************************************)
THEOREM OnePageMissesNothing ==
    (\E p : Clients = {p}) => (Spec => []NoMissedUpdate)
<1> SUFFICES ASSUME NEW p, Clients = {p}
             PROVE  Spec => []NoMissedUpdate
  OBVIOUS
<1>1. Init => EInv /\ Linked
  BY EInvInit DEF Init, Linked, Listed
<1>2. EInv /\ Linked /\ [Next]_vars => (EInv /\ Linked)'
  BY EInvStep, LinkedStep
<1>3. EInv /\ Linked => NoMissedUpdate
  BY DEF EInv, Linked, Listed, WaitsUnset, NoMissedUpdate
<1> QED
  BY <1>1, <1>2, <1>3, PTL DEF Spec

-----------------------------------------------------------------------------

(***************************************************************************)
(* The chart, whose steps are those of the agents' lines and the timers.   *)
(***************************************************************************)
ChartSpec == ChartInit /\ [][ChartNext]_chartVars

ChartTyped ==
    /\ run \in [number : 0..MaxRuns, phase : {"idle", "posting", "live", "done"}, posts : Nat, streams : Nat]
    /\ run.posts + run.streams <= run.number
    /\ Live => run.streams > 0
    /\ queue \in [Ids -> Seq(Nat)]
    /\ arrived \in [Ids -> Nat] /\ gaps \in [Ids -> Nat]
    /\ slots \in [Ids -> [1..Duration -> Nat]]
    /\ sec \in 0..Duration
    /\ timeouts \subseteq 1..MaxRuns /\ intervals \subseteq 1..MaxRuns
    /\ metronome \in 0..MaxRuns
    /\ elapsed \in BOOLEAN /\ strayed \in BOOLEAN

(***************************************************************************)
(* Without a stray timer at most the interval of the live run ticks, and   *)
(* the page has its handle.                                                *)
(***************************************************************************)
Handled ==
    /\ elapsed => Live
    /\ ~strayed /\ intervals # {} => Live /\ intervals = {metronome} /\ metronome = run.number

(***************************************************************************)
(* What waits are the last samples that came, and what is drawn came       *)
(* before them.                                                            *)
(***************************************************************************)
Passed(id) == arrived[id] - Len(queue[id])

Upcoming(id) ==
    /\ Len(queue[id]) <= arrived[id]
    /\ \A i \in 1..Len(queue[id]) : queue[id][i] = Passed(id) + i
    /\ \A i \in 1..Duration : slots[id][i] <= Passed(id)

Ordered(id) == \A i, j \in Drawn(id) : i < j => slots[id][i] < slots[id][j]

(***************************************************************************)
(* The slots to come are empty, and each one behind has taken a sample or  *)
(* is counted as a gap; samples are dropped only when all slots are.       *)
(***************************************************************************)
Accounted(id) ==
    /\ \A i \in 1..Duration : i > sec => slots[id][i] = 0
    /\ Cardinality(Drawn(id)) = sec - gaps[id]
    /\ sec - gaps[id] <= Passed(id)
    /\ sec < Duration => sec - gaps[id] = Passed(id)

(***************************************************************************)
(* The chart is that of one run, to come or live; and what has drawn on it *)
(* beside the timers of that run.                                          *)
(***************************************************************************)
UnderWay == run.streams = 0 \/ (run.streams = 1 /\ Live)
Disturbed == strayed \/ run.streams > 1

Line(id) ==
    /\ Upcoming(id)
    /\ UnderWay \/ ~Disturbed => Ordered(id)
    /\ UnderWay => Accounted(id)

ChartInv == ChartTyped /\ Handled /\ \A id \in Ids : Line(id)

LEMMA ChartTypes ==
  ASSUME ChartTyped, NEW id \in Ids
  PROVE  /\ queue[id] \in Seq(Nat) /\ Len(queue[id]) \in Nat /\ arrived[id] \in Nat /\ gaps[id] \in Nat
         /\ slots[id] \in [1..Duration -> Nat] /\ sec \in 0..Duration /\ Duration \in Nat
         /\ Drawn(id) \subseteq 1..Duration /\ IsFiniteSet(Drawn(id)) /\ Cardinality(Drawn(id)) \in Nat
<1>1. /\ queue[id] \in Seq(Nat) /\ arrived[id] \in Nat /\ gaps[id] \in Nat
      /\ slots[id] \in [1..Duration -> Nat] /\ sec \in 0..Duration /\ Duration \in Nat
  BY ChartAssumption DEF ChartTyped
<1>2. Drawn(id) \in SUBSET (1..Duration) /\ IsFiniteSet(1..Duration)
  BY <1>1, FS_Interval DEF Drawn
<1>3. IsFiniteSet(Drawn(id))
  BY <1>2, FS_Subset
<1> QED BY <1>1, <1>2, <1>3, FS_CardinalityType

LEMMA TailOfQueue ==
  ASSUME NEW s \in Seq(Nat), s # << >>
  PROVE  /\ Tail(s) \in Seq(Nat) /\ Head(s) = s[1] /\ Head(s) \in Nat
         /\ Len(s) \in Nat \ {0} /\ Len(Tail(s)) = Len(s) - 1
         /\ \A i \in 1..Len(s) - 1 : Tail(s)[i] = s[i + 1]
OBVIOUS

LEMMA TickTyped ==
  ASSUME ChartTyped, MetronomeTick
  PROVE  /\ queue' \in [Ids -> Seq(Nat)] /\ gaps' \in [Ids -> Nat]
         /\ slots' \in [Ids -> [1..Duration -> Nat]] /\ sec' \in 0..Duration
<1>1. ASSUME NEW id \in Ids
      PROVE  /\ (IF queue[id] = << >> THEN << >> ELSE Tail(queue[id])) \in Seq(Nat)
             /\ (IF queue[id] = << >> THEN 0 ELSE Head(queue[id])) \in Nat
  <2>1. queue[id] \in Seq(Nat)
    BY DEF ChartTyped
  <2> QED BY <2>1, TailOfQueue
<1>2. queue' \in [Ids -> Seq(Nat)]
  BY <1>1 DEF MetronomeTick
<1>3. gaps' \in [Ids -> Nat]
  BY DEF MetronomeTick, ChartTyped
<1>4. sec' \in 0..Duration
  BY ChartAssumption DEF MetronomeTick, ChartTyped
<1>5. ASSUME NEW id \in Ids PROVE slots'[id] \in [1..Duration -> Nat]
  <2>1. slots[id] \in [1..Duration -> Nat]
    BY DEF ChartTyped
  <2>2. slots'[id] = IF sec = Duration THEN slots[id]
                     ELSE [slots[id] EXCEPT ![sec + 1] = IF queue[id] = << >> THEN 0 ELSE Head(queue[id])]
    BY DEF MetronomeTick
  <2> QED BY <1>1, <2>1, <2>2
<1>6. slots' = [id \in Ids |-> slots'[id]]
  BY DEF MetronomeTick
<1>7. slots' \in [Ids -> [1..Duration -> Nat]]
  BY <1>5, <1>6
<1> QED BY <1>2, <1>3, <1>4, <1>7

(***************************************************************************)
(* A tick, of whichever timer, moves a line on by a slot.                  *)
(***************************************************************************)
LEMMA TickLine ==
  ASSUME ChartTyped, NEW id \in Ids, Line(id), MetronomeTick, UNCHANGED <<run, arrived>>,
         UnderWay \/ Disturbed'
  PROVE  Line(id)'
<1> DEFINE q == queue[id]
           s == slots[id]
           a == arrived[id]
           g == gaps[id]
<1>1. /\ q \in Seq(Nat) /\ Len(q) \in Nat /\ a \in Nat /\ g \in Nat
      /\ s \in [1..Duration -> Nat] /\ sec \in 0..Duration /\ Duration \in Nat
      /\ Drawn(id) \subseteq 1..Duration /\ IsFiniteSet(Drawn(id)) /\ Cardinality(Drawn(id)) \in Nat
  BY ChartTypes
<1>2. /\ slots'[id] = IF sec = Duration THEN s
                       ELSE [s EXCEPT ![sec + 1] = IF q = << >> THEN 0 ELSE Head(q)]
      /\ queue'[id] = IF q = << >> THEN << >> ELSE Tail(q)
      /\ gaps'[id] = g + IF sec < Duration /\ q = << >> THEN 1 ELSE 0
      /\ sec' = IF sec < Duration THEN sec + 1 ELSE sec
      /\ arrived'[id] = a /\ run' = run
  BY DEF MetronomeTick
<1>13. /\ sec \in Int /\ Duration \in Int /\ sec <= Duration /\ g \in Int /\ a \in Nat
       /\ Len(q) \in Nat
  BY <1>1
<1>3. UnderWay' <=> UnderWay
  BY <1>2 DEF UnderWay, Live
<1>4. Upcoming(id)
  BY DEF Line
<1>5. q # << >> => /\ Tail(q) \in Seq(Nat) /\ Head(q) = q[1] /\ Len(q) \in Nat \ {0}
                   /\ Len(Tail(q)) = Len(q) - 1 /\ \A i \in 1..Len(q) - 1 : Tail(q)[i] = q[i + 1]
  BY <1>1, TailOfQueue
<1>6. q = << >> => Len(q) = 0 /\ Len(queue'[id]) = 0
  BY <1>2
<1>7. Passed(id) = a - Len(q) /\ Passed(id)' = a - Len(queue'[id])
  BY <1>2 DEF Passed
<1>8. q # << >> => Len(queue'[id]) = Len(q) - 1 /\ Head(q) = Passed(id) + 1 /\ Passed(id)' = Passed(id) + 1
  <2> SUFFICES ASSUME q # << >>
               PROVE  Len(queue'[id]) = Len(q) - 1 /\ Head(q) = Passed(id) + 1 /\ Passed(id)' = Passed(id) + 1
    OBVIOUS
  <2>1. Len(queue'[id]) = Len(q) - 1
    BY <1>2, <1>5
  <2>2. q[1] = Passed(id) + 1
    BY <1>4, <1>5, <1>13 DEF Upcoming
  <2>3. Passed(id)' = Passed(id) + 1
    BY <1>7, <1>13, <2>1
  <2> QED BY <1>5, <2>1, <2>2, <2>3
<1>9. q = << >> => Passed(id) = a /\ Passed(id)' = a
  BY <1>1, <1>6, <1>7
<1>10. Upcoming(id)'
  <2>1. Len(queue'[id]) <= a
    BY <1>1, <1>4, <1>6, <1>8 DEF Upcoming
  <2>2. ASSUME NEW i \in 1..Len(queue'[id]) PROVE queue'[id][i] = Passed(id)' + i
    <3>1. q # << >> /\ i \in 1..Len(q) - 1
      BY <1>1, <1>6, <1>8
    <3>2. queue'[id][i] = q[i + 1] /\ q[i + 1] = Passed(id) + (i + 1)
      BY <1>1, <1>2, <1>4, <1>5, <3>1 DEF Upcoming
    <3>3. Passed(id) \in Int /\ Passed(id)' = Passed(id) + 1 /\ i \in Int
      BY <1>1, <1>7, <1>8, <3>1
    <3> HIDE DEF Passed
    <3>4. Passed(id) + (i + 1) = Passed(id)' + i
      BY <3>3
    <3> QED BY <3>2, <3>4
  <2>3. ASSUME NEW i \in 1..Duration PROVE slots'[id][i] <= Passed(id)'
    <3>1. s[i] <= Passed(id) /\ s[i] \in Nat
      BY <1>1, <1>4 DEF Upcoming
    <3>2. slots'[id][i] = s[i] \/ slots'[id][i] = IF q = << >> THEN 0 ELSE Head(q)
      BY <1>1, <1>2
    <3>3. Passed(id) \in Int
      BY <1>7, <1>13
    <3> HIDE DEF Passed
    <3> QED BY <1>8, <1>9, <3>1, <3>2, <3>3
  <2> QED BY <1>2, <2>1, <2>2, <2>3 DEF Upcoming
<1>11. CASE ~UnderWay
  BY <1>3, <1>10, <1>11 DEF Line
<1>12. CASE UnderWay
  <2>1. Ordered(id) /\ Accounted(id)
    BY <1>12 DEF Line
  <2>2. CASE sec = Duration
    <3>1. slots'[id] = s /\ sec' = sec /\ gaps'[id] = g
      BY <1>1, <1>2, <2>2
    <3>2. Drawn(id)' = Drawn(id)
      BY <3>1 DEF Drawn
    <3>3. Passed(id) <= Passed(id)' /\ Passed(id)' \in Int /\ Passed(id) \in Int
      BY <1>7, <1>8, <1>9, <1>13
    <3> HIDE DEF Passed, Drawn
    <3>4. Accounted(id)'
      <4>1. \A i \in 1..Duration : i > sec' => slots'[id][i] = 0
        BY <2>1, <3>1 DEF Accounted
      <4>2. /\ Cardinality(Drawn(id)') = sec' - gaps'[id]
            /\ sec' - gaps'[id] <= Passed(id)' /\ ~(sec' < Duration)
        BY <1>13, <2>1, <2>2, <3>1, <3>2, <3>3 DEF Accounted
      <4> QED BY <4>1, <4>2 DEF Accounted
    <3>5. Ordered(id)'
      BY <2>1, <3>1, <3>2 DEF Ordered
    <3> QED BY <1>10, <3>4, <3>5 DEF Line
  <2>3. CASE sec < Duration /\ q = << >>
    <3>1. sec + 1 \in 1..Duration /\ s[sec + 1] = 0
      BY <1>1, <2>1, <2>3 DEF Accounted
    <3>2. slots'[id] = s /\ sec' = sec + 1 /\ gaps'[id] = g + 1
      BY <1>1, <1>2, <2>3, <3>1
    <3>3. Drawn(id)' = Drawn(id)
      BY <3>2 DEF Drawn
    <3>4. Accounted(id)'
      <4>1. \A i \in 1..Duration : i > sec' => slots'[id][i] = 0
        BY <1>1, <2>1, <3>2 DEF Accounted
      <4>2. sec' = sec + 1 /\ gaps'[id] = g + 1
        BY <3>2
      <4>3. sec' - gaps'[id] = sec - g
        BY <1>13, <4>2
      <4>4. Passed(id)' = Passed(id) /\ Passed(id) \in Int
        BY <1>9, <1>13, <2>3
      <4>5. Cardinality(Drawn(id)') = sec - g /\ sec - g = Passed(id)
        BY <2>1, <2>3, <3>3 DEF Accounted
      <4> HIDE DEF Passed, Drawn
      <4>6. /\ Cardinality(Drawn(id)') = sec' - gaps'[id]
            /\ sec' - gaps'[id] = Passed(id)' /\ Passed(id)' \in Int
        BY <4>3, <4>4, <4>5
      <4> QED BY <4>1, <4>6 DEF Accounted
    <3>5. Ordered(id)'
      BY <2>1, <3>2, <3>3 DEF Ordered
    <3> QED BY <1>10, <3>4, <3>5 DEF Line
  <2>4. CASE sec < Duration /\ q # << >>
    <3>1. sec + 1 \in 1..Duration /\ s[sec + 1] = 0 /\ sec + 1 \notin Drawn(id)
      <4>1. sec + 1 \in 1..Duration /\ sec + 1 > sec
        BY <1>1, <2>4
      <4>2. s[sec + 1] = 0
        BY <2>1, <4>1 DEF Accounted
      <4> QED BY <4>1, <4>2 DEF Drawn
    <3>2. /\ slots'[id] = [s EXCEPT ![sec + 1] = Head(q)] /\ sec' = sec + 1 /\ gaps'[id] = g
          /\ Head(q) = Passed(id) + 1 /\ Passed(id)' = Passed(id) + 1 /\ Passed(id) \in Nat
      <4>1. Passed(id) \in Nat
        BY <1>4, <1>7, <1>13 DEF Upcoming
      <4>2. sec # Duration
        BY <1>13, <2>4
      <4> QED BY <1>2, <1>8, <1>13, <2>4, <4>1, <4>2
    <3>3. Drawn(id)' = Drawn(id) \cup {sec + 1}
      <4>1. Head(q) # 0
        BY <3>2
      <4>2. ASSUME NEW i \in 1..Duration
            PROVE  slots'[id][i] = IF i = sec + 1 THEN Head(q) ELSE s[i]
        BY <1>1, <3>1, <3>2
      <4> QED BY <3>1, <4>1, <4>2 DEF Drawn
    <3>4. Cardinality(Drawn(id)') = Cardinality(Drawn(id)) + 1
      BY <1>1, <3>1, <3>3, FS_AddElement
    <3>5. \A i \in Drawn(id) : i <= sec /\ i \in Nat /\ slots'[id][i] = s[i] /\ s[i] <= Passed(id)
      <4> SUFFICES ASSUME NEW i \in Drawn(id)
                   PROVE  i <= sec /\ i \in Nat /\ slots'[id][i] = s[i] /\ s[i] <= Passed(id)
        OBVIOUS
      <4>1. i \in 1..Duration /\ s[i] # 0
        BY DEF Drawn
      <4>2. i <= sec /\ i \in Nat
        BY <1>13, <2>1, <4>1 DEF Accounted
      <4>3. slots'[id][i] = s[i]
        BY <1>1, <1>13, <3>2, <4>1, <4>2
      <4>4. s[i] <= Passed(id)
        BY <1>4, <4>1 DEF Upcoming
      <4> QED BY <4>2, <4>3, <4>4
    <3>6. Accounted(id)'
      <4>1. ASSUME NEW i \in 1..Duration, i > sec' PROVE slots'[id][i] = 0
        <5>1. sec' = sec + 1
          BY <3>2
        <5>2. i # sec + 1 /\ i > sec
          BY <1>13, <4>1, <5>1
        <5> QED BY <1>1, <2>1, <3>2, <5>2 DEF Accounted
      <4>2. Cardinality(Drawn(id)') = sec' - gaps'[id] /\ sec' - gaps'[id] = Passed(id)'
        <5>1. Cardinality(Drawn(id)) = sec - g /\ sec - g = Passed(id)
          BY <2>1, <2>4 DEF Accounted
        <5>2. sec' = sec + 1 /\ gaps'[id] = g /\ Passed(id)' = Passed(id) + 1
          BY <3>2
        <5> HIDE DEF Passed, Drawn
        <5> QED BY <1>13, <3>4, <5>1, <5>2
      <4>3. Passed(id)' \in Int
        BY <3>2
      <4> HIDE DEF Passed, Drawn
      <4> QED BY <4>1, <4>2, <4>3 DEF Accounted
    <3>7. Ordered(id)'
      <4> SUFFICES ASSUME NEW i \in Drawn(id)', NEW j \in Drawn(id)', i < j
                   PROVE  slots'[id][i] < slots'[id][j]
        BY DEF Ordered
      <4>1. i \in Drawn(id)
        BY <1>1, <3>3, <3>5
      <4>2. CASE j \in Drawn(id)
        BY <2>1, <3>5, <4>1, <4>2 DEF Ordered
      <4>3. CASE j = sec + 1
        <5>1. slots'[id][j] = Passed(id) + 1
          BY <1>1, <3>1, <3>2, <4>3
        <5>2. slots'[id][i] <= Passed(id) /\ slots'[id][i] \in Nat
          BY <1>1, <3>5, <4>1
        <5> QED BY <3>2, <5>1, <5>2
      <4> QED BY <3>3, <4>2, <4>3
    <3> QED BY <1>10, <3>6, <3>7 DEF Line
  <2> QED BY <1>1, <2>2, <2>3, <2>4
<1> QED BY <1>11, <1>12

-----------------------------------------------------------------------------

LEMMA ChartInvInit == ChartInit => ChartInv
<1> SUFFICES ASSUME ChartInit PROVE ChartInv
  OBVIOUS
<1> USE ChartAssumption
<1>1. ChartTyped
  <2>1. << >> \in Seq(Nat)
    OBVIOUS
  <2>2. [i \in 1..Duration |-> 0] \in [1..Duration -> Nat]
    OBVIOUS
  <2>3. slots \in [Ids -> [1..Duration -> Nat]] /\ queue \in [Ids -> Seq(Nat)]
    BY <2>1, <2>2 DEF ChartInit
  <2>4. arrived \in [Ids -> Nat] /\ gaps \in [Ids -> Nat]
    BY DEF ChartInit, Zero
  <2>5. /\ run \in [number : 0..MaxRuns, phase : {"idle", "posting", "live", "done"}, posts : Nat, streams : Nat]
        /\ run.posts + run.streams <= run.number /\ ~Live
    BY DEF ChartInit, Live
  <2>6. sec \in 0..Duration /\ metronome \in 0..MaxRuns
    BY DEF ChartInit
  <2>7. timeouts \subseteq 1..MaxRuns /\ intervals \subseteq 1..MaxRuns
    BY DEF ChartInit
  <2>8. elapsed \in BOOLEAN /\ strayed \in BOOLEAN
    BY DEF ChartInit
  <2> QED BY <2>3, <2>4, <2>5, <2>6, <2>7, <2>8 DEF ChartTyped
<1>2. Handled
  BY DEF ChartInit, Handled
<1>3. ASSUME NEW id \in Ids PROVE Line(id)
  <2>1. /\ queue[id] = << >> /\ arrived[id] = 0 /\ \A i \in 1..Duration : slots[id][i] = 0
        /\ sec = 0 /\ gaps[id] = 0 /\ Len(queue[id]) = 0
    BY <1>3 DEF ChartInit, Zero
  <2>2. Drawn(id) = {}
    BY <2>1 DEF Drawn
  <2>3. Upcoming(id) /\ Ordered(id)
    BY <2>1, <2>2 DEF Upcoming, Ordered, Passed
  <2>4. Cardinality(Drawn(id)) = 0
    BY <2>2, FS_EmptySet
  <2>5. Passed(id) = 0
    <3>1. Passed(id) = arrived[id] - Len(queue[id])
      BY DEF Passed
    <3> QED BY <2>1, <3>1
  <2>6. Accounted(id)
    BY <2>1, <2>4, <2>5 DEF Accounted
  <2> QED BY <2>3, <2>6 DEF Line
<1> QED BY <1>1, <1>2, <1>3 DEF ChartInv

(***************************************************************************)
(* Types and timers, action by action.                                     *)
(***************************************************************************)
LEMMA ChartTypedStep == ChartTyped /\ [ChartNext]_chartVars => ChartTyped'
<1> SUFFICES ASSUME ChartTyped, [ChartNext]_chartVars PROVE ChartTyped'
  OBVIOUS
<1> USE ChartAssumption
<1>1. CASE Click
  <2>1. << >> \in Seq(Nat)
    OBVIOUS
  <2>2. run' = [number |-> run.number + 1, phase |-> "posting", posts |-> run.posts + 1, streams |-> 0]
    BY <1>1 DEF Click, Asked
  <2>3. run.number + 1 \in 0..MaxRuns /\ run.posts + 1 \in Nat
    BY <1>1 DEF Click, ChartTyped
  <2>4. run' \in [number : 0..MaxRuns, phase : {"idle", "posting", "live", "done"}, posts : Nat, streams : Nat]
    BY <2>2, <2>3
  <2>5. run'.posts + run'.streams <= run'.number /\ ~Live'
    BY <2>2 DEF ChartTyped, Live
  <2> QED BY <1>1, <2>1, <2>4, <2>5 DEF Click, ClearMetronome, ChartTyped, Zero
<1>2. ASSUME NEW ok \in BOOLEAN, Posted(ok) PROVE ChartTyped'
  <2> DEFINE phase == IF ok THEN "live" ELSE IF Live THEN run.phase ELSE "idle"
             streams == IF ok THEN run.streams + 1 ELSE run.streams
  <2>1. run' = [number |-> run.number, phase |-> phase, posts |-> run.posts - 1, streams |-> streams]
    BY <1>2 DEF Posted, ChartTyped
  <2>2. run.posts - 1 \in Nat /\ streams \in Nat /\ run.number \in 0..MaxRuns
    BY <1>2 DEF Posted, ChartTyped
  <2>3. phase \in {"idle", "posting", "live", "done"}
    BY DEF ChartTyped
  <2>4. run' \in [number : 0..MaxRuns, phase : {"idle", "posting", "live", "done"}, posts : Nat, streams : Nat]
    BY <2>1, <2>2, <2>3
  <2>5. run'.posts + run'.streams <= run'.number /\ (Live' => run'.streams > 0)
    BY <2>1 DEF ChartTyped, Live
  <2> QED BY <1>2, <2>4, <2>5 DEF Posted, ChartTyped
<1>3. ASSUME NEW id \in Ids, Sample(id) PROVE ChartTyped'
  <2>1. /\ arrived' = [arrived EXCEPT ![id] = @ + 1]
        /\ queue' = [queue EXCEPT ![id] = Append(@, arrived'[id])]
        /\ UNCHANGED <<run, slots, sec, intervals, metronome, gaps, strayed>>
        /\ timeouts' \in {timeouts, timeouts \cup {run.number}} /\ Live
        /\ elapsed' \in BOOLEAN
    BY <1>3 DEF Sample, ChartTyped
  <2>2. arrived' \in [Ids -> Nat]
    BY <2>1 DEF ChartTyped
  <2>3. Append(queue[id], arrived'[id]) \in Seq(Nat)
    BY <2>2 DEF ChartTyped
  <2>4. queue' \in [Ids -> Seq(Nat)]
    BY <2>1, <2>3 DEF ChartTyped
  <2>5. run.number \in 1..MaxRuns
    BY <2>1 DEF ChartTyped, Live
  <2> QED BY <2>1, <2>2, <2>4, <2>5 DEF ChartTyped, Live
<1>4. ASSUME NEW r \in 1..MaxRuns, FirstTick(r) PROVE ChartTyped'
  <2>1. MetronomeTick
    BY <1>4 DEF FirstTick
  <2>2. /\ queue' \in [Ids -> Seq(Nat)] /\ gaps' \in [Ids -> Nat]
        /\ slots' \in [Ids -> [1..Duration -> Nat]] /\ sec' \in 0..Duration
    BY <2>1, TickTyped
  <2> QED BY <1>4, <2>2 DEF FirstTick, ChartTyped, Live
<1>5. CASE Tick
  <2>1. MetronomeTick
    BY <1>5 DEF Tick
  <2>2. /\ queue' \in [Ids -> Seq(Nat)] /\ gaps' \in [Ids -> Nat]
        /\ slots' \in [Ids -> [1..Duration -> Nat]] /\ sec' \in 0..Duration
    BY <2>1, TickTyped
  <2> QED BY <1>5, <2>2 DEF Tick, ChartTyped, Live
<1>6. CASE StopElapsed
  BY <1>6 DEF StopElapsed, ChartTyped, Live
<1>7. ASSUME NEW fill \in BOOLEAN, Finish(fill) PROVE ChartTyped'
  <2>1. ASSUME NEW id \in Ids
        PROVE  /\ SubSeq(queue[id], Duration - sec + 1, Len(queue[id])) \in Seq(Nat)
               /\ \A i \in DOMAIN queue[id] : queue[id][i] \in Nat
    BY DEF ChartTyped
  <2>2. queue' \in [Ids -> Seq(Nat)]
    BY <1>7, <2>1 DEF Finish, ChartTyped
  <2>3. slots' \in [Ids -> [1..Duration -> Nat]]
    <3>1. ASSUME NEW id \in Ids, NEW i \in 1..Duration
          PROVE  (IF i - sec \in DOMAIN queue[id] THEN queue[id][i - sec] ELSE slots[id][i]) \in Nat
      BY <2>1 DEF ChartTyped
    <3> QED BY <1>7, <3>1 DEF Finish, ChartTyped
  <2>4. /\ run' \in [number : 0..MaxRuns, phase : {"idle", "posting", "live", "done"}, posts : Nat, streams : Nat]
        /\ UNCHANGED <<run.number, run.posts, run.streams>> /\ ~Live'
    BY <1>7 DEF Finish, ChartTyped, Live
  <2>5. intervals' \subseteq 1..MaxRuns /\ metronome' \in 0..MaxRuns
    BY <1>7 DEF Finish, ClearMetronome, ChartTyped
  <2>6. elapsed' \in BOOLEAN
    BY <1>7 DEF Finish
  <2>7. UNCHANGED <<arrived, sec, timeouts, gaps, strayed>>
    BY <1>7 DEF Finish
  <2> QED BY <2>2, <2>3, <2>4, <2>5, <2>6, <2>7 DEF ChartTyped
<1>8. CASE UNCHANGED chartVars
  BY <1>8 DEF chartVars, ChartTyped, Live
<1> QED
  BY <1>1, <1>2, <1>3, <1>4, <1>5, <1>6, <1>7, <1>8 DEF ChartNext, Done, Error

LEMMA HandledStep == ChartTyped /\ Handled /\ [ChartNext]_chartVars => Handled'
<1> SUFFICES ASSUME ChartTyped, Handled, [ChartNext]_chartVars PROVE Handled'
  OBVIOUS
<1> USE DEF Handled, Live
<1>1. CASE Click
  BY <1>1 DEF Click, ClearMetronome, Asked
<1>2. ASSUME NEW ok \in BOOLEAN, Posted(ok) PROVE Handled'
  BY <1>2 DEF Posted, ChartTyped
<1>3. ASSUME NEW id \in Ids, Sample(id) PROVE Handled'
  BY <1>3 DEF Sample
<1>4. ASSUME NEW r \in 1..MaxRuns, FirstTick(r) PROVE Handled'
  <2>1. /\ intervals' = intervals \cup {r} /\ metronome' = r /\ run' = run /\ elapsed' = elapsed
        /\ ~strayed' => ~strayed /\ Live /\ r = run.number
    BY <1>4 DEF FirstTick, ChartTyped
  <2> QED BY <2>1
<1>5. CASE Tick
  BY <1>5 DEF Tick
<1>6. CASE StopElapsed
  BY <1>6 DEF StopElapsed
<1>7. ASSUME NEW fill \in BOOLEAN, Finish(fill) PROVE Handled'
  BY <1>7 DEF Finish, ClearMetronome
<1>8. CASE UNCHANGED chartVars
  BY <1>8 DEF chartVars
<1> QED
  BY <1>1, <1>2, <1>3, <1>4, <1>5, <1>6, <1>7, <1>8 DEF ChartNext, Done, Error

LEMMA RestOfQueue ==
  ASSUME NEW s \in Seq(Nat), NEW d \in Nat, d < Len(s)
  PROVE  /\ Len(SubSeq(s, d + 1, Len(s))) = Len(s) - d
         /\ \A i \in 1..Len(s) - d : SubSeq(s, d + 1, Len(s))[i] = s[i + d]
<1>1. Len(s) \in Nat /\ d + 1 \in 1..Len(s) + 1
  OBVIOUS
<1>2. SubSeq(s, d + 1, Len(s)) = [i \in 1..(Len(s) - (d + 1) + 1) |-> s[i + (d + 1) - 1]]
  BY <1>1
<1>3. Len(s) - (d + 1) + 1 = Len(s) - d /\ Len(s) - d \in Nat
  BY <1>1
<1>4. \A i \in 1..Len(s) - d : i + (d + 1) - 1 = i + d
  OBVIOUS
<1> DEFINE t == SubSeq(s, d + 1, Len(s))
           n == Len(s) - d
<1>5. t = [i \in 1..n |-> s[i + (d + 1) - 1]] /\ n \in Nat /\ t \in Seq(Nat)
  BY <1>1, <1>2, <1>3
<1>6. Len(t) = n
  BY <1>5
<1>7. \A i \in 1..n : t[i] = s[i + (d + 1) - 1]
  BY <1>5
<1>8. \A i \in 1..n : t[i] = s[i + d]
  BY <1>4, <1>7
<1> QED BY <1>6, <1>8

(***************************************************************************)
(* What done draws: the samples that wait, in the slots to come.           *)
(***************************************************************************)
LEMMA Filled ==
  ASSUME ChartTyped, NEW id \in Ids, Upcoming(id), Done
  PROVE  /\ Passed(id) \in Nat
         /\ \A i \in 1..Duration :
               slots'[id][i] = IF i - sec \in 1..Len(queue[id]) THEN Passed(id) + (i - sec) ELSE slots[id][i]
         /\ IF Len(queue[id]) <= Duration - sec
              THEN Passed(id)' = arrived[id] /\ queue'[id] = << >>
              ELSE /\ Passed(id)' = Passed(id) + (Duration - sec)
                   /\ Len(queue'[id]) = Len(queue[id]) - (Duration - sec)
                   /\ \A i \in 1..Len(queue'[id]) : queue'[id][i] = queue[id][i + (Duration - sec)]
<1> DEFINE q == queue[id]
           d == Duration - sec
<1>1. /\ q \in Seq(Nat) /\ Len(q) \in Nat /\ arrived[id] \in Nat
      /\ sec \in 0..Duration /\ Duration \in Nat /\ d \in Nat
  BY ChartTypes
<1>2. /\ queue'[id] = SubSeq(q, d + 1, Len(q)) /\ arrived' = arrived
      /\ \A i \in 1..Duration :
           slots'[id][i] = IF i - sec \in DOMAIN q THEN q[i - sec] ELSE slots[id][i]
  BY DEF Done, Finish
<1>3. DOMAIN q = 1..Len(q)
  BY <1>1
<1>4. \A i \in 1..Len(q) : q[i] = Passed(id) + i
  BY DEF Upcoming
<1>5. Passed(id) \in Nat
  BY <1>1 DEF Upcoming, Passed
<1>6. \A i \in 1..Duration :
        slots'[id][i] = IF i - sec \in 1..Len(q) THEN Passed(id) + (i - sec) ELSE slots[id][i]
  BY <1>2, <1>3, <1>4
<1>7. CASE Len(q) <= d
  <2>1. queue'[id] = << >>
    BY <1>1, <1>2, <1>7
  <2>2. Passed(id)' = arrived[id]
    BY <1>1, <1>2, <2>1 DEF Passed
  <2> QED BY <1>5, <1>6, <1>7, <2>1, <2>2
<1>8. CASE ~(Len(q) <= d)
  <2>1. d < Len(q)
    BY <1>1, <1>8
  <2>2. SubSeq(q, d + 1, Len(q)) = queue'[id]
    BY <1>2
  <2>3. Len(queue'[id]) = Len(q) - d /\ \A i \in 1..Len(queue'[id]) : queue'[id][i] = q[i + d]
    <3> HIDE DEF q, d
    <3>1. /\ Len(SubSeq(q, d + 1, Len(q))) = Len(q) - d
          /\ \A i \in 1..Len(q) - d : SubSeq(q, d + 1, Len(q))[i] = q[i + d]
      BY <1>1, <2>1, RestOfQueue
    <3> QED BY <2>2, <3>1
  <2>4. Passed(id)' = Passed(id) + d
    <3>1. Passed(id) = arrived[id] - Len(q) /\ Passed(id)' = arrived[id] - Len(queue'[id])
      BY <1>2 DEF Passed
    <3>2. Len(queue'[id]) = Len(q) - d
      BY <2>3
    <3> HIDE DEF Passed, q, d
    <3> QED BY <1>1, <3>1, <3>2
  <2> QED BY <1>5, <1>6, <1>8, <2>3, <2>4
<1> QED BY <1>7, <1>8

(***************************************************************************)
(* After done the samples are still drawn in order: those of the queue are *)
(* newer than what was drawn, and the slots between are empty.             *)
(***************************************************************************)
LEMMA DoneLine ==
  ASSUME ChartTyped, NEW id \in Ids, Line(id), Done
  PROVE  Line(id)'
<1> DEFINE q == queue[id]
           s == slots[id]
           d == Duration - sec
<1>1. /\ Len(q) \in Nat /\ arrived[id] \in Nat /\ s \in [1..Duration -> Nat]
      /\ sec \in 0..Duration /\ Duration \in Nat /\ d \in Nat
  BY ChartTypes
<1>2. /\ Live /\ ~UnderWay' /\ arrived' = arrived /\ (~Disturbed' => UnderWay)
  BY DEF Done, Finish, Live, UnderWay, Disturbed, ChartTyped
<1>3. Upcoming(id)
  BY DEF Line
<1>4. /\ Passed(id) \in Nat
      /\ \A i \in 1..Duration :
            slots'[id][i] = IF i - sec \in 1..Len(q) THEN Passed(id) + (i - sec) ELSE s[i]
      /\ IF Len(q) <= d
           THEN Passed(id)' = arrived[id] /\ queue'[id] = << >>
           ELSE /\ Passed(id)' = Passed(id) + d
                /\ Len(queue'[id]) = Len(q) - d
                /\ \A i \in 1..Len(queue'[id]) : queue'[id][i] = q[i + d]
  BY <1>3, Filled
<1>5. /\ Len(q) <= arrived[id] /\ Passed(id) = arrived[id] - Len(q)
      /\ \A i \in 1..Len(q) : q[i] = Passed(id) + i
      /\ \A i \in 1..Duration : s[i] <= Passed(id)
  BY <1>3 DEF Upcoming, Passed
<1> DEFINE p == Passed(id)
<1> HIDE DEF p
<1>6. Passed(id)' \in Nat /\ p <= Passed(id)'
  <2>1. p \in Nat /\ p = arrived[id] - Len(q)
    BY <1>4, <1>5 DEF p
  <2>2. Passed(id)' = arrived[id] \/ Passed(id)' = p + d
    BY <1>4 DEF p
  <2> HIDE DEF d, Passed
  <2> QED BY <1>1, <2>1, <2>2
<1>7. Upcoming(id)'
  <2>1. Len(queue'[id]) <= arrived[id]
    <3>1. CASE Len(q) <= d
      BY <1>1, <1>4, <3>1
    <3>2. CASE ~(Len(q) <= d)
      <4>1. Len(queue'[id]) = Len(q) - d /\ Len(q) <= arrived[id]
        BY <1>4, <1>5, <3>2
      <4> HIDE DEF q, d
      <4> QED BY <1>1, <4>1
    <3> QED BY <3>1, <3>2
  <2>2. ASSUME NEW i \in 1..Len(queue'[id]) PROVE queue'[id][i] = Passed(id)' + i
    <3>1. CASE Len(q) <= d
      BY <1>4, <3>1
    <3>2. CASE ~(Len(q) <= d)
      <4>1. /\ Len(queue'[id]) = Len(q) - d /\ Passed(id)' = p + d /\ p \in Nat
            /\ queue'[id][i] = q[i + d]
        BY <1>4, <3>2 DEF p
      <4>2. i \in Nat /\ i + d \in 1..Len(q)
        BY <1>1, <4>1
      <4>3. q[i + d] = p + (i + d)
        BY <1>5, <4>2 DEF p
      <4> QED BY <1>1, <4>1, <4>2, <4>3
    <3> QED BY <3>1, <3>2
  <2>3. ASSUME NEW i \in 1..Duration PROVE slots'[id][i] <= Passed(id)'
    <3>1. CASE i - sec \in 1..Len(q)
      <4>1. slots'[id][i] = p + (i - sec) /\ i - sec <= Len(q) /\ i - sec <= d /\ p \in Nat
        BY <1>1, <1>4, <3>1 DEF p
      <4>2. Passed(id)' = arrived[id] \/ Passed(id)' = p + d
        BY <1>4 DEF p
      <4>3. p = arrived[id] - Len(q)
        BY <1>5 DEF p
      <4> HIDE DEF d, Passed
      <4> QED BY <1>1, <4>1, <4>2, <4>3
    <3>2. CASE i - sec \notin 1..Len(q)
      <4>1. slots'[id][i] = s[i] /\ s[i] \in Nat /\ s[i] <= p /\ p \in Nat
        BY <1>1, <1>4, <1>5, <3>2 DEF p
      <4> QED BY <1>6, <4>1
    <3> QED BY <3>1, <3>2
  <2> QED BY <1>2, <2>1, <2>2, <2>3 DEF Upcoming
<1>8. ASSUME UnderWay PROVE Ordered(id)'
  <2>9. Ordered(id) /\ \A i \in 1..Duration : i > sec => s[i] = 0
    BY <1>8 DEF Line, Accounted
  <2> SUFFICES ASSUME NEW i \in 1..Duration, NEW j \in 1..Duration, i < j,
                      slots'[id][i] # 0, slots'[id][j] # 0
               PROVE  slots'[id][i] < slots'[id][j]
    BY DEF Ordered, Drawn
  <2>1. /\ slots'[id][i] = IF i - sec \in 1..Len(q) THEN p + (i - sec) ELSE s[i]
        /\ slots'[id][j] = IF j - sec \in 1..Len(q) THEN p + (j - sec) ELSE s[j]
        /\ s[i] <= p /\ (i > sec => s[i] = 0) /\ s[i] \in Nat /\ p \in Nat
        /\ (j > sec => s[j] = 0) /\ s[j] \in Nat
    <3>1. p \in Nat /\ s[i] \in Nat /\ s[j] \in Nat
      BY <1>1, <1>4 DEF p
    <3>2. s[i] <= p /\ (i > sec => s[i] = 0) /\ (j > sec => s[j] = 0)
      BY <1>5, <2>9 DEF p
    <3>3. slots'[id][i] = IF i - sec \in 1..Len(q) THEN p + (i - sec) ELSE s[i]
      BY <1>4 DEF p
    <3>4. slots'[id][j] = IF j - sec \in 1..Len(q) THEN p + (j - sec) ELSE s[j]
      BY <1>4 DEF p
    <3> QED BY <3>1, <3>2, <3>3, <3>4
  <2>2. CASE j - sec \in 1..Len(q)
    <3>1. slots'[id][j] = p + (j - sec) /\ j - sec >= 1 /\ i - sec < j - sec
      BY <1>1, <2>1, <2>2
    <3>2. slots'[id][i] = p + (i - sec) \/ slots'[id][i] <= p
      BY <2>1
    <3>3. p \in Nat /\ sec \in Int /\ i \in Int /\ j \in Int /\ slots'[id][i] \in Int
      BY <1>1, <2>1
    <3> QED BY <3>1, <3>2, <3>3
  <2>3. CASE j - sec \notin 1..Len(q)
    <3>1. slots'[id][j] = s[j]
      BY <2>1, <2>3
    <3>2. j <= sec /\ i <= sec /\ i - sec \notin 1..Len(q)
      BY <1>1, <2>1, <3>1
    <3>3. slots'[id][i] = s[i]
      BY <2>1, <3>2
    <3>4. i \in Drawn(id) /\ j \in Drawn(id)
      BY <3>1, <3>3 DEF Drawn
    <3> QED BY <2>9, <3>1, <3>3, <3>4 DEF Ordered
  <2> QED BY <2>2, <2>3
<1> QED BY <1>2, <1>7, <1>8 DEF Line

LEMMA SampleLine ==
  ASSUME ChartTyped, NEW id \in Ids, Line(id), NEW a \in Ids, Sample(a)
  PROVE  Line(id)'
<1>1. /\ queue[id] \in Seq(Nat) /\ Len(queue[id]) \in Nat /\ arrived[id] \in Nat
  BY ChartTypes
<1>2. UNCHANGED <<run, slots, sec, gaps, strayed>>
  BY DEF Sample
<1>3. Drawn(id)' = Drawn(id) /\ (UnderWay' <=> UnderWay) /\ (Disturbed' <=> Disturbed)
  BY <1>2 DEF Drawn, UnderWay, Disturbed, Live
<1>4. CASE a # id
  <2>1. queue'[id] = queue[id] /\ arrived'[id] = arrived[id]
    BY <1>4 DEF Sample, ChartTyped
  <2>2. Passed(id)' = Passed(id)
    BY <2>1 DEF Passed
  <2> QED BY <1>2, <1>3, <2>1, <2>2 DEF Line, Upcoming, Ordered, Accounted
<1>5. CASE a = id
  <2>1. arrived'[id] = arrived[id] + 1 /\ queue'[id] = Append(queue[id], arrived'[id])
    BY <1>5 DEF Sample, ChartTyped
  <2>2. /\ Len(queue'[id]) = Len(queue[id]) + 1
        /\ \A i \in 1..Len(queue[id]) : queue'[id][i] = queue[id][i]
        /\ queue'[id][Len(queue[id]) + 1] = arrived[id] + 1
    BY <1>1, <2>1
  <2>3. /\ Passed(id) = arrived[id] - Len(queue[id]) /\ Passed(id) \in Int
        /\ Passed(id)' = (arrived[id] + 1) - (Len(queue[id]) + 1)
    BY <1>1, <2>1, <2>2 DEF Passed
  <2>4. Passed(id)' = Passed(id) /\ Passed(id) = arrived[id] - Len(queue[id]) /\ Passed(id) \in Int
    BY <1>1, <2>3
  <2>5. Upcoming(id)'
    <3>1. Len(queue'[id]) <= arrived'[id]
      BY <1>1, <2>1, <2>2 DEF Line, Upcoming
    <3>2. ASSUME NEW i \in 1..Len(queue'[id]) PROVE queue'[id][i] = Passed(id) + i
      <4>1. CASE i \in 1..Len(queue[id])
        BY <2>2, <4>1 DEF Line, Upcoming
      <4>2. CASE i \notin 1..Len(queue[id])
        <5>1. i = Len(queue[id]) + 1
          BY <1>1, <2>2, <4>2
        <5> QED BY <1>1, <2>2, <2>4, <5>1
      <4> QED BY <4>1, <4>2
    <3> QED BY <1>2, <2>4, <3>1, <3>2 DEF Line, Upcoming
  <2> QED BY <1>2, <1>3, <2>4, <2>5 DEF Line, Ordered, Accounted
<1> QED BY <1>4, <1>5

(***************************************************************************)
(* Every step keeps every line: a metronome ticks only for a run under way *)
(* unless its timer has strayed.                                           *)
(***************************************************************************)
LEMMA LineStep ==
  ASSUME ChartInv, [ChartNext]_chartVars, NEW id \in Ids
  PROVE  Line(id)'
<1>1. ChartTyped /\ Handled /\ Line(id)
  BY DEF ChartInv
<1>2. CASE Click
  <2>1. /\ queue'[id] = << >> /\ arrived'[id] = 0 /\ gaps'[id] = 0 /\ sec' = 0
        /\ \A i \in 1..Duration : slots'[id][i] = 0
    BY <1>2 DEF Click, Zero
  <2>2. Drawn(id)' = {}
    BY <2>1 DEF Drawn
  <2>3. Len(queue'[id]) = 0 /\ Passed(id)' = 0
    <3>1. Len(queue'[id]) = 0
      BY <2>1
    <3>2. Passed(id)' = arrived'[id] - Len(queue'[id])
      BY DEF Passed
    <3> QED BY <2>1, <3>1, <3>2
  <2>4. Upcoming(id)'
    BY <2>1, <2>3 DEF Upcoming
  <2>5. Ordered(id)'
    BY <2>2 DEF Ordered
  <2>6. Accounted(id)'
    BY <2>1, <2>2, <2>3, FS_EmptySet DEF Accounted
  <2> QED BY <2>4, <2>5, <2>6 DEF Line
<1>3. ASSUME NEW ok \in BOOLEAN, Posted(ok) PROVE Line(id)'
  <2>1. /\ UNCHANGED <<queue, arrived, slots, sec, gaps>>
        /\ (UnderWay' => UnderWay) /\ (~Disturbed' => UnderWay \/ ~Disturbed)
    BY <1>1, <1>3 DEF Posted, UnderWay, Disturbed, ChartTyped, Live
  <2> QED BY <1>1, <2>1 DEF Line, Upcoming, Passed, Ordered, Accounted, Drawn
<1>4. ASSUME NEW a \in Ids, Sample(a) PROVE Line(id)'
  BY <1>1, <1>4, SampleLine
<1>5. ASSUME NEW r \in 1..MaxRuns, FirstTick(r) PROVE Line(id)'
  <2>1. MetronomeTick /\ UNCHANGED <<run, arrived>> /\ (UnderWay \/ Disturbed')
    <3>1. MetronomeTick /\ UNCHANGED <<run, arrived>> /\ (Live \/ strayed')
      BY <1>5 DEF FirstTick
    <3>2. Live => run.streams = 1 \/ run'.streams > 1
      BY <1>1, <3>1 DEF ChartTyped
    <3> QED BY <3>1, <3>2 DEF UnderWay, Disturbed
  <2> QED BY <1>1, <2>1, TickLine
<1>6. CASE Tick
  <2>1. MetronomeTick /\ UNCHANGED <<run, arrived>> /\ (UnderWay \/ Disturbed')
    BY <1>1, <1>6 DEF Tick, Handled, UnderWay, Disturbed, Live, ChartTyped
  <2> QED BY <1>1, <2>1, TickLine
<1>7. CASE StopElapsed
  <2>1. UNCHANGED <<run, queue, arrived, slots, sec, gaps, strayed>>
    BY <1>7 DEF StopElapsed
  <2> QED BY <1>1, <2>1 DEF Line, Upcoming, Passed, Ordered, Accounted, Drawn, UnderWay, Disturbed, Live
<1>8. CASE Done
  BY <1>1, <1>8, DoneLine
<1>9. CASE Error
  <2>1. /\ UNCHANGED <<queue, arrived, slots, sec, gaps>>
        /\ (UnderWay' => UnderWay) /\ (~Disturbed' => UnderWay \/ ~Disturbed)
    BY <1>1, <1>9 DEF Error, Finish, UnderWay, Disturbed, Live, ChartTyped
  <2> QED BY <1>1, <2>1 DEF Line, Upcoming, Passed, Ordered, Accounted, Drawn
<1>10. CASE UNCHANGED chartVars
  <2>1. UNCHANGED <<run, queue, arrived, slots, sec, gaps, strayed>>
    BY <1>10 DEF chartVars
  <2> QED BY <1>1, <2>1 DEF Line, Upcoming, Passed, Ordered, Accounted, Drawn, UnderWay, Disturbed, Live
<1> QED
  BY <1>2, <1>3, <1>4, <1>5, <1>6, <1>7, <1>8, <1>9, <1>10 DEF ChartNext

LEMMA ChartInvStep == ChartInv /\ [ChartNext]_chartVars => ChartInv'
  BY ChartTypedStep, HandledStep, LineStep DEF ChartInv

LEMMA ChartHasItsSlots == ChartInv => ChartTypeOK
<1> SUFFICES ASSUME ChartInv PROVE ChartTypeOK
  OBVIOUS
<1>1. /\ ChartTyped /\ run.number \in 0..MaxRuns
      /\ run.posts \in 0..MaxRuns /\ run.streams \in 0..MaxRuns
  BY ChartAssumption DEF ChartInv, ChartTyped
<1>2. ASSUME NEW id \in Ids PROVE Len(slots[id]) = Duration
  BY <1>1, ChartAssumption DEF ChartTyped
<1>3. ASSUME NEW id \in Ids PROVE Len(queue[id]) <= arrived[id]
  BY DEF ChartInv, Line, Upcoming
<1> QED BY <1>1, <1>2, <1>3 DEF ChartTypeOK, ChartTyped

(***************************************************************************)
(* The chart keeps its slots, and no queue holds more than has arrived.    *)
(***************************************************************************)
THEOREM ChartKeepsItsSlots == ChartSpec => []ChartTypeOK
  BY ChartHasItsSlots, ChartInvInit, ChartInvStep, PTL DEF ChartSpec

(***************************************************************************)
(* A line of the chart shows samples of its agent in the order they came,  *)
(* each once: for any agents, durations, runs and samples.                 *)
(***************************************************************************)
THEOREM SamplesAreDrawnInOrder == ChartSpec => []DrawnInOrder
<1>1. ChartInv => DrawnInOrder
  BY DEF ChartInv, ChartTyped, Line, Ordered, UnderWay, Disturbed, DrawnInOrder
<1> QED BY <1>1, ChartInvInit, ChartInvStep, PTL DEF ChartSpec

(***************************************************************************)
(* Between runs nothing ticks, unless a timer came when its run was over.  *)
(***************************************************************************)
THEOREM NothingTicksAtRest == ChartSpec => []TimersAtRest
<1>1. ChartInv => TimersAtRest
  BY DEF ChartInv, Handled, TimersAtRest
<1> QED BY <1>1, ChartInvInit, ChartInvStep, PTL DEF ChartSpec

(***************************************************************************)
(* done draws as many samples as have slots left.                          *)
(***************************************************************************)
LEMMA DoneDraws ==
  ASSUME ChartTyped, NEW id \in Ids, Line(id), Done, run.streams = 1
  PROVE  LET room == Duration - gaps[id] IN
           Cardinality(Drawn(id)') = IF arrived[id] < room THEN arrived[id] ELSE room
<1> DEFINE q == queue[id]
           s == slots[id]
           d == Duration - sec
           n == IF Len(q) <= d THEN Len(q) ELSE d
           new == sec + 1 .. sec + n
<1>1. /\ Len(q) \in Nat /\ arrived[id] \in Nat /\ gaps[id] \in Nat /\ s \in [1..Duration -> Nat]
      /\ sec \in 0..Duration /\ Duration \in Nat /\ d \in Nat /\ n \in Nat
      /\ Drawn(id) \subseteq 1..Duration /\ IsFiniteSet(Drawn(id)) /\ Cardinality(Drawn(id)) \in Nat
  BY ChartTypes
<1>2. Upcoming(id) /\ Accounted(id)
  BY DEF Done, Finish, Live, UnderWay, Line
<1>3. /\ Passed(id) \in Nat
      /\ \A i \in 1..Duration :
            slots'[id][i] = IF i - sec \in 1..Len(q) THEN Passed(id) + (i - sec) ELSE s[i]
  BY <1>2, Filled
<1>4. \A i \in Drawn(id) : i <= sec
  <2> SUFFICES ASSUME NEW i \in Drawn(id), i > sec PROVE FALSE
    BY <1>1
  <2>1. i \in 1..Duration /\ s[i] # 0
    BY DEF Drawn
  <2> QED BY <1>2, <2>1 DEF Accounted
<1>5. Drawn(id)' = Drawn(id) \cup new
  <2>1. ASSUME NEW i \in 1..Duration PROVE i - sec \in 1..Len(q) <=> i \in new
    <3>1. /\ Len(q) \in Nat /\ sec \in Nat /\ Duration \in Nat /\ i \in Nat
          /\ 1 <= i /\ i <= Duration
      BY <1>1
    <3> HIDE DEF q
    <3>2. CASE Len(q) <= d
      BY <3>1, <3>2
    <3>3. CASE ~(Len(q) <= d)
      BY <3>1, <3>3
    <3> QED BY <3>2, <3>3
  <2>2. ASSUME NEW i \in 1..Duration PROVE slots'[id][i] # 0 <=> i \in Drawn(id) \/ i \in new
    <3>1. CASE i \in new
      BY <1>1, <1>3, <2>1, <3>1
    <3>2. CASE i \notin new
      BY <1>3, <2>1, <3>2 DEF Drawn
    <3> QED BY <3>1, <3>2
  <2>3. new \subseteq 1..Duration
    BY <1>1
  <2> QED BY <1>1, <2>2, <2>3 DEF Drawn
<1>6. IsFiniteSet(new) /\ Cardinality(new) = n
  <2>1. sec + 1 \in Int /\ sec + n \in Int
    BY <1>1
  <2>2. IsFiniteSet(new) /\ Cardinality(new) = IF sec + 1 > sec + n THEN 0 ELSE (sec + n) - (sec + 1) + 1
    BY <2>1, FS_Interval
  <2> HIDE DEF new, n
  <2> QED BY <1>1, <2>2
<1>7. Drawn(id) \cap new = {}
  BY <1>1, <1>4
<1>8. Cardinality(Drawn(id)') = Cardinality(Drawn(id)) + n
  <2> HIDE DEF new, n
  <2>1. Cardinality(Drawn(id) \cup new)
          = Cardinality(Drawn(id)) + Cardinality(new) - Cardinality(Drawn(id) \cap new)
    BY <1>1, <1>6, FS_Union
  <2>2. Cardinality(Drawn(id) \cap new) = 0
    BY <1>7, FS_EmptySet
  <2> QED BY <1>1, <1>5, <1>6, <2>1, <2>2
<1>9. /\ Cardinality(Drawn(id)) = sec - gaps[id]
      /\ sec - gaps[id] <= arrived[id] - Len(q)
      /\ sec < Duration => sec - gaps[id] = arrived[id] - Len(q)
  BY <1>2 DEF Accounted, Passed
<1>10. Cardinality(Drawn(id)') = (sec - gaps[id]) + n
  BY <1>8, <1>9
<1> DEFINE room == Duration - gaps[id]
           result == IF arrived[id] < room THEN arrived[id] ELSE room
<1>13. /\ Len(q) \in Nat /\ arrived[id] \in Nat /\ gaps[id] \in Nat
       /\ sec \in Nat /\ sec <= Duration /\ Duration \in Nat
  BY <1>1
<1>14. /\ sec - gaps[id] <= arrived[id] - Len(q)
       /\ sec < Duration => sec - gaps[id] = arrived[id] - Len(q)
  BY <1>9
<1>11. CASE Len(q) <= d
  <2>1. n = Len(q)
    BY <1>11
  <2>2. CASE sec < Duration
    <3>1. sec - gaps[id] = arrived[id] - Len(q) /\ arrived[id] <= room
      BY <1>11, <1>13, <1>14, <2>2
    <3>2. result = arrived[id]
      BY <1>13, <3>1
    <3> QED BY <1>10, <1>13, <2>1, <3>1, <3>2
  <2>3. CASE sec = Duration
    <3>1. Len(q) = 0 /\ room <= arrived[id]
      BY <1>11, <1>13, <1>14, <2>3
    <3>2. result = room
      BY <1>13, <3>1
    <3> QED BY <1>10, <1>13, <2>1, <2>3, <3>1, <3>2
  <2> QED BY <1>13, <2>2, <2>3
<1>12. CASE ~(Len(q) <= d)
  <2>1. n = d /\ room <= arrived[id]
    <3>1. n = d
      BY <1>12
    <3>2. sec - gaps[id] <= arrived[id] - Len(q) /\ Duration - sec < Len(q)
      BY <1>12, <1>13, <1>14
    <3> HIDE DEF q
    <3> QED BY <1>13, <3>1, <3>2
  <2>2. result = (sec - gaps[id]) + d
    BY <1>13, <2>1
  <2> QED BY <1>10, <2>1, <2>2
<1> QED BY <1>11, <1>12

(***************************************************************************)
(* When done comes, every sample is drawn for which there is a slot.       *)
(***************************************************************************)
THEOREM DoneDrawsWhatFits == ChartSpec => DrawnWhenDone
<1>1. ChartInv /\ [ChartNext]_chartVars =>
        [Live /\ run.streams = 1 /\ run'.phase = "done" =>
           \A id \in Ids : LET room == Duration - gaps[id] IN
             Cardinality(Drawn(id)') = IF arrived[id] < room THEN arrived[id] ELSE room]_chartVars
  <2> SUFFICES ASSUME ChartInv, ChartNext, Live, run.streams = 1, run'.phase = "done", NEW id \in Ids
               PROVE  LET room == Duration - gaps[id] IN
                        Cardinality(Drawn(id)') = IF arrived[id] < room THEN arrived[id] ELSE room
    OBVIOUS
  <2>1. ChartTyped /\ Line(id)
    BY DEF ChartInv
  <2>2. Done
    <3>1. run' # run
      BY DEF Live
    <3>2. ~Tick /\ ~StopElapsed /\ ~(\E a \in Ids : Sample(a)) /\ ~(\E r \in 1..MaxRuns : FirstTick(r))
      BY <3>1 DEF Tick, StopElapsed, Sample, FirstTick
    <3>3. ~Click /\ ~(\E ok \in BOOLEAN : Posted(ok))
      BY <2>1 DEF Click, Asked, Posted, Live, ChartTyped
    <3>4. ~Error
      BY <2>1 DEF Error, Finish, ChartTyped
    <3> QED BY <3>2, <3>3, <3>4 DEF ChartNext
  <2> QED BY <2>1, <2>2, DoneDraws
<1> QED BY <1>1, ChartInvInit, ChartInvStep, PTL DEF ChartSpec, DrawnWhenDone

-----------------------------------------------------------------------------

(***************************************************************************)
(* The two side by side, as the run has them: every type holds for any     *)
(* pages, agents, durations and bounds.                                    *)
(***************************************************************************)
THEOREM PageTyped == PageSpec => []PageTypeOK
<1>1. PageInit => EInv /\ ChartInv
  BY EInvInit, ChartInvInit DEF PageInit
<1>2. EInv /\ ChartInv /\ [PageNext]_<<shown, vars, chartVars>> => (EInv /\ ChartInv)'
  <2> SUFFICES ASSUME EInv, ChartInv, [PageNext]_<<shown, vars, chartVars>> PROVE EInv' /\ ChartInv'
    OBVIOUS
  <2>1. [Next]_vars /\ [ChartNext]_chartVars
    BY DEF PageNext
  <2> QED BY <2>1, EInvStep, ChartInvStep
<1>3. EInv /\ ChartInv => PageTypeOK
  <2>1. ChartInv => ChartTypeOK
    BY ChartHasItsSlots
  <2> QED BY <2>1 DEF EInv, PageTypeOK
<1> QED BY <1>1, <1>2, <1>3, PTL DEF PageSpec

=============================================================================
