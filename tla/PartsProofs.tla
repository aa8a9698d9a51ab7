----------------------------- MODULE PartsProofs -----------------------------
(***************************************************************************)
(* Theorems about parts that stand by themselves: the threads of an        *)
(* agent's MQTT bus, its precise start, the band of its heartbeats, the    *)
(* airtime collector and the merge of scenario files.                      *)
(***************************************************************************)
EXTENDS MqttBus, PreciseStart, WifiLink, ApCollector, ScenarioLoader, TLAPS

(***************************************************************************)
(* The bus.  No subscription is lost between its two threads, for every    *)
(* set of patterns and any number of broken connections and messages.      *)
(***************************************************************************)
BusSpec == BusInit /\ [][BusNext]_busVars

Nets == [pc : {"down", "dead", "rest", "resubscribe", "iterate"}, todo : Seq(Topics),
         size : Nat, topic : Topics \cup {"none"}]

BusTyped ==
    /\ dict \in Seq(Topics)
    /\ main \in [pc : {"rest", "request"}, topic : Topics \cup {"none"}]
    /\ net \in Nets

Known == DOMAIN atBroker
Pending == IF main.pc = "request" THEN {main.topic} ELSE {}

\* Where the patterns of the dictionary are on their way to the broker.
Covered ==
    /\ net.pc \in {"rest", "iterate"} => Range(dict) \subseteq Known \cup Pending
    /\ net.pc = "resubscribe" => Range(dict) \subseteq Known \cup Pending \cup Range(net.todo)

BusInv == BusTyped /\ Covered

LEMMA RangeOfAppend ==
  ASSUME NEW S, NEW seq \in Seq(S), NEW e \in S
  PROVE  Append(seq, e) \in Seq(S) /\ Range(Append(seq, e)) = Range(seq) \cup {e}
<1>1. /\ Append(seq, e) \in Seq(S) /\ Len(Append(seq, e)) = Len(seq) + 1 /\ Len(seq) \in Nat
      /\ \A i \in 1..Len(seq) : Append(seq, e)[i] = seq[i]
      /\ Append(seq, e)[Len(seq) + 1] = e
  OBVIOUS
<1>2. DOMAIN Append(seq, e) = 1..Len(seq) + 1 /\ DOMAIN seq = 1..Len(seq)
  OBVIOUS
<1> QED BY <1>1, <1>2 DEF Range

LEMMA RangeOfTail ==
  ASSUME NEW S, NEW seq \in Seq(S), seq # <<>>
  PROVE  /\ Tail(seq) \in Seq(S) /\ Head(seq) \in S
         /\ Range(seq) \subseteq {Head(seq)} \cup Range(Tail(seq))
<1>1. /\ Tail(seq) \in Seq(S) /\ Len(seq) \in Nat \ {0} /\ Len(Tail(seq)) = Len(seq) - 1
      /\ Head(seq) = seq[1] /\ Head(seq) \in S
      /\ \A i \in 1..Len(seq) - 1 : Tail(seq)[i] = seq[i + 1]
  OBVIOUS
<1>2. DOMAIN Tail(seq) = 1..Len(seq) - 1 /\ DOMAIN seq = 1..Len(seq)
  BY <1>1
<1>3. ASSUME NEW i \in 1..Len(seq) PROVE seq[i] \in {Head(seq)} \cup Range(Tail(seq))
  <2>1. CASE i = 1
    BY <1>1, <2>1
  <2>2. CASE i # 1
    <3>1. i - 1 \in DOMAIN Tail(seq) /\ Tail(seq)[i - 1] = seq[i]
      BY <1>1, <1>2, <2>2
    <3> QED BY <3>1 DEF Range
  <2> QED BY <2>1, <2>2
<1> QED BY <1>1, <1>2, <1>3 DEF Range

LEMMA Granted ==
  ASSUME NEW topic, NEW qos, Grant(topic, qos) PROVE Known' = Known \cup {topic}
  BY DEF Grant, Known

LEMMA Resting ==
  /\ Rest \in Nets /\ Rest.pc = "rest"
  /\ \A pc \in {"down", "dead"} : /\ [Rest EXCEPT !.pc = pc] \in Nets
                                  /\ [Rest EXCEPT !.pc = pc].pc = pc
<1>1. Rest \in Nets /\ Rest.pc = "rest"
  BY DEF Rest, Nets
<1> QED BY <1>1 DEF Nets

LEMMA BusStep == ASSUME BusInv, [BusNext]_busVars PROVE BusInv'
<1>1. CASE UNCHANGED busVars
  BY <1>1 DEF busVars, BusInv, BusTyped, Covered, Known, Pending
<1>2. ASSUME NEW topic \in Topics, AddEntry(topic) PROVE BusInv'
  <2>1. /\ dict' = Append(dict, topic) /\ main' = [pc |-> "request", topic |-> topic]
        /\ UNCHANGED <<net, atBroker>> /\ main.pc = "rest"
    BY <1>2 DEF AddEntry
  <2>2. dict' \in Seq(Topics) /\ Range(dict') = Range(dict) \cup {topic}
    BY <2>1, RangeOfAppend DEF BusInv, BusTyped
  <2>3. Pending = {} /\ Pending' = {topic} /\ Known' = Known
    BY <2>1 DEF Pending, Known
  <2> QED BY <2>1, <2>2, <2>3 DEF BusInv, BusTyped, Covered
<1>3. CASE Request
  <2>1. /\ main.pc = "request" /\ main' = [main EXCEPT !.pc = "rest"] /\ UNCHANGED <<dict, net>>
        /\ IF net.pc \in {"down", "dead"} THEN UNCHANGED atBroker ELSE Grant(main.topic, 1)
    BY <1>3 DEF Request
  <2>2. Pending = {main.topic} /\ Pending' = {}
    BY <2>1 DEF Pending, BusInv, BusTyped
  <2>3. net.pc \notin {"down", "dead"} => Known' = Known \cup {main.topic}
    BY <2>1, Granted
  <2> QED BY <2>1, <2>2, <2>3 DEF BusInv, BusTyped, Covered
<1>4. CASE OnConnect
  <2>1. /\ net' = [pc |-> "resubscribe", todo |-> dict, size |-> 0, topic |-> "none"]
        /\ UNCHANGED <<dict, main, atBroker>>
    BY <1>4 DEF OnConnect, Rest
  <2> QED BY <2>1 DEF BusInv, BusTyped, Covered, Known, Pending, Nets
<1>5. CASE Resubscribe
  <2>1. net.pc = "resubscribe" /\ UNCHANGED <<dict, main>> /\ Pending' = Pending
    BY <1>5 DEF Resubscribe, Pending
  <2>2. CASE net.todo = <<>>
    <3>1. net' = Rest /\ Known' = Known
      BY <1>5, <2>2 DEF Resubscribe, Known
    <3>2. Range(net.todo) = {}
      BY <2>2 DEF Range
    <3> QED BY <2>1, <3>1, <3>2, Resting DEF BusInv, BusTyped, Covered
  <2>3. CASE net.todo # <<>>
    <3>1. net' = [net EXCEPT !.todo = Tail(@)] /\ Known' = Known \cup {Head(net.todo)}
      BY <1>5, <2>3, Granted DEF Resubscribe
    <3>2. /\ Tail(net.todo) \in Seq(Topics)
          /\ Range(net.todo) \subseteq {Head(net.todo)} \cup Range(Tail(net.todo))
      BY <2>3, RangeOfTail DEF BusInv, BusTyped, Nets
    <3> QED BY <2>1, <3>1, <3>2 DEF BusInv, BusTyped, Covered, Nets
  <2> QED BY <2>2, <2>3
<1>6. CASE OnDisconnect
  BY <1>6, Resting DEF OnDisconnect, BusInv, BusTyped, Covered
<1>7. ASSUME NEW topic \in Topics, OnMessage(topic) PROVE BusInv'
  <2>1. Len(dict) \in Nat
    BY DEF BusInv, BusTyped
  <2> QED BY <1>7, <2>1 DEF OnMessage, BusInv, BusTyped, Covered, Known, Pending, Nets
<1>8. CASE Iterate
  <2>1. net.pc = "iterate" /\ UNCHANGED <<dict, main, atBroker>>
    BY <1>8 DEF Iterate
  <2>2. CASE net' \in {[Rest EXCEPT !.pc = "dead"], Rest}
    BY <2>1, <2>2, Resting DEF BusInv, BusTyped, Covered, Known, Pending
  <2>3. CASE net' = [net EXCEPT !.todo = Tail(@)] /\ net.todo # <<>>
    <3>1. Tail(net.todo) \in Seq(Topics)
      BY <2>3, RangeOfTail DEF BusInv, BusTyped, Nets
    <3> QED BY <2>1, <2>3, <3>1 DEF BusInv, BusTyped, Covered, Known, Pending, Nets
  <2> QED BY <1>8, <2>2, <2>3 DEF Iterate
<1> QED BY <1>1, <1>2, <1>3, <1>4, <1>5, <1>6, <1>7, <1>8 DEF BusNext

(* Whichever way subscribe and _on_connect meet, a connection that has     *)
(* been answered carries every pattern of the dictionary.                  *)
THEOREM NothingUnsubscribed == BusSpec => []AllSubscribed
<1>1. BusInit => BusInv
  BY Resting DEF BusInit, BusInv, BusTyped, Covered
<1>2. BusInv => AllSubscribed
  BY DEF BusInv, BusTyped, Covered, Known, Pending, AllSubscribed
<1> QED BY <1>1, <1>2, BusStep, PTL DEF BusSpec

-----------------------------------------------------------------------------

(***************************************************************************)
(* The precise start, for every target, busy wait and set of stations and  *)
(* any number of clock steps.                                              *)
(***************************************************************************)
StartSpec == StartInit /\ [][StartNext]_startVars

StartTyped ==
    /\ time \in Int /\ skew \in [Stations -> Int]
    /\ sleeper \in [Stations -> [pc : {"wait", "sleep", "spin", "begun"},
                                 until : Int, inTime : BOOLEAN]]

Calm(s) == s \notin stepped /\ sleeper[s].inTime

\* How far sleep_until has brought a station, by the phase it is in.
OnCourse(s) ==
    /\ sleeper[s].pc \in {"wait", "sleep"} => s \notin shaken
    /\ sleeper[s].pc = "sleep" /\ Calm(s) =>
        /\ sleeper[s].until + skew[s] = Target - BusyWait
        /\ time <= sleeper[s].until + Overshoot
    /\ sleeper[s].pc = "spin" /\ s \notin shaken => sleeper[s].until + skew[s] = Target
    /\ sleeper[s].pc = "spin" /\ Calm(s) => s \notin shaken /\ time <= sleeper[s].until
    /\ sleeper[s].pc = "begun" =>
        /\ s \notin shaken => sleeper[s].until >= Target
        /\ Calm(s) => sleeper[s].until = Target

\* Nobody has been stepped in a sleep that has not begun.
NotYet(s) == sleeper[s].pc = "wait" => s \notin stepped

StartInv == StartTyped /\ \A s \in Stations : OnCourse(s) /\ NotYet(s)

LEMMA StartInitOK == StartInit => StartInv
  BY DEF StartInit, StartInv, StartTyped, OnCourse, NotYet, Calm

\* Only one station's sleep_until goes on, and to where.
LEMMA SleeperMoves ==
  ASSUME StartInv, NEW s \in Stations, UNCHANGED <<time, skew, steps, stepped, shaken>>,
         NEW new \in [pc : {"wait", "sleep", "spin", "begun"}, until : Int, inTime : BOOLEAN],
         sleeper' = [sleeper EXCEPT ![s] = new], OnCourse(s)', NotYet(s)'
  PROVE  StartInv'
<1>1. StartTyped'
  BY DEF StartInv, StartTyped
<1>2. ASSUME NEW r \in Stations, r # s PROVE OnCourse(r)' /\ NotYet(r)'
  BY <1>2 DEF StartInv, StartTyped, OnCourse, NotYet, Calm
<1> QED BY <1>1, <1>2 DEF StartInv

LEMMA SleepOK == ASSUME StartInv, NEW s \in Stations, Sleep(s) PROVE StartInv'
<1> DEFINE delta == Target - BusyWait - Clock(s)
           new == [pc |-> "sleep", until |-> IF delta > 0 THEN time + delta ELSE time,
                   inTime |-> delta >= 0]
<1>1. /\ UNCHANGED <<time, skew, steps, stepped, shaken>>
      /\ sleeper[s].pc = "wait" /\ sleeper' = [sleeper EXCEPT ![s] = new]
  BY DEF Sleep
<1>2. time \in Int /\ skew[s] \in Int /\ delta = Target - BusyWait - (time + skew[s])
  BY StartAssumption DEF StartInv, StartTyped, Clock
<1>3. delta \in Int
  BY <1>2, StartAssumption
<1>4. sleeper'[s] = new
  BY <1>1 DEF StartInv, StartTyped
<1>5. new \in [pc : {"wait", "sleep", "spin", "begun"}, until : Int, inTime : BOOLEAN]
  BY <1>2, <1>3
<1>6. new.pc = "sleep" /\ (new.inTime <=> delta >= 0)
      /\ new.until = IF delta > 0 THEN time + delta ELSE time
  OBVIOUS
<1> HIDE DEF new, delta
<1>7. new.inTime => new.until + skew[s] = Target - BusyWait /\ time <= new.until
  <2>1. CASE delta > 0
    BY <1>2, <1>3, <1>6, <2>1, StartAssumption
  <2>2. CASE delta = 0
    BY <1>2, <1>3, <1>6, <2>2, StartAssumption
  <2>3. CASE delta < 0
    BY <1>3, <1>6, <2>3
  <2> QED BY <1>3, <2>1, <2>2, <2>3
<1>8. new.until \in Int
  BY <1>2, <1>3, <1>6
<1>9. OnCourse(s)' /\ NotYet(s)'
  <2>1. s \notin shaken' /\ skew' = skew /\ time' = time
    BY <1>1 DEF StartInv, OnCourse
  <2> QED BY <1>2, <1>4, <1>6, <1>7, <1>8, <2>1, StartAssumption DEF OnCourse, NotYet, Calm
<1> QED BY <1>1, <1>5, <1>9, SleeperMoves

LEMMA AnchorOK == ASSUME StartInv, NEW s \in Stations, Anchor(s) PROVE StartInv'
<1> DEFINE new == [pc |-> "spin", until |-> time + Target - Clock(s), inTime |-> sleeper[s].inTime]
<1>1. /\ UNCHANGED <<time, skew, steps, stepped, shaken>>
      /\ sleeper[s].pc = "sleep" /\ sleeper' = [sleeper EXCEPT ![s] = new]
  BY DEF Anchor, StartInv, StartTyped
<1>2. time \in Int /\ skew[s] \in Int /\ Clock(s) = time + skew[s]
  BY DEF StartInv, StartTyped, Clock
<1>3. sleeper'[s] = new
  BY <1>1 DEF StartInv, StartTyped
<1>4. new \in [pc : {"wait", "sleep", "spin", "begun"}, until : Int, inTime : BOOLEAN]
  BY <1>2, StartAssumption DEF StartInv, StartTyped
<1>5. new.pc = "spin" /\ new.inTime = sleeper[s].inTime /\ new.until = Target - skew[s]
  BY <1>2, StartAssumption DEF StartInv, StartTyped
<1>6. sleeper[s].until \in Int
  BY DEF StartInv, StartTyped
<1> HIDE DEF new
<1>7. OnCourse(s)' /\ NotYet(s)'
  BY <1>1, <1>2, <1>3, <1>5, <1>6, StartAssumption DEF StartInv, OnCourse, NotYet, Calm
<1> QED BY <1>1, <1>4, <1>7, SleeperMoves

LEMMA BeginOK == ASSUME StartInv, NEW s \in Stations, Begin(s) PROVE StartInv'
<1> DEFINE new == [pc |-> "begun", until |-> Clock(s), inTime |-> sleeper[s].inTime]
<1>1. /\ UNCHANGED <<time, skew, steps, stepped, shaken>>
      /\ sleeper[s].pc = "spin" /\ time >= sleeper[s].until
      /\ sleeper' = [sleeper EXCEPT ![s] = new]
  BY DEF Begin, StartInv, StartTyped
<1>2. time \in Int /\ skew[s] \in Int /\ Clock(s) = time + skew[s] /\ sleeper[s].until \in Int
  BY DEF StartInv, StartTyped, Clock
<1>3. sleeper'[s] = new
  BY <1>1 DEF StartInv, StartTyped
<1>4. new \in [pc : {"wait", "sleep", "spin", "begun"}, until : Int, inTime : BOOLEAN]
  BY <1>2 DEF StartInv, StartTyped
<1>5. new.pc = "begun" /\ new.inTime = sleeper[s].inTime /\ new.until = time + skew[s]
  BY <1>2 DEF StartInv, StartTyped
<1> HIDE DEF new
<1>6. OnCourse(s)' /\ NotYet(s)'
  BY <1>1, <1>2, <1>3, <1>5, StartAssumption DEF StartInv, OnCourse, NotYet, Calm
<1> QED BY <1>1, <1>4, <1>6, SleeperMoves

LEMMA TickOK == ASSUME StartInv, Tick PROVE StartInv'
<1>1. /\ time' = time + 1 /\ UNCHANGED <<skew, sleeper, steps, stepped, shaken>>
      /\ \A s \in Stations :
           /\ sleeper[s].pc = "sleep" => time < sleeper[s].until + Overshoot
           /\ sleeper[s].pc = "spin" => time < sleeper[s].until
  BY DEF Tick
<1>2. StartTyped'
  BY <1>1 DEF StartInv, StartTyped
<1>3. ASSUME NEW s \in Stations PROVE OnCourse(s)' /\ NotYet(s)'
  <2>1. time \in Int /\ sleeper[s].until \in Int
    BY DEF StartInv, StartTyped
  <2> QED BY <1>1, <2>1, StartAssumption DEF StartInv, OnCourse, NotYet, Calm
<1> QED BY <1>2, <1>3 DEF StartInv

LEMMA StepClockOK ==
  ASSUME StartInv, NEW r \in Stations, NEW by \in {-1, 1}, StepClock(r, by) PROVE StartInv'
<1>1. /\ UNCHANGED <<time, sleeper>> /\ skew' = [skew EXCEPT ![r] = @ + by]
      /\ stepped' = IF sleeper[r].pc = "wait" THEN stepped ELSE stepped \cup {r}
      /\ shaken' = IF sleeper[r].pc = "spin" THEN shaken \cup {r} ELSE shaken
  BY DEF StepClock
<1>2. StartTyped'
  BY <1>1 DEF StartInv, StartTyped
<1>3. ASSUME NEW s \in Stations PROVE OnCourse(s)' /\ NotYet(s)'
  <2>1. /\ s # r => skew'[s] = skew[s] /\ (s \in stepped' <=> s \in stepped)
                    /\ (s \in shaken' <=> s \in shaken)
        /\ s = r => (s \in stepped' <=> s \in stepped \/ sleeper[s].pc # "wait")
                    /\ (s \in shaken' <=> s \in shaken \/ sleeper[s].pc = "spin")
    BY <1>1 DEF StartInv, StartTyped
  <2>2. sleeper' = sleeper /\ time' = time
    BY <1>1
  <2> QED BY <2>1, <2>2 DEF StartInv, OnCourse, NotYet, Calm
<1> QED BY <1>2, <1>3 DEF StartInv

(* No station begins before the target on its own clock unless that is     *)
(* stepped during the busy wait, and left alone it begins exactly on       *)
(* target (sleep_until).                                                   *)
THEOREM BeginsOnTarget == StartSpec => []StartsOnTarget
<1>1. StartInv => StartsOnTarget
  BY DEF StartInv, OnCourse, Calm, StartsOnTarget
<1>2. StartInv /\ [StartNext]_startVars => StartInv'
  <2> SUFFICES ASSUME StartInv, [StartNext]_startVars PROVE StartInv'
    OBVIOUS
  <2>1. CASE UNCHANGED startVars
    BY <2>1 DEF startVars, StartInv, StartTyped, OnCourse, NotYet, Calm
  <2>2. CASE Tick
    BY <2>2, TickOK
  <2>3. ASSUME NEW s \in Stations, Sleep(s) \/ Anchor(s) \/ Begin(s) PROVE StartInv'
    BY <2>3, SleepOK, AnchorOK, BeginOK
  <2>4. ASSUME NEW s \in Stations, NEW by \in {-1, 1}, StepClock(s, by) PROVE StartInv'
    BY <2>4, StepClockOK
  <2> QED BY <2>1, <2>2, <2>3, <2>4 DEF StartNext
<1> QED BY <1>1, <1>2, StartInitOK, PTL DEF StartSpec

-----------------------------------------------------------------------------

(***************************************************************************)
(* The band of a heartbeat, for all channels and any number of moves.      *)
(***************************************************************************)
LinkSpec == LinkInit /\ [][LinkNext]_linkVars

\* A frequency, read while the station was at some of the places of.
Faithful(freq, of) ==
    GetBand(freq) # "unknown" =>
        \E l \in of \ {<< >>} :
            \/ GetBand(freq) = l[1]
            \/ l[1] = "6G" /\ os # "linux" /\ GetBand(freq) = Guess(l[2])
            \/ l[1] = "6G" /\ os # "macos" /\ l[2] < 10 /\ GetBand(freq) = "5G"

(***************************************************************************)
(* What is cached or about to be was true of a place since it was read,    *)
(* and where the station is now is among those places.                     *)
(***************************************************************************)
LinkInv ==
    /\ os \in {"linux", "windows", "macos"}
    /\ on \in Channels \cup {<< >>}
    /\ on \in during /\ on \in since
    /\ Faithful(cache, since)
    /\ poller.pc = "store" => Faithful(poller.read, during)

LEMMA FaithfulGrows ==
  ASSUME NEW freq, NEW of, NEW more, of \subseteq more, Faithful(freq, of)
  PROVE  Faithful(freq, more)
BY DEF Faithful

LEMMA Numbered ==
  ASSUME NEW c \in Channels
  PROVE  \E band \in {"2.4G", "5G", "6G"}, ch \in 1..233 :
           /\ c = <<band, ch>> /\ c[1] = band /\ c[2] = ch
           /\ band = "2.4G" => ch <= 14
           /\ band = "5G" => 32 <= ch /\ ch <= 177
<1>1. CASE c \in {"2.4G"} \X (1..14)
  <2>1. c = <<c[1], c[2]>> /\ c[1] = "2.4G" /\ c[2] \in 1..14
    BY <1>1
  <2> QED BY <2>1
<1>2. CASE c \in {"5G"} \X (32..177)
  <2>1. c = <<c[1], c[2]>> /\ c[1] = "5G" /\ c[2] \in 32..177
    BY <1>2
  <2> QED BY <2>1
<1>3. CASE c \in {"6G"} \X (1..233)
  <2>1. c = <<c[1], c[2]>> /\ c[1] = "6G" /\ c[2] \in 1..233
    BY <1>3
  <2> QED BY <2>1
<1> QED BY <1>1, <1>2, <1>3, ChannelsAssumption

LEMMA FaithfulLook ==
  ASSUME LinkInv, NEW freq \in Look PROVE Faithful(freq, {on})
<1>1. CASE freq = NoLink
  BY <1>1 DEF Faithful, GetBand, BaseBand, MacBand, BandBelow
<1>2. CASE freq # NoLink
  <2>1. on # << >>
    <3> SUFFICES ASSUME on = << >> PROVE freq = NoLink
      BY <1>2
    <3>1. freq \in {NoLink} \cup {}
      BY DEF Look
    <3> QED BY <3>1
  <2>2. on \in Channels
    BY <2>1 DEF LinkInv
  <2>3. PICK band \in {"2.4G", "5G", "6G"}, ch \in 1..233 :
          /\ on = <<band, ch>> /\ on[1] = band /\ on[2] = ch
          /\ band = "2.4G" => ch <= 14
          /\ band = "5G" => 32 <= ch /\ ch <= 177
    BY <2>2, Numbered
  <2>9. /\ Guess(ch) = IF ch <= 14 THEN "2.4G" ELSE "5G"
        /\ LinuxLink(band, ch) \in Nat /\ LinuxLink(Guess(ch), ch) \in Nat
        /\ band # "6G" => Guess(ch) = band
        /\ band = "2.4G" => LinuxLink(band, ch) < 3000 /\ 2407 + ch * 5 < 3000
        /\ band = "5G" => 3000 <= LinuxLink(band, ch) /\ LinuxLink(band, ch) < 5925
        /\ band = "6G" => 5950 < LinuxLink(band, ch) /\ (ch >= 10 => 6000 <= LinuxLink(band, ch))
        /\ Guess(ch) = "2.4G" => LinuxLink(Guess(ch), ch) < 3000 /\ 2407 + ch * 5 < 3000
        /\ Guess(ch) = "5G" => 3000 <= LinuxLink(Guess(ch), ch)
    <3>1. /\ band \in {"2.4G", "5G", "6G"} /\ ch \in Nat /\ 1 <= ch
          /\ band = "2.4G" => ch <= 14
          /\ band = "5G" => 32 <= ch /\ ch <= 177
      BY <2>3
    <3> QED BY <3>1 DEF Guess, LinuxLink
  <2>4. os \in {"linux", "windows", "macos"}
    BY DEF LinkInv
  <2>5. \/ freq = LinuxLink(band, ch)
        \/ os # "linux" /\ freq = LinuxLink(Guess(ch), ch)
        \/ os = "macos" /\ freq = 2407 + ch * 5 /\ "2.4G" \in {band, Guess(ch)}
    <3>1. CASE os = "linux"
      BY <1>2, <2>1, <2>3, <3>1 DEF Look
    <3>2. CASE os = "windows"
      BY <1>2, <2>1, <2>3, <3>2 DEF Look, WindowsLink
    <3>3. CASE os = "macos"
      BY <1>2, <2>1, <2>3, <3>3 DEF Look, MacLink
    <3> QED BY <2>4, <3>1, <3>2, <3>3
  <2> DEFINE tells == GetBand(freq)
  <2>6. freq \in Nat /\ tells = IF freq < 3000 THEN "2.4G"
                                 ELSE IF freq < (IF os = "macos" THEN 5925 ELSE 6000) THEN "5G" ELSE "6G"
    <3>1. freq \in Nat
      BY <2>3, <2>5, <2>9
    <3> QED BY <1>2, <3>1 DEF GetBand, BaseBand, MacBand, BandBelow
  <2>7. \/ tells = band
        \/ band = "6G" /\ os # "linux" /\ tells = Guess(ch)
        \/ band = "6G" /\ os # "macos" /\ ch < 10 /\ tells = "5G"
    <3> HIDE DEF tells
    <3>1. CASE freq = LinuxLink(band, ch)
      <4>1. CASE band = "2.4G"
        BY <2>3, <2>6, <3>1, <4>1, <2>9
      <4>2. CASE band = "5G"
        BY <2>3, <2>6, <3>1, <4>2, <2>9
      <4>3. CASE band = "6G"
        <5>1. 5950 < freq /\ (ch >= 10 => 6000 <= freq)
          BY <2>3, <2>9, <3>1, <4>3
        <5> QED BY <2>6, <4>3, <5>1
      <4> QED BY <4>1, <4>2, <4>3
    <3>2. CASE os # "linux" /\ freq = LinuxLink(Guess(ch), ch)
      <4>1. band # "6G" => Guess(ch) = band
        BY <2>3, <2>9
      <4>2. CASE band # "6G"
        BY <3>1, <3>2, <4>1, <4>2
      <4>3. CASE band = "6G"
        <5>1. /\ Guess(ch) \in {"2.4G", "5G"}
              /\ Guess(ch) = "2.4G" => freq < 3000
              /\ Guess(ch) = "5G" => 3000 <= freq
          BY <2>3, <2>9, <3>2
        <5> QED BY <2>6, <3>2, <4>3, <5>1
      <4> QED BY <4>2, <4>3
    <3>3. CASE os = "macos" /\ freq = 2407 + ch * 5 /\ "2.4G" \in {band, Guess(ch)}
      <4>1. freq < 3000
        BY <2>3, <2>9, <3>3
      <4>2. tells = "2.4G"
        BY <2>6, <4>1
      <4>3. band = "2.4G" \/ (band = "6G" /\ Guess(ch) = "2.4G")
        BY <2>3, <2>9, <3>3
      <4> QED BY <3>3, <4>2, <4>3
    <3> QED BY <2>5, <3>1, <3>2, <3>3
  <2> HIDE DEF tells
  <2> QED BY <2>1, <2>3, <2>7 DEF Faithful, tells
<1> QED BY <1>1, <1>2

LEMMA LinkStep == ASSUME LinkInv, [LinkNext]_linkVars PROVE LinkInv'
<1>1. ASSUME NEW to \in Channels \cup {<< >>}, Roam(to) PROVE LinkInv'
  <2>1. /\ on' = to /\ during' = during \cup {to} /\ since' = since \cup {to}
        /\ UNCHANGED <<os, poller, cache>>
    BY <1>1 DEF Roam
  <2>2. Faithful(cache, since') /\ (poller.pc = "store" => Faithful(poller.read, during'))
    BY <2>1, FaithfulGrows DEF LinkInv
  <2> QED BY <2>1, <2>2 DEF LinkInv, Faithful, GetBand
<1>2. CASE Heartbeat
  <2>1. /\ UNCHANGED <<os, on, cache, during, since>>
        /\ poller'.pc = "store" => poller' = poller
    BY <1>2 DEF Heartbeat
  <2> QED BY <2>1 DEF LinkInv, Faithful, GetBand
<1>3. CASE PollRead
  <2>1. /\ poller'.read \in Look /\ during' = {on} /\ UNCHANGED <<os, on, cache, since>>
    BY <1>3 DEF PollRead
  <2>2. Faithful(poller'.read, {on})
    BY <2>1, FaithfulLook
  <2> QED BY <2>1, <2>2 DEF LinkInv, Faithful, GetBand
<1>4. CASE PollStore
  <2>1. /\ poller.pc = "store" /\ poller'.pc # "store" /\ cache' = poller.read /\ since' = during
        /\ UNCHANGED <<os, on, during>>
    BY <1>4 DEF PollStore
  <2> QED BY <2>1 DEF LinkInv, Faithful, GetBand
<1>5. CASE UNCHANGED linkVars
  BY <1>5 DEF linkVars, LinkInv, Faithful, GetBand
<1> QED BY <1>1, <1>2, <1>3, <1>4, <1>5 DEF LinkNext

LEMMA ToldStep == ASSUME LinkInv, BandWasTrue, [LinkNext]_linkVars PROVE BandWasTrue'
<1>1. CASE Heartbeat
  <2>1. PICK freq, of : told' = [band |-> GetBand(freq), of |-> of] /\ Faithful(freq, of)
    BY <1>1, FaithfulLook DEF Heartbeat, LinkInv
  <2>2. os' = os
    BY <1>1 DEF Heartbeat
  <2> QED BY <2>1, <2>2 DEF BandWasTrue, Faithful
<1>2. CASE UNCHANGED <<told, os>>
  BY <1>2 DEF BandWasTrue
<1> QED BY <1>1, <1>2 DEF LinkNext, Roam, PollRead, PollStore, linkVars

(***************************************************************************)
(* The band a heartbeat tells is one the station was on since the system   *)
(* was asked, but for some 6 GHz channels.                                 *)
(***************************************************************************)
THEOREM BandsAreTrue == LinkSpec => []BandWasTrue
<1>1. LinkInit => LinkInv /\ BandWasTrue
  BY DEF LinkInit, LinkInv, BandWasTrue, Faithful, GetBand, BaseBand, MacBand, BandBelow
<1> QED BY <1>1, LinkStep, ToldStep, PTL DEF LinkSpec

-----------------------------------------------------------------------------

(***************************************************************************)
(* The airtime collector: no airtime is written twice and no share exceeds *)
(* its span, for every set of stations and whatever the bounds are.        *)
(***************************************************************************)
ApSpec == ApInit /\ [][ApNext]_apVars

Ahead(x, y) == IF x > y THEN x - y ELSE 0

\* The real time at which the counter kept in prev was read.
ReadAt(m) == prev[m].at + prev[m].jumps - prev[m].late

ApTyped ==
    /\ now \in Nat /\ jumps \in Nat
    /\ air \in [Macs -> Nat] /\ used \in [Macs -> Nat] /\ written \in [Macs -> Nat]
    /\ assoc \subseteq Macs
    /\ round = [reading |-> round.reading, macs |-> round.macs, read |-> round.read]
    /\ round.macs \subseteq Macs
    /\ DOMAIN round.read \subseteq Macs /\ DOMAIN prev \subseteq Macs
    /\ \A m \in DOMAIN round.read : round.read[m].air \in Nat /\ round.read[m].t \in 0..now
    /\ \A m \in DOMAIN prev :
        /\ prev[m].air \in Nat /\ prev[m].late \in Nat
        /\ prev[m].at \in Int /\ prev[m].jumps \in Nat

\* What is written, what the reading under way would add to it, and what has
\* come on top since: no more than was used.
Account(m) ==
    /\ air[m] <= used[m]
    /\ m \notin DOMAIN prev => written[m] = 0
    /\ m \in DOMAIN prev => written[m] + Ahead(air[m], prev[m].air) <= used[m]
    /\ m \in DOMAIN prev \cap DOMAIN round.read =>
        written[m] + Ahead(round.read[m].air, prev[m].air)
                   + Ahead(air[m], round.read[m].air) <= used[m]

\* A counter grows by one per tick at most.
Pace(m) ==
    /\ m \in DOMAIN prev => /\ ReadAt(m) <= now
                            /\ air[m] - prev[m].air <= now - ReadAt(m)
    /\ m \in DOMAIN round.read =>
        air[m] - round.read[m].air <= now - round.read[m].t
    /\ m \in DOMAIN prev \cap DOMAIN round.read =>
        round.read[m].air - prev[m].air <= round.read[m].t - ReadAt(m)

ApInv == ApTyped /\ \A m \in Macs : Account(m) /\ Pace(m)

LEMMA InitOK == ApInit => ApInv /\ ShareBounded
  BY DEF ApInit, ApInv, ApTyped, Account, Pace, Idle, ShareBounded, Ahead

LEMMA ElapseOK == ASSUME ApInv, NEW busy \in SUBSET assoc, Elapse(busy) PROVE ApInv'
<1>1. /\ now' = now + 1 /\ UNCHANGED <<jumps, assoc, prev, round, written>>
      /\ air' = [m \in Macs |-> air[m] + IF m \in busy THEN 1 ELSE 0]
      /\ used' = [m \in Macs |-> used[m] + IF m \in busy THEN 1 ELSE 0]
  BY DEF Elapse, ApInv, ApTyped
<1>2. ApTyped'
  BY <1>1 DEF ApInv, ApTyped
<1>3. ASSUME NEW m \in Macs PROVE Account(m)'
  BY <1>1 DEF ApInv, ApTyped, Account, Ahead
<1>4. ASSUME NEW m \in Macs PROVE Pace(m)'
  BY <1>1 DEF ApInv, ApTyped, Pace, ReadAt
<1> QED BY <1>2, <1>3, <1>4 DEF ApInv

LEMMA SetBackOK == ASSUME ApInv, SetBack PROVE ApInv'
  BY DEF SetBack, ApInv, ApTyped, Account, Pace, ReadAt, Ahead

LEMMA LeaveOK == ASSUME ApInv, NEW l \in Macs, Leave(l) PROVE ApInv'
<1>1. /\ air' = [air EXCEPT ![l] = 0] /\ assoc' = assoc \ {l}
      /\ UNCHANGED <<now, jumps, prev, round, used, written>>
  BY DEF Leave
<1>2. ApTyped'
  BY <1>1 DEF ApInv, ApTyped
<1>3. ASSUME NEW m \in Macs PROVE Account(m)'
  BY <1>1 DEF ApInv, ApTyped, Account, Ahead
<1>4. ASSUME NEW m \in Macs PROVE Pace(m)'
  BY <1>1 DEF ApInv, ApTyped, Pace, ReadAt
<1> QED BY <1>2, <1>3, <1>4 DEF ApInv

LEMMA RejoinOK == ASSUME ApInv, NEW l \in Macs, Rejoin(l) PROVE ApInv'
  BY DEF Rejoin, ApInv, ApTyped, Account, Pace, ReadAt, Ahead

\* A round that begins or fails has read nothing.
LEMMA NothingRead ==
  ASSUME ApInv, UNCHANGED <<now, jumps, air, assoc, prev, used, written>>,
         NEW macs \in SUBSET Macs, NEW reading,
         round' = [reading |-> reading, macs |-> macs, read |-> <<>>]
  PROVE  ApInv'
<1>1. DOMAIN round'.read = {} /\ round'.macs = macs
  OBVIOUS
<1>2. ApTyped'
  BY <1>1 DEF ApInv, ApTyped
<1>3. ASSUME NEW m \in Macs PROVE Account(m)' /\ Pace(m)'
  BY <1>1 DEF ApInv, Account, Pace, ReadAt, Ahead
<1> QED BY <1>2, <1>3 DEF ApInv

LEMMA CatOK == ASSUME ApInv, NEW c \in Macs, Cat(c) PROVE ApInv'
<1> DEFINE new == [air |-> air[c], t |-> now]
<1>1. UNCHANGED <<now, jumps, air, assoc, prev, used, written>>
  BY DEF Cat
<1>2. CASE c \notin assoc /\ round.macs = {c}
  BY <1>1, <1>2, NothingRead DEF Cat, Idle
<1>3. CASE c \notin assoc /\ round.macs # {c}
  <2>1. round' = [round EXCEPT !.macs = @ \ {c}]
    BY <1>3 DEF Cat
  <2>2. /\ round'.read = round.read /\ round'.macs \subseteq Macs
        /\ round' = [reading |-> round'.reading, macs |-> round'.macs, read |-> round'.read]
    BY <2>1 DEF ApInv, ApTyped
  <2> QED BY <1>1, <2>2 DEF ApInv, ApTyped, Account, Pace, ReadAt
<1>4. CASE c \in assoc
  <2>1. round' = [round EXCEPT !.macs = @ \ {c},
                               !.read = Updated(@, [s \in {c} |-> new])]
    BY <1>4 DEF Cat
  <2>2. /\ round'.read = Updated(round.read, [s \in {c} |-> new])
        /\ round'.macs \subseteq Macs
        /\ round' = [reading |-> round'.reading, macs |-> round'.macs, read |-> round'.read]
    BY <2>1 DEF ApInv, ApTyped
  <2>3. /\ DOMAIN round'.read = DOMAIN round.read \cup {c}
        /\ round'.read[c] = new
        /\ \A m \in DOMAIN round.read \ {c} : round'.read[m] = round.read[m]
    BY <2>2 DEF Updated
  <2>4. new.air = air[c] /\ new.t = now
    OBVIOUS
  <2> HIDE DEF new
  <2>5. ApTyped'
    BY <1>1, <2>2, <2>3, <2>4 DEF ApInv, ApTyped
  <2>6. ASSUME NEW m \in Macs PROVE Account(m)'
    BY <1>1, <2>3, <2>4 DEF ApInv, ApTyped, Account, Ahead
  <2>7. ASSUME NEW m \in Macs PROVE Pace(m)'
    BY <1>1, <2>3, <2>4 DEF ApInv, ApTyped, Pace, ReadAt
  <2> QED BY <2>5, <2>6, <2>7 DEF ApInv
<1> QED BY <1>2, <1>3, <1>4

\* What Evaluate leaves of a reading: the old one where nothing was read.
LEMMA ReadingsAre ==
  /\ DOMAIN Readings = DOMAIN round.read \cup DOMAIN prev
  /\ \A m \in DOMAIN round.read : Readings[m] = Reading(m)
  /\ \A m \in DOMAIN prev \ DOMAIN round.read : Readings[m] = prev[m]
  BY DEF Readings, Updated

LEMMA EvaluateOK == ASSUME ApInv, NEW ok \in BOOLEAN, Evaluate(ok) PROVE ApInv'
<1>1. /\ UNCHANGED <<now, jumps, air, assoc, used>>
      /\ prev' = Readings
      /\ DOMAIN round'.read = {} /\ round'.macs = {}
      /\ round' = [reading |-> round'.reading, macs |-> round'.macs, read |-> round'.read]
      /\ written' = [m \in Macs |-> written[m] + IF ok /\ m \in Fresh THEN Delta(m) ELSE 0]
  BY DEF Evaluate, Idle
<1>2. \A m \in DOMAIN round.read :
        /\ Reading(m).air = round.read[m].air /\ Reading(m).at = now - jumps
        /\ Reading(m).late = now - round.read[m].t /\ Reading(m).jumps = jumps
  BY DEF Reading, Wall
<1>3. \A m \in Fresh : /\ m \in DOMAIN round.read \cap DOMAIN prev
                       /\ Delta(m) = Ahead(round.read[m].air, prev[m].air)
  <2> SUFFICES ASSUME NEW m \in Fresh
               PROVE  /\ m \in DOMAIN round.read \cap DOMAIN prev
                      /\ Delta(m) = Ahead(round.read[m].air, prev[m].air)
    OBVIOUS
  <2>1. m \in DOMAIN round.read \cap DOMAIN prev
    BY DEF Fresh
  <2>2. round.read[m].air \in Nat /\ prev[m].air \in Nat
    BY <2>1 DEF ApInv, ApTyped
  <2> QED BY <2>1, <2>2 DEF Delta, Ahead
<1>4. ApTyped'
  <2>1. \A m \in Macs : written'[m] \in Nat
    BY <1>1, <1>3 DEF ApInv, ApTyped, Ahead
  <2>2. written' \in [Macs -> Nat]
    BY <1>1, <2>1
  <2> QED BY <1>1, <1>2, <2>2, ReadingsAre DEF ApInv, ApTyped
<1>5. ASSUME NEW m \in Macs PROVE Account(m)'
  <2>1. CASE m \in DOMAIN round.read /\ m \in DOMAIN prev
    BY <1>1, <1>2, <1>3, <2>1, ReadingsAre DEF ApInv, ApTyped, Account, Ahead
  <2>2. CASE m \in DOMAIN round.read /\ m \notin DOMAIN prev
    BY <1>1, <1>2, <1>3, <2>2, ReadingsAre DEF ApInv, ApTyped, Account, Ahead
  <2>3. CASE m \notin DOMAIN round.read
    BY <1>1, <1>3, <2>3, ReadingsAre DEF ApInv, ApTyped, Account, Ahead
  <2> QED BY <2>1, <2>2, <2>3
<1>6. ASSUME NEW m \in Macs PROVE Pace(m)'
  <2>1. CASE m \in DOMAIN round.read
    BY <1>1, <1>2, <2>1, ReadingsAre DEF ApInv, ApTyped, Pace, ReadAt
  <2>2. CASE m \notin DOMAIN round.read
    BY <1>1, <2>2, ReadingsAre DEF ApInv, ApTyped, Pace, ReadAt
  <2> QED BY <2>1, <2>2
<1> QED BY <1>4, <1>5, <1>6 DEF ApInv

LEMMA StepOK == ASSUME ApInv, [ApNext]_apVars PROVE ApInv'
<1>1. CASE UNCHANGED apVars
  BY <1>1 DEF apVars, ApInv, ApTyped, Account, Pace, ReadAt
<1>2. ASSUME NEW busy \in SUBSET assoc, Elapse(busy) PROVE ApInv'
  BY <1>2, ElapseOK
<1>3. CASE SetBack
  BY <1>3, SetBackOK
<1>4. CASE ListStations
  BY <1>4, NothingRead DEF ListStations, Idle, ApInv, ApTyped
<1>5. CASE SshFails
  BY <1>5, NothingRead DEF SshFails, Idle
<1>6. ASSUME NEW m \in Macs, Leave(m) \/ Rejoin(m) \/ Cat(m) PROVE ApInv'
  BY <1>6, LeaveOK, RejoinOK, CatOK
<1>7. ASSUME NEW ok \in BOOLEAN, Evaluate(ok) PROVE ApInv'
  BY <1>7, EvaluateOK
<1> QED BY <1>1, <1>2, <1>3, <1>4, <1>5, <1>6, <1>7 DEF ApNext

(* Readings keep their types, whatever is set back or rejoins.             *)
THEOREM ReadingsTyped == ApSpec => []ApTypeOK
<1>1. ApInv => ApTypeOK
  BY DEF ApInv, ApTyped, ApTypeOK
<1> QED BY <1>1, InitOK, StepOK, PTL DEF ApSpec

(* Whatever fails, however the clock is set and whoever rejoins, no        *)
(* airtime is written twice (_collect_once).                               *)
THEOREM CountedOnce == ApSpec => []NothingCountedTwice
<1>1. ApInv => NothingCountedTwice
  <2> SUFFICES ASSUME ApInv, NEW m \in Macs PROVE written[m] <= used[m]
    BY DEF NothingCountedTwice
  <2>1. air[m] \in Nat /\ used[m] \in Nat /\ written[m] \in Nat
    BY DEF ApInv, ApTyped
  <2>2. CASE m \in DOMAIN prev
    <3>1. prev[m].air \in Nat
      BY <2>2 DEF ApInv, ApTyped
    <3> QED BY <2>1, <2>2, <3>1 DEF ApInv, Account, Ahead
  <2>3. CASE m \notin DOMAIN prev
    BY <2>1, <2>3 DEF ApInv, Account
  <2> QED BY <2>2, <2>3
<1> QED BY <1>1, InitOK, StepOK, PTL DEF ApSpec

\* The points of a round are written once and then left alone or dropped.
LEMMA PointsOK == ASSUME ApInv, ShareBounded, [ApNext]_apVars PROVE ShareBounded'
<1>1. CASE points' = points \/ points' = <<>>
  BY <1>1 DEF ShareBounded
<1>2. ASSUME NEW ok \in BOOLEAN, Evaluate(ok), points' # <<>> PROVE ShareBounded'
  <2>1. points' = [m \in Fresh |-> Point(m)]
    BY <1>2 DEF Evaluate
  <2>2. ASSUME NEW m \in Fresh PROVE Point(m).span > 0 /\ Point(m).air <= Point(m).span + Point(m).slip
    <3>1. m \in Macs /\ m \in DOMAIN prev /\ m \in DOMAIN round.read /\ Wall > prev[m].at
      BY DEF Fresh, ApInv, ApTyped
    <3>2. /\ Point(m).span = now - jumps - prev[m].at
          /\ Point(m).slip = prev[m].late + jumps - prev[m].jumps
          /\ Point(m).air = IF round.read[m].air - prev[m].air > 0
                            THEN round.read[m].air - prev[m].air ELSE 0
      BY DEF Point, Wall, Delta
    <3> QED BY <3>1, <3>2 DEF ApInv, ApTyped, Pace, ReadAt, Wall
  <2> QED BY <2>1, <2>2 DEF ShareBounded
<1> QED
  BY <1>1, <1>2 DEF ApNext, apVars, Elapse, SetBack, Leave, Rejoin, ListStations, Cat,
                    SshFails, Evaluate

(* A written share exceeds its span only by what the clock and the delay   *)
(* of the previous reading explain, and no span is zero (_collect_once).   *)
THEOREM SharesBounded == ApSpec => []ShareBounded
<1>1. ApInit => ApInv /\ ShareBounded
  BY InitOK
<1>2. ApInv /\ ShareBounded /\ [ApNext]_apVars => (ApInv /\ ShareBounded)'
  BY StepOK, PointsOK
<1> QED BY <1>1, <1>2, PTL DEF ApSpec

-----------------------------------------------------------------------------

(***************************************************************************)
(* The scenario loader: its recursion ends, and what it merges has at      *)
(* every path what the two files say.                                      *)
(***************************************************************************)
LoaderSpec == LoaderInit /\ [][LoaderNext]_loaded

\* What becomes of entries of the two that are mappings both.
Both(b, o, k) ==
    /\ k \in DOMAIN b /\ k \in DOMAIN o /\ IsDict(b[k]) /\ IsDict(o[k])

\* A document's entries are scalars or mappings to scalars.
LEMMA Entries ==
    ASSUME NEW d \in Documents, NEW k \in DOMAIN d
    PROVE  /\ ~IsDict(d[k]) => d[k] \in Scalars
           /\ IsDict(d[k]) => d[k] \in [kids : Flat] /\ d[k].kids \in Flat
<1>1. d[k] \in Scalars \cup [kids : Flat]
  BY DEF Documents
<1>2. d[k] \in Scalars => DOMAIN d[k] = {"leaf"}
  BY DEF Scalars
<1>3. d[k] \in [kids : Flat] => DOMAIN d[k] = {"kids"} /\ d[k].kids \in Flat
  OBVIOUS
<1> QED BY <1>1, <1>2, <1>3 DEF IsDict

LEMMA FlatEntries ==
    ASSUME NEW d \in Flat
    PROVE  d \in Documents /\ \A k \in DOMAIN d : d[k] \in Scalars /\ ~IsDict(d[k])
<1>1. PICK S \in SUBSET Keys : d \in [S -> Scalars]
  BY DEF Flat
<1>2. d \in [S -> Scalars \cup [kids : Flat]]
  BY <1>1
<1>3. d \in Documents
  BY <1>2 DEF Documents
<1>4. \A s \in Scalars : ~IsDict(s)
  BY DEF Scalars, IsDict
<1> QED BY <1>1, <1>3, <1>4

Shallow(b, o) == [k \in DOMAIN b \cup DOMAIN o |-> IF k \in DOMAIN o THEN o[k] ELSE b[k]]

Deep(b, o) == [k \in DOMAIN b \cup DOMAIN o |->
                  IF k \notin DOMAIN o THEN b[k]
                  ELSE IF k \in DOMAIN b /\ IsDict(b[k]) /\ IsDict(o[k])
                  THEN [kids |-> Shallow(b[k].kids, o[k].kids)]
                  ELSE o[k]]

\* One level of the merge, with f for the next one.
Level(f, b, o) ==
    [k \in DOMAIN b \cup DOMAIN o |->
        IF k \notin DOMAIN o THEN b[k]
        ELSE IF k \in DOMAIN b /\ IsDict(b[k]) /\ IsDict(o[k])
        THEN [kids |-> f[<<b[k].kids, o[k].kids>>]]
        ELSE o[k]]

IsMerge(f) == f = [pair \in Documents \X Documents |-> Level(f, pair[1], pair[2])]

LEMMA OneMerge ==
    ASSUME NEW f, IsMerge(f), NEW b \in Documents, NEW o \in Documents
    PROVE  f[<<b, o>>] = Deep(b, o)
<1>1. \A d, e \in Documents : f[<<d, e>>] = Level(f, d, e)
  BY DEF IsMerge
<1>2. ASSUME NEW d \in Flat, NEW e \in Flat PROVE f[<<d, e>>] = Shallow(d, e)
  <2>1. Level(f, d, e) = Shallow(d, e)
    BY FlatEntries DEF Shallow, Level
  <2> QED BY <1>1, <2>1, FlatEntries
<1>3. \A k \in DOMAIN b \cap DOMAIN o : IsDict(b[k]) /\ IsDict(o[k]) =>
          f[<<b[k].kids, o[k].kids>>] = Shallow(b[k].kids, o[k].kids)
  BY <1>2, Entries
<1>4. Level(f, b, o) = Deep(b, o)
  BY <1>3 DEF Deep, Level
<1> QED BY <1>1, <1>4

LEMMA MergeExists == \E f : IsMerge(f)
<1> DEFINE g == [pair \in Documents \X Documents |-> Deep(pair[1], pair[2])]
<1>1. \A d, e \in Documents : g[<<d, e>>] = Deep(d, e)
  OBVIOUS
<1>2. \A d, e \in Flat : Deep(d, e) = Shallow(d, e)
  BY FlatEntries DEF Deep, Shallow
<1>3. ASSUME NEW b \in Documents, NEW o \in Documents
      PROVE  Deep(b, o) = Level(g, b, o)
  <2> HIDE DEF g
  <2>1. \A k \in DOMAIN b \cap DOMAIN o : IsDict(b[k]) /\ IsDict(o[k]) =>
            g[<<b[k].kids, o[k].kids>>] = Shallow(b[k].kids, o[k].kids)
    BY <1>1, <1>2, Entries, FlatEntries
  <2> QED BY <2>1 DEF Deep, Level
<1>4. IsMerge(g)
  <2>1. g = [pair \in Documents \X Documents |-> Level(g, pair[1], pair[2])]
    <3>1. \A pair \in Documents \X Documents : Deep(pair[1], pair[2]) = Level(g, pair[1], pair[2])
      <4> HIDE DEF g
      <4> QED BY <1>3
    <3> QED BY <3>1
  <2> QED BY <2>1 DEF IsMerge
<1> QED BY <1>4

(***************************************************************************)
(* The recursion has come to an end after two levels.                      *)
(***************************************************************************)
LEMMA DeepMergeIs ==
    ASSUME NEW b \in Documents, NEW o \in Documents
    PROVE  DeepMerge(b, o) = Deep(b, o)
<1> DEFINE merged == CHOOSE f : IsMerge(f)
<1>1. DeepMerge(b, o) = merged[<<b, o>>]
  BY DEF DeepMerge, IsMerge, Level
<1>2. IsMerge(merged)
  BY MergeExists
<1> QED BY <1>1, <1>2, OneMerge

\* What load returns is its own document, merged into the one it extends.
Merged ==
    loaded.status = "ok" =>
        /\ loaded.own \in Documents /\ loaded.base \in Documents
        /\ loaded.doc = Deep(loaded.base, loaded.own)

LEMMA NothingThere == <<>> \in Documents /\ \A d \in Documents : Deep(<<>>, d) = d
<1>1. <<>> \in [{} -> Scalars \cup [kids : Flat]]
  OBVIOUS
<1>2. \A d \in Documents : d = [k \in DOMAIN d |-> d[k]]
  BY DEF Documents
<1>3. DOMAIN <<>> = {}
  OBVIOUS
<1>4. ASSUME NEW d \in Documents PROVE Deep(<<>>, d) = d
  BY <1>2, <1>3 DEF Deep
<1> QED BY <1>1, <1>4 DEF Documents

LEMMA MergedStep == ASSUME Merged, [LoaderNext]_loaded PROVE Merged'
<1>1. ASSUME NEW own \in Documents, NEW base \in Documents, NEW extends \in BOOLEAN,
             extends \/ base = <<>>, Load(own, extends, base)
      PROVE  Merged'
  <2>1. loaded'.status = "ok" =>
            /\ loaded'.own = own /\ loaded'.base = base
            /\ loaded'.doc = IF extends THEN DeepMerge(base, own) ELSE own
    BY <1>1 DEF Load
  <2>2. DeepMerge(base, own) = Deep(base, own)
    BY DeepMergeIs
  <2> QED BY <1>1, <2>1, <2>2, NothingThere DEF Merged
<1>2. CASE UNCHANGED loaded
  BY <1>2 DEF Merged
<1> QED BY <1>1, <1>2 DEF LoaderNext

\* A merge has at every path what MergedByPath asks for.
LEMMA PathOfOne ==
    ASSUME NEW b \in Documents, NEW o \in Documents, NEW k \in Keys
    PROVE  Get(Deep(b, o), <<k>>) =
              IF Get(o, <<k>>) # "nothing" THEN Get(o, <<k>>) ELSE Get(b, <<k>>)
<1>1. Len(<<k>>) = 1 /\ <<k>>[1] = k
  OBVIOUS
<1>2. k \in DOMAIN o => Get(o, <<k>>) # "nothing"
  BY <1>1, Entries, LoaderAssumption DEF Get, Scalars
<1>3. k \notin DOMAIN o => Get(o, <<k>>) = "nothing"
  BY <1>1 DEF Get
<1>4. CASE Both(b, o, k)
  <2>1. IsDict(Deep(b, o)[k]) /\ k \in DOMAIN Deep(b, o)
    BY <1>4 DEF Deep, Both, IsDict
  <2> QED BY <1>1, <1>2, <1>4, <2>1 DEF Get, Both
<1>5. CASE k \in DOMAIN o /\ ~Both(b, o, k)
  <2>1. Deep(b, o)[k] = o[k] /\ k \in DOMAIN Deep(b, o)
    BY <1>5 DEF Deep, Both
  <2> QED BY <1>1, <1>2, <1>5, <2>1 DEF Get
<1>6. CASE k \notin DOMAIN o
  <2>1. /\ k \in DOMAIN Deep(b, o) <=> k \in DOMAIN b
        /\ k \in DOMAIN b => Deep(b, o)[k] = b[k]
    BY <1>6 DEF Deep
  <2> QED BY <1>1, <1>3, <1>6, <2>1 DEF Get
<1> QED BY <1>4, <1>5, <1>6 DEF Both

LEMMA PathOfTwo ==
    ASSUME NEW b \in Documents, NEW o \in Documents, NEW k \in Keys, NEW j \in Keys
    PROVE  Get(Deep(b, o), <<k, j>>) =
              IF Get(o, <<k, j>>) # "nothing" THEN Get(o, <<k, j>>)
              ELSE IF Get(o, <<k>>) \in {"nothing", "mapping"} THEN Get(b, <<k, j>>)
              ELSE "nothing"
<1> DEFINE m == Deep(b, o)
           in(d) == k \in DOMAIN d /\ IsDict(d[k]) /\ j \in DOMAIN d[k].kids
<1>1. \A d : Get(d, <<k, j>>) = IF in(d) THEN d[k].kids[j].leaf ELSE "nothing"
  <2>1. Len(<<k, j>>) = 2 /\ <<k, j>>[1] = k /\ <<k, j>>[2] = j
    OBVIOUS
  <2> QED BY <2>1 DEF Get
<1>2. Get(o, <<k>>) \in {"nothing", "mapping"} <=> (k \in DOMAIN o => IsDict(o[k]))
  <2>1. Len(<<k>>) = 1 /\ <<k>>[1] = k
    OBVIOUS
  <2> QED BY <2>1, Entries, LoaderAssumption DEF Get, Scalars
<1>3. in(o) => Get(o, <<k, j>>) # "nothing"
  <2> SUFFICES ASSUME in(o) PROVE o[k].kids[j].leaf # "nothing"
    BY <1>1
  <2>1. o[k].kids \in Flat
    BY Entries
  <2>2. o[k].kids[j] \in Scalars
    BY <2>1, FlatEntries
  <2> QED BY <2>2, LoaderAssumption DEF Scalars
<1>4. CASE Both(b, o, k)
  <2>1. k \in DOMAIN m /\ m[k] = [kids |-> Shallow(b[k].kids, o[k].kids)]
    BY <1>4 DEF Deep, Both
  <2> HIDE DEF m
  <2>2. IsDict(m[k]) /\ m[k].kids = Shallow(b[k].kids, o[k].kids)
    BY <2>1 DEF IsDict
  <2>3. /\ in(m) <=> in(b) \/ in(o)
        /\ in(o) => m[k].kids[j] = o[k].kids[j]
        /\ in(b) /\ ~in(o) => m[k].kids[j] = b[k].kids[j]
    BY <1>4, <2>1, <2>2 DEF Shallow, Both
  <2>4. Get(m, <<k, j>>) = IF in(o) THEN Get(o, <<k, j>>) ELSE Get(b, <<k, j>>)
    <3> HIDE DEF in
    <3> QED BY <1>1, <2>3
  <2>5. IsDict(o[k])
    BY <1>4 DEF Both
  <2> HIDE DEF in
  <2> QED BY <1>1, <1>2, <1>3, <2>4, <2>5 DEF m
<1>5. CASE k \in DOMAIN o /\ ~Both(b, o, k)
  <2>1. m[k] = o[k] /\ k \in DOMAIN m
    BY <1>5 DEF Deep, Both
  <2> HIDE DEF m
  <2>2. Get(m, <<k, j>>) = Get(o, <<k, j>>)
    BY <1>1, <1>5, <2>1
  <2>3. IsDict(o[k]) => ~in(b)
    BY <1>5 DEF Both
  <2> HIDE DEF in
  <2> QED BY <1>1, <1>2, <1>3, <1>5, <2>2, <2>3 DEF m
<1>6. CASE k \notin DOMAIN o
  <2>1. /\ k \in DOMAIN m <=> k \in DOMAIN b
        /\ k \in DOMAIN b => m[k] = b[k]
    BY <1>6 DEF Deep
  <2> HIDE DEF m
  <2>2. Get(m, <<k, j>>) = Get(b, <<k, j>>) /\ Get(o, <<k, j>>) = "nothing"
    BY <1>1, <1>6, <2>1
  <2> HIDE DEF in
  <2> QED BY <1>2, <1>6, <2>2 DEF m
<1> QED BY <1>4, <1>5, <1>6 DEF Both

(* A scenario that extends another has at every path what its file says    *)
(* there, and where it says nothing what the other says, for every set of  *)
(* keys and of scalars: of documents of two levels (load, _deep_merge).    *)
THEOREM MergesByPath == LoaderSpec => []MergedByPath
<1>1. Merged => MergedByPath
  <2> SUFFICES ASSUME Merged, loaded.status = "ok" PROVE MergedByPath
    BY DEF MergedByPath
  <2> DEFINE Right(path) ==
                Get(loaded.doc, path) =
                    IF Get(loaded.own, path) # "nothing" THEN Get(loaded.own, path)
                    ELSE IF Get(loaded.own, <<path[1]>>) \in {"nothing", "mapping"}
                    THEN Get(loaded.base, path)
                    ELSE "nothing"
  <2>1. /\ loaded.own \in Documents /\ loaded.base \in Documents
        /\ loaded.doc = Deep(loaded.base, loaded.own)
    BY DEF Merged
  <2>2. ASSUME NEW k \in Keys PROVE Right(<<k>>)
    <3>1. <<k>>[1] = k
      OBVIOUS
    <3> QED BY <2>1, <3>1, PathOfOne
  <2>3. ASSUME NEW k \in Keys, NEW j \in Keys PROVE Right(<<k, j>>)
    <3>1. <<k, j>>[1] = k
      OBVIOUS
    <3> QED BY <2>1, <3>1, PathOfTwo
  <2>4. \A path \in (Keys \X Keys) \cup {<<k>> : k \in Keys} : Right(path)
    <3> HIDE DEF Right
    <3>1. ASSUME NEW path \in Keys \X Keys PROVE Right(path)
      <4>1. PICK k \in Keys, j \in Keys : path = <<k, j>>
        OBVIOUS
      <4> QED BY <2>3, <4>1
    <3> QED BY <2>2, <3>1
  <2> QED BY <2>4 DEF MergedByPath
<1>2. LoaderInit => Merged
  BY DEF LoaderInit, Merged
<1> QED BY <1>1, <1>2, MergedStep, PTL DEF LoaderSpec

=============================================================================
