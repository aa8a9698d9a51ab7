---------------------------- MODULE BoardProofs ----------------------------
(***************************************************************************)
(* Theorems about what the inspector and its page know of the agents, for  *)
(* any set of agents and any number of mishaps.                            *)
(***************************************************************************)
EXTENDS OfflineGuard, FiniteSetTheorems, TLAPS

(***************************************************************************)
(* The proofs look at the messages on their way as a set.                  *)
(***************************************************************************)
Contents(s) == {s[i] : i \in DOMAIN s}
Mail == Contents(inbox)
StatusOf(a, s) == [kind |-> "status", agent |-> a, state |-> s]

LEMMA ContentsOfConcat ==
  ASSUME NEW S, NEW s \in Seq(S), NEW t \in Seq(S)
  PROVE  s \o t \in Seq(S) /\ Contents(s \o t) = Contents(s) \cup Contents(t)
<1>1. /\ s \o t \in Seq(S) /\ Len(s \o t) = Len(s) + Len(t) /\ Len(s) \in Nat /\ Len(t) \in Nat
      /\ \A i \in 1..Len(s) : (s \o t)[i] = s[i]
      /\ \A i \in 1..Len(t) : (s \o t)[Len(s) + i] = t[i]
  OBVIOUS
<1>2. DOMAIN s = 1..Len(s) /\ DOMAIN t = 1..Len(t) /\ DOMAIN (s \o t) = 1..Len(s) + Len(t)
  BY <1>1
<1>3. ASSUME NEW i \in DOMAIN (s \o t) PROVE (s \o t)[i] \in Contents(s) \cup Contents(t)
  <2>1. CASE i <= Len(s)
    BY <1>1, <1>2, <2>1 DEF Contents
  <2>2. CASE i > Len(s)
    <3>1. i - Len(s) \in 1..Len(t) /\ i = Len(s) + (i - Len(s))
      BY <1>1, <1>2, <2>2
    <3> QED BY <1>1, <1>2, <3>1 DEF Contents
  <2> QED BY <1>1, <1>2, <2>1, <2>2
<1>4. ASSUME NEW i \in DOMAIN s PROVE s[i] \in Contents(s \o t)
  BY <1>1, <1>2 DEF Contents
<1>5. ASSUME NEW i \in DOMAIN t PROVE t[i] \in Contents(s \o t)
  <2>1. Len(s) + i \in DOMAIN (s \o t)
    BY <1>1, <1>2
  <2> QED BY <1>1, <1>2, <2>1 DEF Contents
<1>6. Contents(s \o t) \subseteq Contents(s) \cup Contents(t)
  BY <1>3 DEF Contents
<1>7. Contents(s) \cup Contents(t) \subseteq Contents(s \o t)
  BY <1>4, <1>5 DEF Contents
<1> QED BY <1>1, <1>6, <1>7

LEMMA ContentsOfAppend ==
  ASSUME NEW S, NEW s \in Seq(S), NEW e \in S
  PROVE  Append(s, e) \in Seq(S) /\ Contents(Append(s, e)) = Contents(s) \cup {e}
<1>1. /\ Append(s, e) \in Seq(S) /\ Len(Append(s, e)) = Len(s) + 1 /\ Len(s) \in Nat
      /\ \A i \in 1..Len(s) : Append(s, e)[i] = s[i]
      /\ Append(s, e)[Len(s) + 1] = e
  OBVIOUS
<1>2. DOMAIN Append(s, e) = 1..Len(s) + 1 /\ DOMAIN s = 1..Len(s)
  BY <1>1
<1>3. \A i \in 1..Len(s) + 1 : i \in 1..Len(s) \/ i = Len(s) + 1
  BY <1>1
<1>4. 1..Len(s) \subseteq 1..Len(s) + 1 /\ Len(s) + 1 \in 1..Len(s) + 1
  BY <1>1
<1> HIDE DEF Contents
<1>5. Contents(Append(s, e)) \subseteq Contents(s) \cup {e}
  BY <1>1, <1>2, <1>3 DEF Contents
<1>6. Contents(s) \cup {e} \subseteq Contents(Append(s, e))
  BY <1>1, <1>2, <1>4 DEF Contents
<1> QED BY <1>1, <1>5, <1>6

LEMMA ContentsOfTail ==
  ASSUME NEW S, NEW s \in Seq(S), s # << >>
  PROVE  /\ Tail(s) \in Seq(S) /\ Head(s) \in S
         /\ Contents(s) = {Head(s)} \cup Contents(Tail(s))
<1>1. /\ Tail(s) \in Seq(S) /\ Len(s) \in Nat \ {0} /\ Len(Tail(s)) = Len(s) - 1
      /\ Head(s) = s[1] /\ Head(s) \in S
      /\ \A i \in 1..Len(s) - 1 : Tail(s)[i] = s[i + 1]
  OBVIOUS
<1>2. DOMAIN Tail(s) = 1..Len(s) - 1 /\ DOMAIN s = 1..Len(s)
  BY <1>1
<1>3. ASSUME NEW i \in 1..Len(s) PROVE s[i] \in {Head(s)} \cup Contents(Tail(s))
  <2>1. CASE i = 1
    BY <1>1, <2>1
  <2>2. CASE i # 1
    <3>1. i - 1 \in DOMAIN Tail(s) /\ Tail(s)[i - 1] = s[i]
      BY <1>1, <1>2, <2>2
    <3> QED BY <3>1 DEF Contents
  <2> QED BY <2>1, <2>2
<1>4. ASSUME NEW i \in 1..Len(s) - 1 PROVE Tail(s)[i] \in Contents(s)
  <2>1. i + 1 \in DOMAIN s /\ Tail(s)[i] = s[i + 1]
    BY <1>1, <1>2
  <2> QED BY <2>1 DEF Contents
<1>5. Head(s) \in Contents(s)
  BY <1>1, <1>2 DEF Contents
<1> QED BY <1>1, <1>2, <1>3, <1>4, <1>5 DEF Contents

LEMMA ContentsTyped ==
  ASSUME NEW S, NEW s \in Seq(S)
  PROVE  Contents(s) \subseteq S /\ (s = << >> <=> Contents(s) = {})
<1>1. DOMAIN s = 1..Len(s) /\ Len(s) \in Nat /\ (s # << >> => Len(s) # 0)
  OBVIOUS
<1>2. Contents(s) \subseteq S
  BY DEF Contents
<1>3. s # << >> => s[1] \in Contents(s)
  BY <1>1 DEF Contents
<1>4. s = << >> => Contents(s) = {}
  BY DEF Contents
<1> QED BY <1>2, <1>3, <1>4

(***************************************************************************)
(* What the broker does with statuses.                                     *)
(***************************************************************************)
LEMMA StatusesTyped ==
  ASSUME NEW a \in Agents, NEW ss \in Seq(States)
  PROVE  /\ Statuses(a, ss) \in Seq(Message)
         /\ Contents(Statuses(a, ss)) = {StatusOf(a, s) : s \in Contents(ss)}
<1>1. DOMAIN ss = 1..Len(ss) /\ Len(ss) \in Nat /\ \A i \in DOMAIN ss : ss[i] \in States
  OBVIOUS
<1>2. /\ Statuses(a, ss) = [i \in 1..Len(ss) |-> StatusOf(a, ss[i])]
      /\ \A i \in 1..Len(ss) : StatusOf(a, ss[i]) \in Message
  BY <1>1 DEF Statuses, StatusOf, Message
<1>3. Statuses(a, ss) \in Seq(Message) /\ DOMAIN Statuses(a, ss) = 1..Len(ss)
  BY <1>1, <1>2
<1> QED BY <1>1, <1>2, <1>3 DEF Contents

\* What an agent's step may do with the broker, its variables and its clocks.
Posting(a) ==
    /\ inbox' \in Seq(Message) /\ retained' \in [Agents -> States \cup {NoState}]
    /\ \A b \in Agents \ {a} : retained'[b] = retained[b]
    /\ retained'[a] = retained[a] \/ retained'[a] # NoState
    /\ Mail \subseteq Mail' /\ \A m \in Mail' \ Mail : m.agent = a

Acting(a) ==
    /\ main' \in [Agents -> {"down", "boot", "sleep", "due", "compose"}]
    /\ state' \in [Agents -> States] /\ composed' \in [Agents -> States \cup {NoState}]
    /\ link' \in [Agents -> {"on", "lost", "off"}] /\ queued' \in [Agents -> Seq(States)]
    /\ \A b \in Agents \ {a} :
         /\ main'[b] = main[b] /\ state'[b] = state[b] /\ composed'[b] = composed[b]
         /\ link'[b] = link[b] /\ queued'[b] = queued[b]
    /\ main'[a] = "compose" => composed'[a] \in States

Timing(a) ==
    /\ silent' \in [Agents -> 0..Window] /\ calm' \in [Agents -> 0..Settled]
    /\ \A b \in Agents \ {a} : silent'[b] = silent[b] /\ calm'[b] = calm[b]
    /\ left' \in [MishapKinds -> Nat]
    /\ \A j \in MishapKinds : left'[j] <= left[j]
    /\ UNCHANGED viewVars

Own(a) == Posting(a) /\ Acting(a) /\ Timing(a)

\* A heartbeat that is composed has a state.
BoardTyped == BoardTypeOK /\ \A a \in Agents : main[a] = "compose" => composed[a] \in States

LEMMA OwnTyped == ASSUME BoardTyped, NEW a \in Agents, Own(a) PROVE BoardTyped'
<1>1. BoardTypeOK'
  BY DEF BoardTyped, BoardTypeOK, Own, Posting, Acting, Timing, viewVars
<1> QED BY <1>1 DEF BoardTyped, Own, Acting

LEMMA Retained ==
  ASSUME BoardTypeOK, NEW a \in Agents, NEW ss \in Seq(States), Retain(a, ss)
  PROVE  /\ Posting(a)
         /\ Mail' = IF listening THEN Mail \cup {StatusOf(a, s) : s \in Contents(ss)} ELSE Mail
         /\ ss # << >> => retained'[a] # NoState
<1>1. inbox \in Seq(Message) /\ retained \in [Agents -> States \cup {NoState}]
  BY DEF BoardTypeOK
<1>2. inbox' = IF listening THEN inbox \o Statuses(a, ss) ELSE inbox
  BY DEF Retain
<1>3. /\ inbox' \in Seq(Message)
      /\ Mail' = IF listening THEN Mail \cup {StatusOf(a, s) : s \in Contents(ss)} ELSE Mail
  <2>1. CASE listening
    <3>1. inbox' = inbox \o Statuses(a, ss)
      BY <1>2, <2>1
    <3> QED BY <1>1, <2>1, <3>1, StatusesTyped, ContentsOfConcat DEF Mail
  <2>2. CASE ~listening
    BY <1>1, <1>2, <2>2 DEF Mail
  <2> QED BY <2>1, <2>2
<1>4. ss # << >> => ss[Len(ss)] \in States
  BY SMTT(30)
<1>5. \A s \in States : s # NoState
  BY DEF States, NoState
<1>6. \A m : m \in {StatusOf(a, s) : s \in Contents(ss)} => m.agent = a
  BY DEF StatusOf
<1>7. /\ retained' \in [Agents -> States \cup {NoState}]
      /\ \A b \in Agents \ {a} : retained'[b] = retained[b]
      /\ retained'[a] = retained[a] \/ retained'[a] # NoState
      /\ ss # << >> => retained'[a] # NoState
  BY <1>1, <1>4, <1>5 DEF Retain
<1>8. Mail \subseteq Mail' /\ \A m \in Mail' \ Mail : m.agent = a
  BY <1>3, <1>6
<1> QED BY <1>3, <1>7, <1>8 DEF Posting

LEMMA NothingPosted ==
  ASSUME BoardTypeOK, NEW a, UNCHANGED <<inbox, retained>> PROVE Posting(a) /\ Mail' = Mail
BY DEF BoardTypeOK, Posting, Mail

LEMMA StateSet ==
  ASSUME BoardTypeOK, NEW a \in Agents, NEW s \in States, SetState(a, s)
  PROVE  /\ Posting(a)
         /\ state' \in [Agents -> States] /\ queued' \in [Agents -> Seq(States)]
         /\ \A b \in Agents \ {a} : state'[b] = state[b] /\ queued'[b] = queued[b]
<1>1. state' \in [Agents -> States] /\ \A b \in Agents \ {a} : state'[b] = state[b]
  BY DEF SetState, BoardTypeOK
<1>2. CASE link[a] = "on"
  <2>1. Retain(a, <<s>>) /\ queued' = queued /\ <<s>> \in Seq(States)
    BY <1>2 DEF SetState
  <2> QED BY <1>1, <2>1, Retained DEF BoardTypeOK
<1>3. CASE link[a] # "on"
  <2>1. queued' = [queued EXCEPT ![a] = Append(@, s)] /\ UNCHANGED <<inbox, retained>>
    BY <1>3 DEF SetState
  <2>2. Append(queued[a], s) \in Seq(States)
    BY DEF BoardTypeOK
  <2> QED BY <1>1, <2>1, <2>2, NothingPosted DEF BoardTypeOK
<1> QED BY <1>2, <1>3

LEMMA BefallTyped ==
  ASSUME BoardTypeOK, NEW k \in MishapKinds, Befall(k)
  PROVE  /\ left' \in [MishapKinds -> Nat] /\ left[k] > 0
         /\ \A j \in MishapKinds : left'[j] <= left[j]
BY DEF Befall, BoardTypeOK

(***************************************************************************)
(* A step of an agent is typed and leaves the rest of the board alone.     *)
(***************************************************************************)
LEMMA AgentStepOwn ==
  ASSUME BoardTyped, NEW a \in Agents, AgentStep(a) PROVE Own(a)
<1> BoardTypeOK /\ (main[a] = "compose" => composed[a] \in States)
  BY DEF BoardTyped
<1>0. {"BOOT", "IDLE", "RUNNING", "OFFLINE"} = States
  BY DEF States
<1> USE DEF Settled, Window
<1>1. CASE Start(a)
  <2>1. Append(Will(a), "BOOT") \in Seq(States) /\ Retain(a, Append(Will(a), "BOOT"))
    BY <1>0, <1>1 DEF Start, Will
  <2>2. Posting(a)
    BY <2>1, Retained
  <2>3. Acting(a)
    BY <1>0, <1>1 DEF Start, Acting, BoardTypeOK
  <2>4. Timing(a)
    BY <1>1 DEF Start, Stir, Heard, Timing, BoardTypeOK
  <2> QED BY <2>2, <2>3, <2>4 DEF Own
<1>2. CASE BootDone(a)
  <2>1. SetState(a, "IDLE") /\ main[a] = "boot" /\ main' = [main EXCEPT ![a] = "due"]
        /\ UNCHANGED <<composed, link>>
    BY <1>2 DEF BootDone
  <2>2. Posting(a) /\ Acting(a)
    BY <1>0, <2>1, StateSet DEF Acting, BoardTypeOK
  <2>3. Timing(a)
    BY <1>2 DEF BootDone, Stir, Timing, BoardTypeOK
  <2> QED BY <2>2, <2>3 DEF Own
<1>3. CASE ChangeState(a)
  <2>1. PICK s \in States : SetState(a, s)
    BY <1>0, <1>3 DEF ChangeState
  <2>2. Posting(a) /\ Acting(a)
    BY <1>3, <2>1, StateSet DEF ChangeState, Acting, BoardTypeOK
  <2>3. Timing(a)
    BY <1>3 DEF ChangeState, Stir, Timing, BoardTypeOK
  <2> QED BY <2>2, <2>3 DEF Own
<1>4. CASE Compose(a)
  BY <1>4, NothingPosted DEF Compose, Own, Acting, Timing, BoardTypeOK
<1>5. CASE Beat(a)
  <2>1. Acting(a)
    BY <1>5 DEF Beat, Acting, BoardTypeOK
  <2>2. Timing(a)
    BY <1>5 DEF Beat, Timing, BoardTypeOK
  <2>3. CASE ~(link[a] = "on" /\ listening)
    BY <1>5, <2>1, <2>2, <2>3, NothingPosted DEF Beat, Own
  <2>4. CASE link[a] = "on" /\ listening
    <3> DEFINE m == [kind |-> "heartbeat", agent |-> a, state |-> composed[a]]
    <3>1. inbox' = Append(inbox, m) /\ retained' = retained
      BY <1>5, <2>4 DEF Beat
    <3>2. m \in Message
      BY <1>5 DEF Beat, BoardTyped, Message
    <3>3. inbox' \in Seq(Message) /\ Mail' = Mail \cup {m}
      BY <3>1, <3>2, ContentsOfAppend DEF BoardTypeOK, Mail
    <3>4. m.agent = a
      OBVIOUS
    <3> HIDE DEF m
    <3>5. Posting(a)
      BY <3>1, <3>3, <3>4 DEF Posting, BoardTypeOK
    <3> QED BY <2>1, <2>2, <3>5 DEF Own
  <2> QED BY <2>3, <2>4
<1>6. CASE Stop(a)
  <2>1. Befall("stop") /\ "stop" \in MishapKinds
    BY <1>6 DEF Stop, MishapKinds
  <2>2. Acting(a)
    <3>1. link' = link \/ link' = [link EXCEPT ![a] = "off"]
      BY <1>6 DEF Stop
    <3>2. link' \in [Agents -> {"on", "lost", "off"}] /\ \A b \in Agents \ {a} : link'[b] = link[b]
      BY <3>1 DEF BoardTypeOK
    <3>3. /\ main' = [main EXCEPT ![a] = "down"] /\ state' = [state EXCEPT ![a] = "OFFLINE"]
          /\ composed' = [composed EXCEPT ![a] = NoState] /\ queued' = [queued EXCEPT ![a] = << >>]
      BY <1>6 DEF Stop
    <3>4. << >> \in Seq(States) /\ "OFFLINE" \in States
      BY <1>0
    <3> QED BY <3>2, <3>3, <3>4 DEF Acting, BoardTypeOK
  <2>3. Timing(a)
    BY <1>6, <2>1, BefallTyped DEF Stop, Stir, Timing, BoardTypeOK
  <2>4. <<"OFFLINE">> \in Seq(States)
    BY <1>0
  <2>5. Posting(a)
    BY <1>6, <2>4, Retained, NothingPosted DEF Stop
  <2> QED BY <2>2, <2>3, <2>5 DEF Own
<1>7. CASE Die(a)
  <2>1. Befall("die") /\ "die" \in MishapKinds
    BY <1>7 DEF Die, MishapKinds
  <2>2. Acting(a)
    BY <1>0, <1>7 DEF Die, Acting, BoardTypeOK
  <2>3. Timing(a)
    BY <1>7, <2>1, BefallTyped DEF Die, Stir, Timing, BoardTypeOK
  <2> QED BY <1>7, <2>2, <2>3, NothingPosted DEF Die, Own
<1>8. CASE LoseLink(a)
  <2>1. Befall("link") /\ "link" \in MishapKinds
    BY <1>8 DEF LoseLink, MishapKinds
  <2>2. Acting(a)
    BY <1>8 DEF LoseLink, Acting, BoardTypeOK
  <2>3. Timing(a)
    BY <1>8, <2>1, BefallTyped DEF LoseLink, Stir, Timing, BoardTypeOK
  <2> QED BY <1>8, <2>2, <2>3, NothingPosted DEF LoseLink, Own
<1>9. CASE Relink(a)
  <2>1. Will(a) \in Seq(States) /\ queued[a] \in Seq(States) /\ Retain(a, Will(a) \o queued[a])
    BY <1>0, <1>9 DEF Relink, Will, BoardTypeOK
  <2>2. Will(a) \o queued[a] \in Seq(States)
    BY <2>1, ContentsOfConcat
  <2>3. Acting(a)
    BY <1>9 DEF Relink, Acting, BoardTypeOK
  <2>4. Timing(a)
    BY <1>9 DEF Relink, Stir, Heard, Timing, BoardTypeOK
  <2> QED BY <2>1, <2>2, <2>3, <2>4, Retained DEF Own
<1>10. CASE Notice(a)
  <2>1. <<"OFFLINE">> \in Seq(States) /\ Retain(a, <<"OFFLINE">>)
    BY <1>0, <1>10 DEF Notice
  <2>2. Acting(a)
    BY <1>10 DEF Notice, Acting, BoardTypeOK
  <2>3. Timing(a)
    BY <1>10 DEF Notice, Stir, Timing, BoardTypeOK
  <2> QED BY <2>1, <2>2, <2>3, Retained DEF Own
<1> QED
  BY <1>1, <1>2, <1>3, <1>4, <1>5, <1>6, <1>7, <1>8, <1>9, <1>10 DEF AgentStep

(***************************************************************************)
(* The steps of the inspector, and of time.                                *)
(***************************************************************************)
LEMMA Received ==
  ASSUME BoardTyped, Receive
  PROVE  \E m \in Message :
           /\ BoardTyped' /\ Mail = {m} \cup Mail'
           /\ viewState' = [viewState EXCEPT ![m.agent] = m.state]
           /\ age' = [age EXCEPT ![m.agent] =
                IF m.kind = "heartbeat" THEN 0
                ELSE IF m.state = "OFFLINE" THEN Window
                ELSE IF viewState[m.agent] = NoState THEN 0 ELSE age[m.agent]]
           /\ hearsay' = IF m.kind = "heartbeat" THEN hearsay \ {m.agent}
                         ELSE IF viewState[m.agent] = NoState /\ silent[m.agent] > 0
                         THEN hearsay \cup {m.agent} ELSE hearsay
           /\ UNCHANGED <<agentVars, listening, retained, silent, calm, left>>
<1> DEFINE m == Head(inbox)
<1>1. inbox \in Seq(Message) /\ inbox # << >> /\ inbox' = Tail(inbox)
      /\ UNCHANGED <<agentVars, listening, retained, silent, calm, left>>
  BY DEF Receive, BoardTyped, BoardTypeOK
<1>2. m \in Message /\ inbox' \in Seq(Message) /\ Mail = {m} \cup Mail'
  BY <1>1, ContentsOfTail DEF Mail
<1>3. IF m.kind = "heartbeat" THEN UpdateHeartbeat(m) ELSE UpdateStatus(m)
  BY DEF Receive
<1> HIDE DEF m
<1>4. viewState' = [viewState EXCEPT ![m.agent] = m.state]
  BY <1>3 DEF UpdateHeartbeat, UpdateStatus
<1>5. age' = [age EXCEPT ![m.agent] =
                IF m.kind = "heartbeat" THEN 0
                ELSE IF m.state = "OFFLINE" THEN Window
                ELSE IF viewState[m.agent] = NoState THEN 0 ELSE age[m.agent]]
  BY <1>3 DEF UpdateHeartbeat, UpdateStatus
<1>6. m.agent \in Agents /\ m.state \in States
  BY <1>2 DEF Message
<1>7. viewState' \in [Agents -> States \cup {NoState, "UNKNOWN"}]
  BY <1>4, <1>6 DEF BoardTyped, BoardTypeOK
<1>8. age' \in [Agents -> 0..Window]
  BY <1>5, <1>6 DEF BoardTyped, BoardTypeOK, Window
<1>9. hearsay' = IF m.kind = "heartbeat" THEN hearsay \ {m.agent}
                 ELSE IF viewState[m.agent] = NoState /\ silent[m.agent] > 0
                 THEN hearsay \cup {m.agent} ELSE hearsay
  BY DEF Receive, m
<1>10. BoardTyped'
  <2>1. hearsay' \subseteq Agents
    BY <1>6, <1>9 DEF BoardTyped, BoardTypeOK
  <2> QED BY <1>1, <1>2, <1>7, <1>8, <2>1 DEF BoardTyped, BoardTypeOK, agentVars
<1> QED BY <1>1, <1>2, <1>4, <1>5, <1>9, <1>10

LEMMA Resubscribed ==
  ASSUME BoardTyped, Resubscribe
  PROVE  /\ inbox' \in Seq(Message)
         /\ Mail' = {StatusOf(a, retained[a]) : a \in {b \in Agents : retained[b] # NoState}}
         /\ calm' = [a \in Agents |-> 0] /\ listening' /\ listening' \in BOOLEAN
         /\ UNCHANGED <<agentVars, retained, silent>>
<1> DEFINE S == {b \in Agents : retained[b] # NoState}
<1>1. PICK f \in [1..Cardinality(S) -> S] :
        /\ \A a \in S : \E i \in DOMAIN f : f[i] = a
        /\ inbox' = [i \in DOMAIN f |-> StatusOf(f[i], retained[f[i]])]
  BY DEF Resubscribe, Orders, StatusOf
<1>2. S \in SUBSET Agents /\ IsFiniteSet(S)
  BY BoardAssumption, FS_Subset
<1>3. Cardinality(S) \in Nat
  BY <1>2, FS_CardinalityType
<1>4. \A a \in S : StatusOf(a, retained[a]) \in Message
  BY DEF BoardTyped, BoardTypeOK, StatusOf, Message
<1> HIDE DEF S
<1>5. inbox' \in Seq(Message) /\ DOMAIN inbox' = DOMAIN f /\ DOMAIN f = 1..Cardinality(S)
  BY <1>1, <1>3, <1>4
<1>6. Mail' = {StatusOf(a, retained[a]) : a \in S}
  <2>1. ASSUME NEW i \in DOMAIN f PROVE inbox'[i] \in {StatusOf(a, retained[a]) : a \in S}
    BY <1>1, <2>1
  <2>2. ASSUME NEW a \in S PROVE \E i \in DOMAIN f : inbox'[i] = StatusOf(a, retained[a])
    BY <1>1, <2>2
  <2> QED BY <1>5, <2>1, <2>2 DEF Mail, Contents
<1> QED BY <1>5, <1>6 DEF Resubscribe, S

LEMMA ResubscribedTyped ==
  ASSUME BoardTyped, RestartInspector \/ ReconnectInspector
  PROVE  /\ BoardTyped'
         /\ \A j \in MishapKinds : left'[j] <= left[j]
<1>1. Resubscribe /\ (Befall("restart") \/ UNCHANGED left)
  BY DEF RestartInspector, ReconnectInspector
<1>2. left' \in [MishapKinds -> Nat] /\ \A j \in MishapKinds : left'[j] <= left[j]
  BY <1>1, BefallTyped DEF MishapKinds, BoardTyped, BoardTypeOK
<1>3. /\ viewState' \in [Agents -> States \cup {NoState, "UNKNOWN"}] /\ age' \in [Agents -> 0..Window]
      /\ hearsay' \subseteq Agents
  BY DEF RestartInspector, ReconnectInspector, BoardTyped, BoardTypeOK, Window
<1>4. /\ inbox' \in Seq(Message) /\ calm' \in [Agents -> 0..Settled] /\ listening' \in BOOLEAN
      /\ UNCHANGED <<agentVars, retained, silent>>
  BY <1>1, Resubscribed DEF Settled
<1> QED BY <1>2, <1>3, <1>4 DEF BoardTyped, BoardTypeOK, agentVars

LEMMA Lost ==
  ASSUME BoardTyped, LoseInspector
  PROVE  /\ BoardTyped' /\ Mail' = {} /\ calm' = [a \in Agents |-> 0]
         /\ UNCHANGED <<agentVars, retained, viewState, age, hearsay, silent>>
         /\ \A j \in MishapKinds : left'[j] <= left[j]
<1>1. /\ inbox' = << >> /\ calm' = [a \in Agents |-> 0] /\ listening' = FALSE
      /\ Befall("outage") /\ UNCHANGED <<agentVars, retained, viewState, age, hearsay, silent>>
  BY DEF LoseInspector
<1>2. left' \in [MishapKinds -> Nat] /\ \A j \in MishapKinds : left'[j] <= left[j]
  BY <1>1, BefallTyped DEF MishapKinds, BoardTyped
<1>3. inbox' \in Seq(Message) /\ Mail' = {} /\ calm' \in [Agents -> 0..Settled]
  BY <1>1 DEF Mail, Contents, Settled
<1> QED BY <1>1, <1>2, <1>3 DEF BoardTyped, BoardTypeOK, agentVars

LEMMA Ticked ==
  ASSUME BoardTyped, Tick
  PROVE  /\ BoardTyped' /\ Mail = {} /\ Mail' = {}
         /\ \A j \in MishapKinds : left'[j] <= left[j]
<1>1. inbox = << >> /\ inbox' = inbox /\ UNCHANGED <<state, composed, link, queued, retained, viewState>>
      /\ UNCHANGED <<listening, hearsay>>
  BY DEF Tick
<1>2. Mail = {} /\ Mail' = {}
  BY <1>1 DEF Mail, Contents
<1>3. left' \in [MishapKinds -> Nat] /\ \A j \in MishapKinds : left'[j] <= left[j]
  BY BefallTyped DEF Tick, MishapKinds, BoardTyped, BoardTypeOK
<1>4. /\ main' \in [Agents -> {"down", "boot", "sleep", "due", "compose"}]
      /\ \A a \in Agents : main'[a] = "compose" => main[a] = "compose"
  BY DEF Tick, BoardTyped, BoardTypeOK
<1>5. age' \in [Agents -> 0..Window] /\ silent' \in [Agents -> 0..Window]
  BY DEF Tick, Late, BoardTyped, BoardTypeOK, Window
<1>6. calm' \in [Agents -> 0..Settled]
  BY DEF Tick, Late, BoardTyped, BoardTypeOK, Settled
<1> QED BY <1>1, <1>2, <1>3, <1>4, <1>5, <1>6 DEF BoardTyped, BoardTypeOK

-----------------------------------------------------------------------------

OnWay(a) == {m \in Mail : m.agent = a}
Untouched(a) ==
    main[a] = "down" /\ link[a] = "off" /\ retained[a] = NoState /\ OnWay(a) = {} /\ viewState[a] = NoState

(***************************************************************************)
(* An agent that has ever started has a retained status, and the inspector *)
(* knows it or is about to, if it has its connection.                      *)
(***************************************************************************)
Told(a) == ~listening \/ viewState[a] # NoState \/ \E m \in OnWay(a) : m.kind = "status"
Met(a) == Untouched(a) \/ (retained[a] # NoState /\ Told(a))

InTouch(a) == Up(a) /\ link[a] = "on" => silent[a] = 0

(***************************************************************************)
(* How a second without disturbance brings the view up to date: statuses   *)
(* have arrived, and the heartbeat of this second tells the state.         *)
(***************************************************************************)
Steady(a) == main[a] \in {"sleep", "due", "compose"} /\ link[a] = "on"

Settling(a) ==
    calm[a] >= 1 /\ Steady(a) =>
        /\ listening
        /\ main[a] = "compose" => composed[a] = state[a]
        /\ \A m \in OnWay(a) : m.kind = "heartbeat" /\ m.state = state[a]
        /\ main[a] = "sleep" => OnWay(a) # {} \/ (viewState[a] = state[a] /\ age[a] = 0)
        /\ calm[a] = Settled => viewState[a] = state[a] /\ age[a] <= 1

Informed(a) == Met(a) /\ InTouch(a) /\ Settling(a)

(***************************************************************************)
(* An entry that is no hearsay is not younger than the last sign of life.  *)
(***************************************************************************)
Fresh(a) ==
    /\ \A m \in OnWay(a) : m.kind = "heartbeat" => silent[a] = 0
    /\ viewState[a] # NoState /\ a \notin hearsay => silent[a] <= age[a]

BoardInv == BoardTyped /\ \A a \in Agents : Informed(a) /\ Fresh(a)

LEMMA OthersKeep ==
  ASSUME NEW a \in Agents, Own(a), NEW b \in Agents \ {a}
  PROVE  /\ Informed(b) => Informed(b)'
         /\ Fresh(b) => Fresh(b)'
<1>1. /\ main'[b] = main[b] /\ state'[b] = state[b] /\ composed'[b] = composed[b]
      /\ link'[b] = link[b] /\ retained'[b] = retained[b] /\ silent'[b] = silent[b]
      /\ calm'[b] = calm[b] /\ viewState' = viewState /\ age' = age
      /\ UNCHANGED <<listening, hearsay>>
  BY DEF Own, Posting, Acting, Timing, viewVars
<1>2. OnWay(b)' = OnWay(b)
  BY DEF Own, Posting, OnWay
<1>3. Untouched(b)' <=> Untouched(b)
  BY <1>1, <1>2 DEF Untouched
<1>4. Met(b) => Met(b)'
  BY <1>1, <1>2, <1>3 DEF Met, Told
<1>5. InTouch(b) => InTouch(b)'
  BY <1>1 DEF InTouch, Up
<1>6. Settling(b) => Settling(b)'
  BY <1>1, <1>2 DEF Settling, Steady
<1>7. Fresh(b) => Fresh(b)'
  BY <1>1, <1>2, <1>3 DEF Fresh
<1> QED BY <1>4, <1>5, <1>6, <1>7 DEF Informed

LEMMA ActorIsMet ==
  ASSUME BoardTyped, NEW a \in Agents, AgentStep(a), Met(a)
  PROVE  Met(a)' /\ retained'[a] # NoState /\ (Start(a) \/ ~Untouched(a))
<1>1. Own(a)
  BY AgentStepOwn
<1>2. OnWay(a) \subseteq OnWay(a)' /\ viewState' = viewState /\ listening' = listening
  BY <1>1 DEF Own, Posting, Timing, viewVars, OnWay
<1>3. CASE Start(a)
  <2>1. Append(Will(a), "BOOT") \in Seq(States) /\ "BOOT" \in Contents(Append(Will(a), "BOOT"))
        /\ Append(Will(a), "BOOT") # << >>
    <3>0. "BOOT" \in States /\ "OFFLINE" \in States
      BY DEF States
    <3>1. Will(a) \in Seq(States) /\ "BOOT" \in States
      BY <3>0 DEF Will
    <3>2. Append(Will(a), "BOOT") \in Seq(States) /\ "BOOT" \in Contents(Append(Will(a), "BOOT"))
      BY <3>1, ContentsOfAppend
    <3> QED BY <3>2 DEF Contents
  <2>2. Retain(a, Append(Will(a), "BOOT"))
    BY <1>3 DEF Start
  <2>3. (listening => StatusOf(a, "BOOT") \in Mail') /\ retained'[a] # NoState
    BY <2>1, <2>2, Retained DEF BoardTyped
  <2>4. listening => StatusOf(a, "BOOT") \in OnWay(a)' /\ StatusOf(a, "BOOT").kind = "status"
    BY <2>3 DEF OnWay, StatusOf
  <2> QED BY <1>2, <1>3, <2>3, <2>4 DEF Met, Told
<1>4. CASE ~Start(a)
  <2>1. main[a] # "down" \/ link[a] # "off"
    BY <1>4 DEF AgentStep, BootDone, ChangeState, Compose, Beat, Stop, Die, LoseLink, Relink, Notice, Up
  <2>2. ~Untouched(a) /\ retained[a] # NoState /\ Told(a)
    BY <2>1 DEF Untouched, Met
  <2>3. retained'[a] # NoState
    BY <1>1, <2>2 DEF Own, Posting
  <2>4. Told(a)'
    BY <1>2, <2>2 DEF Told
  <2> QED BY <2>2, <2>3, <2>4 DEF Met
<1> QED BY <1>3, <1>4

LEMMA ActorIsInTouch ==
  ASSUME BoardTyped, NEW a \in Agents, AgentStep(a), InTouch(a)
  PROVE  InTouch(a)' /\ silent'[a] \in {0, silent[a]}
<1>1. BoardTypeOK
  BY DEF BoardTyped
<1>2. CASE Start(a) \/ Relink(a)
  BY <1>1, <1>2 DEF Start, Relink, Heard, InTouch, BoardTypeOK
<1>3. CASE Stop(a) \/ Die(a)
  BY <1>1, <1>3 DEF Stop, Die, InTouch, Up, BoardTypeOK
<1>4. CASE LoseLink(a) \/ Notice(a)
  BY <1>1, <1>4 DEF LoseLink, Notice, InTouch, BoardTypeOK
<1>5. CASE BootDone(a) \/ ChangeState(a) \/ Compose(a) \/ Beat(a)
  BY <1>1, <1>5 DEF BootDone, ChangeState, Compose, Beat, InTouch, Up, BoardTypeOK
<1> QED BY <1>2, <1>3, <1>4, <1>5 DEF AgentStep

LEMMA BeatMail ==
  ASSUME BoardTyped, NEW a \in Agents, Beat(a)
  PROVE  IF link[a] = "on" /\ listening
         THEN Mail' = Mail \cup {[kind |-> "heartbeat", agent |-> a, state |-> composed[a]]}
         ELSE Mail' = Mail
<1> DEFINE m == [kind |-> "heartbeat", agent |-> a, state |-> composed[a]]
<1>1. m \in Message
  BY DEF Beat, BoardTyped, Message
<1>2. inbox \in Seq(Message)
  BY DEF BoardTyped, BoardTypeOK
<1>3. inbox' = IF link[a] = "on" /\ listening THEN Append(inbox, m) ELSE inbox
  BY DEF Beat
<1> QED BY <1>1, <1>2, <1>3, ContentsOfAppend DEF Mail

LEMMA ActorSettles ==
  ASSUME BoardTyped, NEW a \in Agents, AgentStep(a), Settling(a)
  PROVE  Settling(a)'
<1>1. BoardTypeOK
  BY DEF BoardTyped
<1>2. CASE Compose(a)
  <2>1. /\ main[a] = "due" /\ main'[a] = "compose" /\ composed'[a] = state[a]
        /\ UNCHANGED <<state, link, calm, viewState, age, listening>> /\ Mail' = Mail
    BY <1>1, <1>2 DEF Compose, viewVars, BoardTypeOK, Mail
  <2>2. OnWay(a)' = OnWay(a)
    BY <2>1 DEF OnWay
  <2> QED BY <2>1, <2>2 DEF Settling, Steady
<1>3. CASE Beat(a)
  <2> DEFINE m == [kind |-> "heartbeat", agent |-> a, state |-> composed[a]]
  <2>1. /\ main[a] = "compose" /\ main'[a] = "sleep"
        /\ UNCHANGED <<state, link, calm, viewState, age, listening>>
    BY <1>1, <1>3 DEF Beat, viewVars, BoardTypeOK
  <2>2. link[a] = "on" /\ listening => Mail' = Mail \cup {m}
    BY <1>3, BeatMail
  <2>3. m.kind = "heartbeat" /\ m.agent = a /\ m.state = composed[a]
    OBVIOUS
  <2> HIDE DEF m
  <2>4. link[a] = "on" /\ listening => OnWay(a)' = OnWay(a) \cup {m}
    BY <2>2, <2>3 DEF OnWay
  <2> QED BY <2>1, <2>3, <2>4 DEF Settling, Steady
<1>4. CASE ~Compose(a) /\ ~Beat(a)
  <2>1. Stir(a)
    BY <1>4 DEF AgentStep, Start, BootDone, ChangeState, Stop, Die, LoseLink, Relink, Notice
  <2>2. calm'[a] = 0
    BY <1>1, <2>1 DEF Stir, BoardTypeOK
  <2> QED BY <2>2 DEF Settling
<1> QED BY <1>2, <1>3, <1>4

LEMMA ActorIsFresh ==
  ASSUME BoardTyped, NEW a \in Agents, AgentStep(a), Met(a), InTouch(a), Fresh(a)
  PROVE  Fresh(a)'
<1>1. BoardTypeOK /\ Own(a)
  BY AgentStepOwn DEF BoardTyped
<1>2. silent'[a] \in {0, silent[a]} /\ silent[a] \in Nat /\ age[a] \in Nat
  <2>1. silent'[a] \in {0, silent[a]}
    BY ActorIsInTouch
  <2>2. silent[a] \in 0..Window /\ age[a] \in 0..Window
    BY <1>1 DEF BoardTypeOK
  <2> QED BY <2>1, <2>2 DEF Window
<1>3. viewState' = viewState /\ age' = age /\ hearsay' = hearsay
  BY <1>1 DEF Own, Timing, viewVars
<1>4. CASE Start(a)
  <2>1. silent'[a] = 0
    BY <1>1, <1>4 DEF Start, Heard, BoardTypeOK
  <2> QED BY <1>2, <1>3, <2>1 DEF Fresh
<1>5. CASE ~Start(a)
  <2>1. ASSUME NEW m \in Mail', m \notin Mail, m.kind = "heartbeat" PROVE silent[a] = 0
    <3>1. CASE Beat(a)
      <4>1. link[a] = "on"
        BY <2>1, <3>1, BeatMail
      <4> QED BY <3>1, <4>1 DEF Beat, InTouch, Up
    <3>2. CASE ~Beat(a)
      <4>1. UNCHANGED inbox \/ \E ss \in Seq(States) : Retain(a, ss)
        <5>1. {"BOOT", "IDLE", "RUNNING", "OFFLINE"} = States
          BY DEF States
        <5>2. CASE BootDone(a) \/ ChangeState(a)
          <6>1. PICK s \in States : SetState(a, s)
            BY <5>1, <5>2 DEF BootDone, ChangeState
          <6>2. <<s>> \in Seq(States)
            OBVIOUS
          <6> QED BY <6>1, <6>2 DEF SetState
        <5>3. CASE Stop(a) \/ Notice(a)
          <6>1. <<"OFFLINE">> \in Seq(States)
            BY <5>1
          <6> QED BY <5>3, <6>1 DEF Stop, Notice
        <5>4. CASE Relink(a)
          <6>1. Will(a) \in Seq(States) /\ queued[a] \in Seq(States)
            BY <1>1, <5>1 DEF Will, BoardTypeOK
          <6> QED BY <5>4, <6>1, ContentsOfConcat DEF Relink
        <5>5. CASE Compose(a) \/ Die(a) \/ LoseLink(a)
          BY <5>5 DEF Compose, Die, LoseLink
        <5> QED BY <1>5, <3>2, <5>2, <5>3, <5>4, <5>5 DEF AgentStep
      <4>2. CASE UNCHANGED inbox
        BY <2>1, <4>2 DEF Mail
      <4>3. ASSUME NEW ss \in Seq(States), Retain(a, ss) PROVE FALSE
        <5>1. m \in {StatusOf(a, s) : s \in Contents(ss)}
          BY <1>1, <2>1, <4>3, Retained
        <5> QED BY <2>1, <5>1 DEF StatusOf
      <4> QED BY <4>1, <4>2, <4>3
    <3> QED BY <3>1, <3>2
  <2>2. \A m \in OnWay(a)' : m.kind = "heartbeat" => silent[a] = 0
    BY <2>1 DEF Fresh, OnWay
  <2> QED BY <1>2, <1>3, <2>2 DEF Fresh
<1> QED BY <1>4, <1>5

LEMMA AgentStepInforms ==
  ASSUME BoardInv, NEW a \in Agents, AgentStep(a)
  PROVE  BoardInv'
<1>1. BoardTyped /\ \A b \in Agents : Informed(b) /\ Fresh(b)
  BY DEF BoardInv
<1>2. Own(a) /\ BoardTyped'
  BY <1>1, AgentStepOwn, OwnTyped
<1>3. Informed(a)'
  BY <1>1, ActorIsMet, ActorIsInTouch, ActorSettles DEF Informed
<1>4. Fresh(a)'
  BY <1>1, ActorIsFresh DEF Informed
<1>5. \A b \in Agents \ {a} : Informed(b)' /\ Fresh(b)'
  BY <1>1, <1>2, OthersKeep
<1> QED BY <1>2, <1>3, <1>4, <1>5 DEF BoardInv

LEMMA ReceiveInforms ==
  ASSUME BoardInv, Receive
  PROVE  BoardInv'
<1>1. BoardTyped /\ \A b \in Agents : Informed(b) /\ Fresh(b)
  BY DEF BoardInv
<1>2. PICK m \in Message :
           /\ BoardTyped' /\ Mail = {m} \cup Mail'
           /\ viewState' = [viewState EXCEPT ![m.agent] = m.state]
           /\ age' = [age EXCEPT ![m.agent] =
                IF m.kind = "heartbeat" THEN 0
                ELSE IF m.state = "OFFLINE" THEN Window
                ELSE IF viewState[m.agent] = NoState THEN 0 ELSE age[m.agent]]
           /\ hearsay' = IF m.kind = "heartbeat" THEN hearsay \ {m.agent}
                         ELSE IF viewState[m.agent] = NoState /\ silent[m.agent] > 0
                         THEN hearsay \cup {m.agent} ELSE hearsay
           /\ UNCHANGED <<agentVars, listening, retained, silent, calm, left>>
  BY <1>1, Received
<1>3. UNCHANGED <<main, state, composed, link, listening, retained, silent, calm>>
  BY <1>2 DEF agentVars
<1>4. /\ m.agent \in Agents /\ m.state \in States /\ m.kind \in {"status", "heartbeat"}
      /\ m.state # NoState
  BY DEF Message, States, NoState
<1>5. BoardTypeOK
  BY <1>1 DEF BoardTyped
<1>6. ASSUME NEW b \in Agents, b # m.agent PROVE Informed(b)' /\ Fresh(b)'
  <2>1. /\ OnWay(b)' = OnWay(b) /\ viewState'[b] = viewState[b] /\ age'[b] = age[b]
        /\ b \in hearsay' <=> b \in hearsay
    BY <1>2, <1>4, <1>5, <1>6 DEF OnWay, BoardTypeOK
  <2>2. Met(b)' /\ InTouch(b)'
    BY <1>1, <1>3, <2>1 DEF Informed, Met, Told, InTouch, Untouched, Up
  <2>3. Settling(b)'
    BY <1>1, <1>3, <2>1 DEF Informed, Settling, Steady
  <2>4. Fresh(b)'
    BY <1>1, <1>3, <2>1 DEF Fresh
  <2> QED BY <2>2, <2>3, <2>4 DEF Informed
<1>7. ASSUME NEW b \in Agents, b = m.agent PROVE Informed(b)' /\ Fresh(b)'
  <2>1. /\ viewState'[b] = m.state
        /\ age'[b] = IF m.kind = "heartbeat" THEN 0 ELSE IF m.state = "OFFLINE" THEN Window
                     ELSE IF viewState[b] = NoState THEN 0 ELSE age[b]
        /\ b \in hearsay' <=> m.kind # "heartbeat"
                              /\ (b \in hearsay \/ (viewState[b] = NoState /\ silent[b] > 0))
        /\ m \in OnWay(b) /\ OnWay(b)' \subseteq OnWay(b)
    BY <1>2, <1>4, <1>5, <1>7 DEF OnWay, BoardTypeOK
  <2>2. Met(b)' /\ InTouch(b)'
    BY <1>1, <1>3, <1>4, <2>1 DEF Informed, Met, Told, InTouch, Untouched, Up
  <2>3. Settling(b)'
    BY <1>1, <1>3, <1>4, <2>1 DEF Informed, Settling, Steady
  <2>4. Fresh(b)'
    <3>1. age[b] \in 0..5 /\ silent[b] \in 0..5 /\ Fresh(b)
      BY <1>1, <1>5 DEF BoardTypeOK, Window
    <3>2. b \notin hearsay' => silent[b] <= age'[b]
      <4>1. CASE m.kind = "heartbeat"
        BY <2>1, <3>1, <4>1 DEF Fresh
      <4>2. CASE m.kind # "heartbeat"
        BY <2>1, <3>1, <4>2 DEF Fresh, Window
      <4> QED BY <4>1, <4>2
    <3>3. \A n \in OnWay(b)' : n.kind = "heartbeat" => silent[b] = 0
      BY <2>1, <3>1 DEF Fresh
    <3> QED BY <1>3, <3>2, <3>3 DEF Fresh
  <2> QED BY <2>2, <2>3, <2>4 DEF Informed
<1> QED BY <1>2, <1>6, <1>7 DEF BoardInv

LEMMA ResubscribeInforms ==
  ASSUME BoardInv, RestartInspector \/ ReconnectInspector
  PROVE  BoardInv'
<1>1. BoardTyped /\ \A b \in Agents : Informed(b) /\ Fresh(b)
  BY DEF BoardInv
<1>2. Resubscribe
  BY DEF RestartInspector, ReconnectInspector
<1>3. /\ Mail' = {StatusOf(a, retained[a]) : a \in {b \in Agents : retained[b] # NoState}}
      /\ calm' = [a \in Agents |-> 0] /\ UNCHANGED <<main, state, composed, link, retained, silent>>
  BY <1>1, <1>2, Resubscribed DEF agentVars
<1>4. ASSUME NEW b \in Agents
      PROVE  OnWay(b)' = IF retained[b] # NoState THEN {StatusOf(b, retained[b])} ELSE {}
  BY <1>3 DEF OnWay, StatusOf
<1>5. \A b, r : StatusOf(b, r).kind = "status"
  BY DEF StatusOf
<1>6. ASSUME NEW b \in Agents
      PROVE  viewState'[b] = NoState \/ UNCHANGED <<viewState, age, hearsay>>
  BY DEF RestartInspector, ReconnectInspector
<1>7. ASSUME NEW b \in Agents PROVE Informed(b)' /\ Fresh(b)'
  <2>1. Met(b)'
    BY <1>1, <1>3, <1>4, <1>5, <1>6 DEF Informed, Met, Untouched, Told
  <2>2. InTouch(b)' /\ Settling(b)'
    BY <1>1, <1>3 DEF Informed, InTouch, Up, Settling
  <2>3. \A m \in OnWay(b)' : m.kind # "heartbeat"
    BY <1>4, <1>5
  <2>4. Fresh(b)'
    BY <1>1, <1>3, <1>6, <2>3 DEF Fresh
  <2> QED BY <2>1, <2>2, <2>4 DEF Informed
<1> QED BY <1>1, <1>7, ResubscribedTyped DEF BoardInv

LEMMA LossInforms ==
  ASSUME BoardInv, LoseInspector
  PROVE  BoardInv'
<1>1. BoardTyped /\ \A b \in Agents : Informed(b) /\ Fresh(b)
  BY DEF BoardInv
<1>2. /\ BoardTyped' /\ Mail' = {} /\ calm' = [a \in Agents |-> 0] /\ ~listening'
      /\ UNCHANGED <<agentVars, retained, viewState, age, hearsay, silent>>
  BY <1>1, Lost DEF LoseInspector
<1>3. ASSUME NEW b \in Agents PROVE Informed(b)' /\ Fresh(b)'
  <2>1. OnWay(b)' = {} /\ calm'[b] = 0 /\ UNCHANGED <<main, link>>
    BY <1>2 DEF OnWay, agentVars
  <2>2. Met(b)' /\ InTouch(b)' /\ Settling(b)'
    BY <1>1, <1>2, <2>1 DEF Informed, Met, Untouched, Told, InTouch, Up, Settling
  <2>3. Fresh(b)'
    BY <1>1, <1>2, <2>1 DEF Fresh
  <2> QED BY <2>2, <2>3 DEF Informed
<1> QED BY <1>2, <1>3 DEF BoardInv

LEMMA TickInforms ==
  ASSUME BoardInv, Tick
  PROVE  BoardInv'
<1>1. BoardTyped /\ BoardTypeOK /\ \A b \in Agents : Informed(b) /\ Fresh(b)
  BY DEF BoardInv, BoardTyped
<1>2. BoardTyped' /\ Mail = {} /\ Mail' = {}
  BY <1>1, Ticked
<1>3. ASSUME NEW b \in Agents PROVE Informed(b)' /\ Fresh(b)'
  <2>1. /\ main[b] # "due" /\ main'[b] = IF main[b] = "sleep" THEN "due" ELSE main[b]
        /\ age'[b] = Late(age[b], Window)
        /\ silent'[b] = IF Up(b) /\ link[b] = "on" THEN 0 ELSE Late(silent[b], Window)
        /\ calm'[b] = IF main[b] = "compose" \/ ~listening THEN 0 ELSE Late(calm[b], Settled)
        /\ UNCHANGED <<state, composed, link, queued, retained, viewState, listening, hearsay>>
    BY DEF Tick, Lagging
  <2>2. age[b] \in 0..5 /\ silent[b] \in 0..5 /\ calm[b] \in 0..2
    BY <1>1 DEF BoardTypeOK, Window, Settled
  <2>3. OnWay(b) = {} /\ OnWay(b)' = {}
    BY <1>2 DEF OnWay
  <2>4. Untouched(b) => Untouched(b)'
    BY <2>1, <2>3 DEF Untouched
  <2>5. Met(b)'
    BY <1>1, <2>1, <2>3, <2>4 DEF Informed, Met, Told
  <2>6. InTouch(b)'
    BY <2>1 DEF InTouch, Up
  <2>7. Settling(b)'
    BY <1>1, <2>1, <2>2, <2>3 DEF Informed, Settling, Steady, Late, Settled, Window
  <2>8. Fresh(b)'
    BY <1>1, <2>1, <2>2, <2>3 DEF Fresh, Late, Window
  <2> QED BY <2>5, <2>6, <2>7, <2>8 DEF Informed
<1> QED BY <1>2, <1>3 DEF BoardInv

LEMMA BoardInitInforms == BoardInit => BoardInv
<1> SUFFICES ASSUME BoardInit PROVE BoardInv
  OBVIOUS
<1>1. BoardTyped
  <2>1. << >> \in Seq(States) /\ << >> \in Seq(Message) /\ "OFFLINE" \in States
    BY DEF States
  <2> QED BY <2>1, BoardAssumption DEF BoardInit, BoardTyped, BoardTypeOK, Window, Settled
<1>2. Mail = {}
  BY DEF BoardInit, Mail, Contents
<1>3. ASSUME NEW a \in Agents PROVE Untouched(a) /\ OnWay(a) = {} /\ calm[a] = 0 /\ ~Up(a)
  BY <1>2 DEF BoardInit, Untouched, OnWay, Up
<1>4. ASSUME NEW a \in Agents PROVE Informed(a) /\ Fresh(a)
  BY <1>3 DEF Informed, Met, InTouch, Settling, Fresh, Untouched
<1> QED BY <1>1, <1>4 DEF BoardInv

-----------------------------------------------------------------------------

LEMMA BoardStepInforms ==
  ASSUME BoardInv, BoardStep \/ PageTick
  PROVE  BoardInv' /\ \A j \in MishapKinds : left'[j] <= left[j]
<1>1. BoardTyped
  BY DEF BoardInv
<1>2. ASSUME NEW a \in Agents, AgentStep(a)
      PROVE  BoardInv' /\ \A j \in MishapKinds : left'[j] <= left[j]
  <2>1. Own(a)
    BY <1>1, <1>2, AgentStepOwn
  <2>2. \A j \in MishapKinds : left'[j] <= left[j]
    BY <2>1 DEF Own, Timing
  <2> QED BY <1>2, <2>2, AgentStepInforms
<1>3. CASE Receive
  BY <1>1, <1>3, ReceiveInforms, Received DEF BoardTyped, BoardTypeOK
<1>4. CASE LoseInspector
  BY <1>1, <1>4, LossInforms, Lost
<1>5. CASE RestartInspector \/ ReconnectInspector
  BY <1>1, <1>5, ResubscribeInforms, ResubscribedTyped
<1>6. CASE Tick
  BY <1>1, <1>6, TickInforms, Ticked
<1> QED BY <1>2, <1>3, <1>4, <1>5, <1>6 DEF BoardStep, PageTick

(***************************************************************************)
(* Steps of the page leave the board alone but for a mishap.               *)
(***************************************************************************)
PageStep == (\E a \in Agents : Toggle(a) \/ Fire(a)) \/ Push \/ Break \/ Rejoin \/ SetRun

LEMMA PageStepLeavesBoard ==
  ASSUME BoardTyped, PageStep
  PROVE  /\ UNCHANGED <<agentVars, brokerVars, viewVars, silent, calm>>
         /\ left' \in [MishapKinds -> Nat]
         /\ \A j \in MishapKinds : left'[j] <= left[j]
<1>1. CASE Break
  BY <1>1, BefallTyped DEF Break, MishapKinds, BoardTyped
<1>2. CASE UNCHANGED boardVars
  BY <1>2 DEF boardVars, BoardTyped, BoardTypeOK
<1> QED BY <1>1, <1>2 DEF PageStep, Toggle, Fire, Push, Rejoin, SetRun

LEMMA BoardUntouched ==
  ASSUME BoardInv, UNCHANGED <<agentVars, brokerVars, viewVars, silent, calm>>,
         left' \in [MishapKinds -> Nat]
  PROVE  BoardInv'
<1>1. /\ UNCHANGED <<main, state, composed, link, queued, retained, inbox, viewState, age, silent, calm>>
      /\ UNCHANGED <<listening, hearsay>>
  BY DEF agentVars, brokerVars, viewVars
<1>2. BoardTyped'
  BY <1>1 DEF BoardInv, BoardTyped, BoardTypeOK
<1>3. ASSUME NEW b \in Agents PROVE (Informed(b)' <=> Informed(b)) /\ (Fresh(b)' <=> Fresh(b))
  BY <1>1 DEF Informed, Met, Told, InTouch, Settling, Steady, Fresh, Untouched, OnWay, Mail, Contents, Up
<1> QED BY <1>2, <1>3 DEF BoardInv

(***************************************************************************)
(* The types of the page.                                                  *)
(***************************************************************************)
PageTypeOK ==
    /\ stream \in BOOLEAN /\ notified \in BOOLEAN /\ running \in BOOLEAN /\ locked \in BOOLEAN
    /\ since \in 0 .. Period
    /\ shown \subseteq Agents /\ selected \subseteq Agents /\ back \subseteq Agents
    /\ timer \in [Agents -> 0 .. NoTimer]
    /\ gone \in [Agents -> 0 .. Patience + 1]

LEMMA WaitTyped ==
  ASSUME PageTypeOK, NEW as, Wait(as)
  PROVE  /\ gone' \in [Agents -> 0 .. Patience + 1]
         /\ \A a \in Agents : gone'[a] = 0 \/ (gone'[a] = gone[a] /\ a \notin as)
<1>1. \A a \in Agents : gone'[a] = IF a \in as THEN 0 ELSE gone[a]
  BY DEF Wait
<1>2. gone' \in [Agents -> 0 .. Patience + 1]
  <2>1. gone \in [Agents -> 0..11] /\ 0 \in 0..11 /\ Patience + 1 = 11
    BY DEF PageTypeOK, Patience, Period, Grace
  <2> QED BY <2>1 DEF Wait
<1> QED BY <1>1, <1>2

LEMMA PageStepTyped == ASSUME PageTypeOK, PageStep PROVE PageTypeOK'
<1> USE DEF Grace, Period, NoTimer
<1>1. ASSUME NEW a \in Agents, Toggle(a) PROVE PageTypeOK'
  BY <1>1, WaitTyped DEF Toggle, PageTypeOK
<1>2. ASSUME NEW a \in Agents, Fire(a) PROVE PageTypeOK'
  <2>1. timer' \in [Agents -> 0 .. NoTimer]
    BY <1>2 DEF Fire, PageTypeOK
  <2> QED BY <1>2, <2>1 DEF Fire, PageTypeOK
<1>3. CASE Push
  <2>1. PICK known \in SUBSET Agents, on \in SUBSET Agents :
          OnMessage(known, on) /\ shown' = on
    BY <1>3 DEF Push
  <2>2. timer' \in [Agents -> 0 .. NoTimer]
    BY <2>1 DEF OnMessage, PageTypeOK
  <2>3. since' \in 0..Period
    BY <1>3 DEF Push
  <2> QED BY <1>3, <2>1, <2>2, <2>3 DEF Push, PageTypeOK
<1>4. CASE Break
  BY <1>4, WaitTyped DEF Break, PageTypeOK
<1>5. CASE Rejoin
  BY <1>5 DEF Rejoin, PageTypeOK
<1>6. CASE SetRun
  BY <1>6, WaitTyped DEF SetRun, PageTypeOK
<1> QED BY <1>1, <1>2, <1>3, <1>4, <1>5, <1>6 DEF PageStep

LEMMA PageTickTyped ==
  ASSUME PageTypeOK, PageTick PROVE PageTypeOK'
<1> USE DEF Grace, Period, NoTimer, Patience, PageTypeOK
<1>1. timer' \in [Agents -> 0 .. NoTimer]
  BY DEF PageTick
<1>2. since' \in 0..Period
  BY DEF PageTick, Late
<1>3. gone' \in [Agents -> 0 .. Patience + 1]
  BY DEF PageTick, Late
<1>4. back' \subseteq Agents
  BY DEF PageTick
<1> QED BY <1>1, <1>2, <1>3, <1>4 DEF PageTick

LEMMA BoardStepTyped ==
  ASSUME PageTypeOK, BoardStep PROVE PageTypeOK'
<1>1. CASE UNCHANGED pageVars
  BY <1>1 DEF pageVars, PageTypeOK
<1>2. ASSUME NEW as, Wait(as), notified' \in BOOLEAN, stream' \in BOOLEAN,
             UNCHANGED <<since, shown, selected, timer, running, locked, back>>
      PROVE  PageTypeOK'
  BY <1>2, WaitTyped DEF PageTypeOK
<1>3. CASE \E as : /\ Wait(as) /\ notified' \in BOOLEAN /\ stream' \in BOOLEAN
                   /\ UNCHANGED <<since, shown, selected, timer, running, locked, back>>
  BY <1>2, <1>3
<1> QED BY <1>1, <1>3 DEF BoardStep, PageTypeOK

(***************************************************************************)
(* The page and its guard: whoever is listed or selected has a retained    *)
(* status; a device counted as gone is offline, and its wait for the next  *)
(* list and then for its timer is bounded; an agent that is back while its *)
(* timer runs is news to the page.                                         *)
(***************************************************************************)
Guarded(a) ==
    /\ a \in shown \cup selected => retained[a] # NoState
    /\ gone[a] > 0 => ~Online(a) /\ ~running /\ (a \in selected => viewState[a] # NoState)
    /\ gone[a] <= Patience
    /\ a \in selected => IF timer[a] = NoTimer THEN gone[a] <= since
                         ELSE gone[a] + timer[a] <= Patience
    /\ Online(a) /\ timer[a] # NoTimer => notified

PageInv == PageTypeOK /\ \A a \in Agents : Guarded(a)

LEMMA PageTypes ==
  ASSUME PageTypeOK, NEW a \in Agents
  PROVE  gone[a] \in 0..11 /\ timer[a] \in 0..9 /\ since \in 0..2
BY DEF PageTypeOK, Patience, Period, Grace, NoTimer

LEMMA BoardStepGuarded ==
  ASSUME BoardInv, PageInv, BoardStep, NEW a \in Agents
  PROVE  Guarded(a)'
<1>1. /\ BoardTyped /\ BoardTypeOK /\ PageTypeOK /\ Guarded(a) /\ PageTypeOK'
      /\ gone[a] \in 0..11 /\ timer[a] \in 0..9 /\ since \in 0..2
  BY PageTypes, BoardStepTyped DEF BoardInv, BoardTyped, PageInv
<1>2. CASE (\E b \in Agents : AgentStep(b)) /\ UNCHANGED pageVars
  <2>1. PICK b \in Agents : AgentStep(b)
    BY <1>2
  <2>2. Own(b)
    BY <1>1, <2>1, AgentStepOwn
  <2>3. viewState' = viewState /\ age' = age /\ (retained[a] # NoState => retained'[a] # NoState)
    BY <2>2 DEF Own, Timing, Posting, viewVars
  <2> QED BY <1>1, <1>2, <2>3 DEF Guarded, Online, pageVars
<1>3. CASE (LoseInspector \/ ReconnectInspector) /\ UNCHANGED pageVars
  <2>1. UNCHANGED <<retained, viewState, age>>
    BY <1>3 DEF LoseInspector, ReconnectInspector, Resubscribe
  <2> QED BY <1>1, <1>3, <2>1 DEF Guarded, Online, pageVars
<1>4. CASE /\ RestartInspector /\ Wait(Agents)
           /\ UNCHANGED <<notified, since, shown, selected, timer, running, locked, back>>
  <2>1. /\ gone'[a] = 0 /\ ~Online(a)' /\ retained' = retained
        /\ UNCHANGED <<since, shown, selected, timer, running>>
    BY <1>4 DEF RestartInspector, Resubscribe, Wait, Online
  <2> QED BY <1>1, <2>1 DEF Guarded, Patience, Period, Grace, NoTimer
<1>5. CASE /\ Receive /\ notified' = TRUE /\ Wait({b \in Agents : age'[b] = 0})
           /\ UNCHANGED <<stream, since, shown, selected, timer, running, locked, back>>
  <2>1. PICK m \in Message :
           /\ viewState' = [viewState EXCEPT ![m.agent] = m.state]
           /\ age' = [age EXCEPT ![m.agent] =
                IF m.kind = "heartbeat" THEN 0
                ELSE IF m.state = "OFFLINE" THEN Window
                ELSE IF viewState[m.agent] = NoState THEN 0 ELSE age[m.agent]]
           /\ retained' = retained
    BY <1>1, <1>5, Received
  <2>2. m.agent \in Agents /\ m.state # NoState
    BY DEF Message, States, NoState
  <2>3. gone'[a] = IF age'[a] = 0 THEN 0 ELSE gone[a]
    BY <1>5 DEF Wait
  <2>4. viewState[a] # NoState => viewState'[a] # NoState
    BY <1>1, <2>1, <2>2 DEF BoardTypeOK
  <2>5. age'[a] # 0 /\ ~Online(a) => ~Online(a)'
    <3>1. CASE m.agent = a
      BY <1>1, <2>1, <3>1 DEF Online, BoardTypeOK, Window
    <3>2. CASE m.agent # a
      BY <1>1, <2>1, <2>2, <3>2 DEF Online, BoardTypeOK
    <3> QED BY <3>1, <3>2
  <2>6. gone'[a] > 0 => age'[a] # 0 /\ gone'[a] = gone[a]
    BY <2>3
  <2>7. gone'[a] = 0 \/ gone'[a] = gone[a]
    BY <2>3
  <2> QED BY <1>1, <1>5, <2>1, <2>4, <2>5, <2>6, <2>7 DEF Guarded, Patience, Period, Grace, NoTimer
<1> QED BY <1>2, <1>3, <1>4, <1>5 DEF BoardStep

LEMMA PageTickGuarded ==
  ASSUME BoardInv, PageInv, PageTick, NEW a \in Agents
  PROVE  Guarded(a)'
<1>1. /\ BoardTyped /\ BoardTypeOK /\ PageTypeOK /\ Guarded(a)
      /\ gone[a] \in 0..11 /\ timer[a] \in 0..9 /\ since \in 0..2
  BY PageTypes DEF BoardInv, BoardTyped, PageInv
<1>4. /\ UNCHANGED <<retained, viewState, notified, shown, selected, running>>
      /\ age'[a] = Late(age[a], Window) /\ age[a] \in 0..5
  BY <1>1 DEF PageTick, Tick, BoardTypeOK, Window
<1>5. Online(a)' => Online(a) /\ age'[a] < Window
  BY <1>4 DEF Online, Late, Window
<1>6. /\ timer[a] # 0 /\ (stream => ~notified /\ since < Period)
      /\ timer'[a] = IF timer[a] = NoTimer THEN NoTimer ELSE timer[a] - 1
      /\ since' = Late(since, Period)
      /\ a \in back' <=> Online(a) /\ age'[a] < Window
      /\ gone'[a] = IF a \in selected \ back' /\ viewState[a] # NoState /\ stream /\ ~running
                    THEN Late(gone[a], Patience + 1) ELSE 0
  BY DEF PageTick
<1> USE DEF Patience, Period, Grace, NoTimer
<1>7. timer'[a] \in 0..9 /\ (timer'[a] = 9 <=> timer[a] = 9)
  BY <1>1, <1>6
<1>8. CASE gone'[a] = 0
  <2>1. since' \in 0..2
    BY <1>1, <1>6 DEF Late
  <2> QED BY <1>1, <1>4, <1>5, <1>7, <1>8, <2>1 DEF Guarded
<1>9. CASE gone'[a] # 0
  <2>1. /\ a \in selected /\ a \notin back' /\ viewState[a] # NoState /\ stream /\ ~running
        /\ gone'[a] = Late(gone[a], 11)
    BY <1>6, <1>9
  <2>2. ~Online(a)' /\ viewState'[a] # NoState
    BY <1>1, <1>4, <1>5, <1>6, <2>1
  <2>3. IF timer'[a] = 9 THEN gone'[a] <= since' /\ gone'[a] <= 10 ELSE gone'[a] + timer'[a] <= 10
    <3>1. CASE timer[a] = 9
      BY <1>1, <1>6, <2>1, <3>1 DEF Guarded, Late
    <3>2. CASE timer[a] # 9
      BY <1>1, <1>6, <2>1, <3>2 DEF Guarded, Late
    <3> QED BY <3>1, <3>2
  <2>4. gone'[a] <= 10 /\ gone'[a] \in Nat
    BY <1>1, <1>7, <2>1, <2>3 DEF Late
  <2> QED BY <1>1, <1>4, <2>1, <2>2, <2>3, <2>4 DEF Guarded
<1> QED BY <1>8, <1>9

LEMMA PageStepGuarded ==
  ASSUME BoardInv, PageInv, PageStep, NEW a \in Agents
  PROVE  Guarded(a)'
<1>1. /\ BoardTyped /\ BoardTypeOK /\ Met(a) /\ PageTypeOK /\ Guarded(a)
      /\ gone[a] \in 0..11 /\ timer[a] \in 0..9 /\ since \in 0..2
  BY PageTypes DEF BoardInv, BoardTyped, Informed, PageInv
<1>2. UNCHANGED <<retained, viewState, age>>
  BY <1>1, PageStepLeavesBoard DEF brokerVars, viewVars
<1>3. Online(a)' <=> Online(a)
  BY <1>2 DEF Online
<1> USE DEF Patience, Period, Grace, NoTimer
<1>4. ASSUME NEW b \in Agents, Toggle(b) PROVE Guarded(a)'
  <2>1. /\ UNCHANGED <<notified, since, shown, timer, running>>
        /\ gone'[a] = IF a = b THEN 0 ELSE gone[a]
        /\ a # b => (a \in selected' <=> a \in selected)
        /\ b \in shown \cup selected
    BY <1>4 DEF Toggle, Wait
  <2>2. CASE a = b
    BY <1>1, <1>2, <1>3, <2>1, <2>2 DEF Guarded
  <2>3. CASE a # b
    BY <1>1, <1>2, <1>3, <2>1, <2>3 DEF Guarded
  <2> QED BY <2>2, <2>3
<1>5. ASSUME NEW b \in Agents, Fire(b) PROVE Guarded(a)'
  <2>1. /\ UNCHANGED <<notified, since, shown, running, gone>>
        /\ timer'[a] = IF a = b THEN NoTimer ELSE timer[a]
        /\ a \in selected' <=> a \in selected /\ a # b
    BY <1>1, <1>5 DEF Fire, PageTypeOK
  <2> QED BY <1>1, <1>2, <1>3, <2>1 DEF Guarded
<1>6. CASE Push
  <2> DEFINE known == {b \in Agents : viewState[b] # NoState}
             on == {b \in known : Online(b)}
  <2>1. /\ OnMessage(known, on) /\ shown' = on /\ since' = 0 /\ notified' = FALSE
        /\ UNCHANGED <<selected, running, gone>>
    BY <1>6 DEF Push
  <2>2. timer'[a] = CASE a \in on -> NoTimer
                     [] a \in known \ on /\ a \in selected /\ timer[a] = NoTimer /\ ~running -> Grace
                     [] OTHER -> timer[a]
    BY <2>1 DEF OnMessage
  <2>3. a \in on <=> Online(a)
    BY DEF Online
  <2>4. a \in known <=> viewState[a] # NoState
    OBVIOUS
  <2> HIDE DEF known, on
  <2>5. a \in shown' => retained'[a] # NoState
    BY <1>1, <1>2, <2>1, <2>3 DEF Met, Untouched, Online
  <2>6. CASE Online(a)
    BY <1>1, <1>2, <1>3, <2>1, <2>2, <2>3, <2>5, <2>6 DEF Guarded
  <2>7. CASE ~Online(a) /\ viewState[a] # NoState /\ a \in selected /\ timer[a] = NoTimer /\ ~running
    <3>1. timer'[a] = Grace
      BY <2>2, <2>3, <2>4, <2>7
    <3> QED BY <1>1, <1>2, <1>3, <2>1, <2>5, <2>7, <3>1 DEF Guarded
  <2>8. CASE ~Online(a) /\ ~(viewState[a] # NoState /\ a \in selected /\ timer[a] = NoTimer /\ ~running)
    <3>1. timer'[a] = timer[a]
      BY <2>2, <2>3, <2>4, <2>8
    <3>2. a \in selected /\ timer[a] = NoTimer => gone[a] = 0
      BY <1>1, <2>8 DEF Guarded
    <3> QED BY <1>1, <1>2, <1>3, <2>1, <2>5, <2>8, <3>1, <3>2 DEF Guarded
  <2> QED BY <2>6, <2>7, <2>8
<1>7. CASE Break \/ SetRun
  <2>1. gone'[a] = 0 /\ UNCHANGED <<notified, since, shown, selected, timer>>
    BY <1>7 DEF Break, SetRun, Wait
  <2> QED BY <1>1, <1>2, <1>3, <2>1 DEF Guarded
<1>8. CASE Rejoin
  BY <1>1, <1>2, <1>3, <1>8 DEF Rejoin, Guarded
<1> QED BY <1>4, <1>5, <1>6, <1>7, <1>8 DEF PageStep

LEMMA GuardedStep ==
  BoardInv /\ PageInv /\ [Next]_vars => BoardInv' /\ PageInv'
<1> SUFFICES ASSUME BoardInv, PageInv, [Next]_vars PROVE BoardInv' /\ PageInv'
  OBVIOUS
<1>1. CASE BoardStep
  BY <1>1, BoardStepInforms, BoardStepTyped, BoardStepGuarded DEF PageInv
<1>2. CASE PageTick
  BY <1>2, BoardStepInforms, PageTickTyped, PageTickGuarded DEF PageInv
<1>3. CASE PageStep
  <2>1. BoardInv'
    BY <1>3, PageStepLeavesBoard, BoardUntouched DEF BoardInv
  <2> QED BY <1>3, <2>1, PageStepTyped, PageStepGuarded DEF PageInv
<1>4. CASE UNCHANGED vars
  <2>1. UNCHANGED <<agentVars, brokerVars, viewVars, silent, calm>> /\ UNCHANGED left /\ UNCHANGED pageVars
    BY <1>4 DEF vars, boardVars
  <2>2. BoardInv'
    BY <2>1, BoardUntouched DEF BoardInv, BoardTyped, BoardTypeOK
  <2>3. PageTypeOK'
    BY <2>1 DEF pageVars, PageInv, PageTypeOK
  <2>4. ASSUME NEW a \in Agents PROVE Guarded(a)'
    BY <2>1 DEF pageVars, viewVars, brokerVars, PageInv, Guarded, Online
  <2> QED BY <2>2, <2>3, <2>4 DEF PageInv
<1> QED BY <1>1, <1>2, <1>3, <1>4 DEF Next, PageStep

LEMMA GuardedInit == Init => BoardInv /\ PageInv
<1> SUFFICES ASSUME Init PROVE BoardInv /\ PageInv
  OBVIOUS
<1>1. BoardInv
  BY BoardInitInforms DEF Init
<1>2. PageTypeOK
  <2>1. /\ stream = TRUE /\ notified = FALSE /\ running = FALSE /\ locked = FALSE /\ since = 0
        /\ shown = {} /\ selected = {} /\ back = {}
        /\ timer = [a \in Agents |-> NoTimer] /\ gone = [a \in Agents |-> 0]
    BY DEF Init
  <2>2. NoTimer \in 0..NoTimer /\ 0 \in 0..Patience + 1 /\ 0 \in 0..Period
    BY DEF Patience, Period, Grace, NoTimer
  <2>3. timer \in [Agents -> 0..NoTimer] /\ gone \in [Agents -> 0..Patience + 1]
    BY <2>1, <2>2
  <2> QED BY <2>1, <2>2, <2>3 DEF PageTypeOK
<1>3. ASSUME NEW a \in Agents PROVE Guarded(a)
  BY DEF Init, Guarded, Patience, Period, Grace, NoTimer
<1> QED BY <1>1, <1>2, <1>3 DEF PageInv

-----------------------------------------------------------------------------

(***************************************************************************)
(* Every variable of board and page keeps its type.                        *)
(***************************************************************************)
THEOREM BoardAndPageTyped == Spec => []TypeOK
<1>1. BoardInv /\ PageInv => TypeOK
  BY DEF BoardInv, BoardTyped, PageInv, PageTypeOK, TypeOK
<1> QED BY <1>1, GuardedInit, GuardedStep, PTL DEF Spec

(***************************************************************************)
(* Two calm seconds make the view true, whatever has happened before: any  *)
(* mishaps of agents, broker, inspector and page.                          *)
(***************************************************************************)
THEOREM HeartbeatsRepair == Spec => []CaughtUp
<1>1. BoardInv => CaughtUp
  <2> SUFFICES ASSUME BoardInv, NEW a \in Agents, Steady(a), calm[a] = Settled, inbox = << >>
               PROVE  Online(a) /\ viewState[a] = state[a]
    BY DEF CaughtUp, Steady
  <2>1. viewState[a] = state[a] /\ age[a] <= 1 /\ age[a] \in 0..5 /\ state[a] \in States
    BY DEF BoardInv, BoardTyped, BoardTypeOK, Informed, Settling, Settled, Window
  <2> QED BY <2>1 DEF Online, Window, States, NoState
<1> QED BY <1>1, GuardedInit, GuardedStep, PTL DEF Spec

(***************************************************************************)
(* A device that is gone does not stay selected, whatever goes wrong.      *)
(***************************************************************************)
THEOREM GuardAlwaysActs == Spec => []GuardActs
<1>1. PageInv => GuardActs
  BY DEF PageInv, Guarded, GuardActs
<1> QED BY <1>1, GuardedInit, GuardedStep, PTL DEF Spec

(***************************************************************************)
(* An agent of which the inspector has more than a status it got when the  *)
(* agent was silent already is shown as offline after five seconds without *)
(* it, for any mishaps, also over restarts and outages of the inspector.   *)
(***************************************************************************)
THEOREM TheGoneAreShown == Spec => []GoneIsShown
<1>1. BoardInv => GoneIsShown
  <2> SUFFICES ASSUME BoardInv, NEW a \in Agents, a \notin hearsay, silent[a] = Window
               PROVE  ~Online(a)
    BY DEF GoneIsShown, Gone
  <2>1. viewState[a] # NoState => Window <= age[a]
    BY DEF BoardInv, Fresh
  <2>2. age[a] \in 0..Window
    BY DEF BoardInv, BoardTyped, BoardTypeOK
  <2> QED BY <2>1, <2>2 DEF Online, Window
<1> QED BY <1>1, GuardedInit, GuardedStep, PTL DEF Spec

(***************************************************************************)
(* Until the inspector restarts or the page loses /events, the guard       *)
(* spares whoever is back for a second, for any mishaps of the agents and  *)
(* any outage of the inspector.                                            *)
(***************************************************************************)
THEOREM GuardIsPatient == Spec => GuardPatient
<1> DEFINE Budget == \A k \in MishapKinds : left[k] \in Nat /\ left[k] <= Mishaps[k]
           Spared == \A a \in Agents : a \in back => timer[a] \in {NoTimer, Grace}
           Inv == BoardInv /\ PageInv /\ Budget /\ (EventsKept => stream /\ Spared)
<1>1. Init => Inv
  BY GuardedInit, BoardAssumption DEF Init, BoardInit
<1>2. Inv /\ [Next]_vars => Inv'
  <2> SUFFICES ASSUME Inv, [Next]_vars PROVE Inv'
    OBVIOUS
  <2>1. BoardInv' /\ PageInv'
    BY GuardedStep
  <2>2. \A k \in MishapKinds : left'[k] \in Nat /\ left'[k] <= left[k]
    <3>1. left \in [MishapKinds -> Nat] /\ left' \in [MishapKinds -> Nat]
      BY <2>1 DEF BoardInv, BoardTyped, BoardTypeOK
    <3>2. CASE BoardStep \/ PageTick
      BY <3>1, <3>2, BoardStepInforms
    <3>3. CASE PageStep
      BY <3>1, <3>3, PageStepLeavesBoard DEF BoardInv, BoardTyped
    <3>4. CASE UNCHANGED vars
      BY <3>1, <3>4 DEF vars, boardVars
    <3> QED BY <3>2, <3>3, <3>4 DEF Next, PageStep
  <2>3. Budget'
    BY <2>2, BoardAssumption
  <2>4. EventsKept' => EventsKept /\ ~RestartInspector /\ ~Break
    <3> SUFFICES ASSUME EventsKept' PROVE EventsKept /\ ~RestartInspector /\ ~Break
      OBVIOUS
    <3>1. \A k \in {"restart", "break"} :
            left[k] \in Nat /\ Mishaps[k] \in Nat /\ left[k] = Mishaps[k] /\ left'[k] = left[k]
      BY <2>2, BoardAssumption DEF EventsKept, MishapKinds
    <3>2. EventsKept
      BY <3>1 DEF EventsKept
    <3>3. ASSUME NEW k \in {"restart", "break"}, Befall(k) PROVE FALSE
      BY <3>1, <3>3 DEF Befall, MishapKinds, BoardInv, BoardTyped, BoardTypeOK
    <3> QED BY <3>2, <3>3 DEF RestartInspector, Break
  <2>5. EventsKept' => stream'
    BY <2>4 DEF Next, BoardStep, PageTick, Toggle, Fire, Push, Rejoin, SetRun, vars, pageVars
  <2>6. ASSUME EventsKept' PROVE Spared'
    <3>1. ASSUME PageTick, NEW a \in Agents, a \in back' PROVE timer'[a] \in {NoTimer, Grace}
      <4>1. Online(a) /\ ~notified /\ Guarded(a)
        BY <2>4, <2>6, <3>1 DEF PageTick, PageInv
      <4>2. timer[a] = NoTimer
        BY <4>1 DEF Guarded
      <4> QED BY <3>1, <4>2 DEF PageTick
    <3>2. ASSUME NEW b \in Agents, Fire(b) PROVE Spared'
      <4>1. back' = back /\ \A a \in Agents : timer'[a] \in {NoTimer, timer[a]}
        BY <3>2 DEF Fire, PageInv, PageTypeOK
      <4> QED BY <2>4, <2>6, <4>1
    <3>3. CASE Push
      <4>1. back' = back /\ \E known, on : OnMessage(known, on)
        BY <3>3 DEF Push
      <4>2. \A a \in Agents : timer'[a] \in {NoTimer, Grace, timer[a]}
        BY <4>1 DEF OnMessage
      <4> QED BY <2>4, <2>6, <4>1, <4>2
    <3>4. CASE UNCHANGED <<back, timer>>
      BY <2>4, <2>6, <3>4
    <3> QED BY <2>4, <2>6, <3>1, <3>2, <3>3, <3>4
          DEF Next, BoardStep, Toggle, Rejoin, SetRun, vars, pageVars
  <2> QED BY <2>1, <2>3, <2>5, <2>6
<1>3. Inv => [EventsKept => \A a \in Agents : Fire(a) /\ a \in selected => ~(Online(a) /\ a \in back)]_vars
  <2> SUFFICES ASSUME Inv, EventsKept, NEW a \in Agents, Fire(a), a \in back PROVE FALSE
    OBVIOUS
  <2>1. timer[a] = 0
    BY DEF Fire
  <2> QED BY <2>1 DEF NoTimer, Grace
<1> QED BY <1>1, <1>2, <1>3, PTL DEF Spec, GuardPatient

=============================================================================
