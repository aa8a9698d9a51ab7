-------------------------- MODULE RunConsoleProofs --------------------------
(***************************************************************************)
(* The run console, for any number of runs and samples: what the page      *)
(* handles of a run is what the run emitted, its badge goes on, and the    *)
(* queues of _run_queues are given back.  Each theorem names the mishaps   *)
(* that must not happen; the others may, as often as Mishaps says.         *)
(***************************************************************************)
EXTENDS RunConsole, FiniteSetTheorems, SequenceTheorems, TLAPS

(***************************************************************************)
(* Only the run the page subscribed to last has a stream, its POST is      *)
(* answered, and nothing of a run has gone anywhere before that.           *)
(***************************************************************************)
Followed ==
    /\ runId = NoRun => link = "closed"
    /\ runId # NoRun => source = runId
    /\ source # NoRun => post[source] = "answered"
    /\ link # "open" => wire = << >> /\ \A n \in Runs : ~streaming[n]
    /\ \A n \in Runs : streaming[n] => source = n
    /\ \A n \in Runs : post[n] # "answered" =>
          seen[n] = << >> /\ queue[n] = emitted[n] /\ ~orphan[n]

(***************************************************************************)
(* The last event of a run is the last on the wire and the last handled.   *)
(***************************************************************************)
EndsOnce ==
    /\ Ending(wire) \subseteq {Len(wire)}
    /\ Ending(wire) # {} => \A n \in Runs : ~streaming[n]
    /\ \A n \in Runs :
          /\ Ending(seen[n]) \subseteq {Len(seen[n])}
          /\ Ending(seen[n]) # {} /\ source = n => link = "closed"

(***************************************************************************)
(* No event is in two places.                                              *)
(***************************************************************************)
NoneTwice ==
    \A n \in Runs, e \in Events :
        Count(seen[n], e) + Count(OnWire(n), e) + Count(queue[n], e) <= Count(emitted[n], e)

ConsoleInv == TypeOK /\ Followed /\ EndsOnce /\ NoneTwice

(***************************************************************************)
(* Without a broken connection: what the run has emitted is on one line.   *)
(***************************************************************************)
Unbroken ==
    /\ left["drop"] = 0
    /\ source # NoRun /\ link # "closed" =>
          /\ seen[source] \o wire \o queue[source] = emitted[source]
          /\ ~orphan[source]

(***************************************************************************)
(* Without a second click: the page waits for one POST or follows a run.   *)
(***************************************************************************)
OneAtATime ==
    /\ left["double"] = 0
    /\ \A n, m \in Pending : n = m
    /\ runId # NoRun => Pending = {}

(***************************************************************************)
(* And then the phases come in order: what is shown, what is on the wire,  *)
(* what waits in the queue, what the thread will emit.                     *)
(***************************************************************************)
Phases == {"preparing", "running", "collecting"} \cup Terminal
InPhase(s) == {i \in DOMAIN s : s[i] \in Phases}

Floor(p) == CASE p = "running" -> 2 [] p = "collecting" -> 3 [] p \in {"closing", "over"} -> 4
              [] OTHER -> 1

Sorted(s) == \A i, j \in InPhase(s) : i < j => Rank(s[i]) <= Rank(s[j])
NotBefore(s, k) == \A i \in InPhase(s) : k <= Rank(s[i])
NotAfter(s, k) == \A i \in InPhase(s) : Rank(s[i]) <= k
Above(s, t) == \A i \in InPhase(s), j \in InPhase(t) : Rank(s[i]) <= Rank(t[j])

QueueInOrder(n) ==
    Sorted(queue[n]) /\ NotAfter(queue[n], Floor(thread[n])) /\ NotBefore(queue[n], 1)

LineInOrder(n) ==
    /\ Sorted(wire) /\ NotAfter(wire, Floor(thread[n])) /\ NotBefore(wire, Rank(shown))
    /\ NotBefore(queue[n], Rank(shown)) /\ Rank(shown) <= Floor(thread[n])
    /\ Above(wire, queue[n])

NewIsPreparing == runId = NoRun /\ Pending # {} => shown = "preparing"
ThreadsAfterPosts == \A n \in Runs : post[n] \in {"new", "sent"} => thread[n] = "none"

InOrder ==
    /\ NewIsPreparing /\ ThreadsAfterPosts
    /\ \A n \in Runs : QueueInOrder(n)
    /\ \A n \in Runs : runId = n => LineInOrder(n)

(***************************************************************************)
(* And if the POSTs are answered in time as well, a queue that is          *)
(* registered is one the page has still to follow, or follows.             *)
(***************************************************************************)
ThreadInHand(n) ==
    /\ post[n] \in {"new", "sent"} => thread[n] = "none"
    /\ thread[n] = "none" => emitted[n] = << >>
    /\ thread[n] = "starting" => post[n] = "waiting" /\ emitted[n] = << >>
    /\ emitted[n] = << >> => n \notin registered

QueueInHand(n) ==
    /\ n \in registered => post[n] \in {"waiting", "ok"} \/ runId = n
    /\ runId = n /\ Ending(wire) # {} => n \notin registered

InHand ==
    /\ left["slow"] = 0
    /\ \A n \in Runs : ThreadInHand(n) /\ QueueInHand(n)

-----------------------------------------------------------------------------

(***************************************************************************)
(* Sequences of events.                                                    *)
(***************************************************************************)
LEMMA AppendFacts ==
  ASSUME NEW s \in Seq(Events), NEW x \in Events
  PROVE  /\ Append(s, x) \in Seq(Events) /\ Len(s) \in Nat
         /\ DOMAIN s = 1..Len(s) /\ Len(Append(s, x)) = Len(s) + 1
         /\ DOMAIN Append(s, x) = 1..Len(s) + 1
         /\ \A i \in 1..Len(s) : Append(s, x)[i] = s[i]
         /\ Append(s, x)[Len(s) + 1] = x
<1>1. /\ Append(s, x) \in Seq(Events) /\ Len(s) \in Nat /\ Len(Append(s, x)) = Len(s) + 1
      /\ \A i \in 1..Len(s) : Append(s, x)[i] = s[i]
      /\ Append(s, x)[Len(s) + 1] = x
  OBVIOUS
<1>2. DOMAIN s = 1..Len(s) /\ DOMAIN Append(s, x) = 1..Len(Append(s, x))
  BY <1>1
<1> QED BY <1>1, <1>2

LEMMA TailFacts ==
  ASSUME NEW s \in Seq(Events), s # << >>
  PROVE  /\ Tail(s) \in Seq(Events) /\ Head(s) \in Events /\ Head(s) = s[1]
         /\ Len(s) \in Nat \ {0} /\ Len(Tail(s)) = Len(s) - 1
         /\ DOMAIN s = 1..Len(s) /\ DOMAIN Tail(s) = 1..Len(s) - 1
         /\ \A i \in 1..Len(s) - 1 : Tail(s)[i] = s[i + 1]
<1>1. /\ Tail(s) \in Seq(Events) /\ Head(s) = s[1] /\ Head(s) \in Events
      /\ Len(s) \in Nat \ {0} /\ Len(Tail(s)) = Len(s) - 1
      /\ \A i \in 1..Len(s) - 1 : Tail(s)[i] = s[i + 1]
  OBVIOUS
<1>2. DOMAIN s = 1..Len(s) /\ DOMAIN Tail(s) = 1..Len(Tail(s))
  BY <1>1
<1> QED BY <1>1, <1>2

LEMMA CountIsNat ==
  ASSUME NEW s \in Seq(Events), NEW e
  PROVE  Count(s, e) \in Nat /\ IsFiniteSet({i \in DOMAIN s : s[i] = e})
<1> DEFINE S == {i \in DOMAIN s : s[i] = e}
<1>1. IsFiniteSet(1..Len(s)) /\ S \in SUBSET (1..Len(s))
  BY FS_Interval
<1>2. IsFiniteSet(S)
  BY <1>1, FS_Subset
<1> QED BY <1>2, FS_CardinalityType DEF Count

LEMMA CountEmpty == ASSUME NEW e PROVE Count(<< >>, e) = 0
<1>1. {i \in DOMAIN << >> : << >>[i] = e} = {}
  OBVIOUS
<1> QED BY <1>1, FS_EmptySet DEF Count

LEMMA CountAppend ==
  ASSUME NEW s \in Seq(Events), NEW x \in Events, NEW e
  PROVE  Count(Append(s, x), e) = Count(s, e) + IF x = e THEN 1 ELSE 0
<1> DEFINE S == {i \in DOMAIN s : s[i] = e}
           T == {i \in DOMAIN Append(s, x) : Append(s, x)[i] = e}
<1>1. IsFiniteSet(S) /\ Cardinality(S) \in Nat
  BY CountIsNat DEF Count
<1>2. Len(s) + 1 \notin S
  BY AppendFacts
<1>3. CASE x = e
  <2>1. T = S \cup {Len(s) + 1}
    BY <1>3, AppendFacts
  <2> HIDE DEF S, T
  <2>2. Cardinality(T) = Cardinality(S) + 1
    BY <2>1, <1>1, <1>2, FS_AddElement
  <2> QED BY <2>2, <1>3 DEF Count, S, T
<1>4. CASE x # e
  <2>1. T = S
    BY <1>4, AppendFacts
  <2>2. Cardinality(T) = Cardinality(S) + 0
    <3> HIDE DEF S, T
    <3> QED BY <2>1, <1>1
  <2> QED BY <2>2, <1>4 DEF Count
<1> QED BY <1>3, <1>4

LEMMA CountTail ==
  ASSUME NEW s \in Seq(Events), s # << >>, NEW e
  PROVE  Count(s, e) = Count(Tail(s), e) + IF Head(s) = e THEN 1 ELSE 0
<1> DEFINE S == {i \in DOMAIN s : s[i] = e}
           T == {i \in DOMAIN Tail(s) : Tail(s)[i] = e}
           f == [i \in T |-> i + 1]
<1>1. /\ IsFiniteSet(S) /\ Cardinality(S) \in Nat
      /\ IsFiniteSet(T) /\ Cardinality(T) \in Nat
  <2>1. Tail(s) \in Seq(Events)
    BY TailFacts
  <2> QED BY <2>1, CountIsNat DEF Count
<1>2. f \in Bijection(T, S \ {1})
  <2>1. f \in [T -> S \ {1}]
    BY TailFacts
  <2>2. \A i, j \in T : f[i] = f[j] => i = j
    BY TailFacts
  <2>3. \A j \in S \ {1} : j - 1 \in T /\ f[j - 1] = j
    BY TailFacts
  <2> HIDE DEF S, T, f
  <2>4. \A j \in S \ {1} : \E i \in T : f[i] = j
    BY <2>3
  <2> QED BY <2>1, <2>2, <2>4 DEF Bijection, Injection, Surjection, IsInjective
<1> HIDE DEF f
<1>3. Cardinality(S \ {1}) = Cardinality(T)
  <2> HIDE DEF S, T
  <2>1. ExistsBijection(T, S \ {1})
    BY <1>2 DEF ExistsBijection
  <2> QED BY <2>1, <1>1, FS_Bijection
<1>4. 1 \in S <=> Head(s) = e
  BY TailFacts
<1>5. Cardinality(S \ {1}) = IF Head(s) = e THEN Cardinality(S) - 1 ELSE Cardinality(S)
  <2> HIDE DEF S, T
  <2> QED BY <1>1, <1>4, FS_RemoveElement
<1>6. Cardinality(S) = Cardinality(T) + IF Head(s) = e THEN 1 ELSE 0
  <2> HIDE DEF S, T
  <2> QED BY <1>1, <1>3, <1>5
<1> QED BY <1>6 DEF Count

-----------------------------------------------------------------------------

(***************************************************************************)
(* Types.                                                                  *)
(***************************************************************************)
LEMMA PutType ==
  ASSUME TypeOK, NEW n \in Runs, NEW e \in Events, Put(n, e)
  PROVE  queue' \in [Runs -> Seq(Events)] /\ emitted' \in [Runs -> Seq(Events)]
<1>1. Append(queue[n], e) \in Seq(Events) /\ Append(emitted[n], e) \in Seq(Events)
  BY AppendFacts DEF TypeOK
<1> QED BY <1>1 DEF TypeOK, Put

LEMMA EmitType ==
  ASSUME TypeOK, NEW n \in Runs, NEW from, NEW e \in Events, NEW to \in Steps, Emit(n, from, e, to),
         left' \in [MishapKinds -> Nat], registered' \subseteq Runs
  PROVE  TypeOK'
BY PutType DEF TypeOK, Emit, pageVars

LEMMA BefallType ==
  ASSUME TypeOK, NEW k \in MishapKinds, Befall(k)
  PROVE  left' \in [MishapKinds -> Nat]
BY DEF TypeOK, Befall

LEMMA TakeType ==
  ASSUME TypeOK, NEW n \in Runs, Take(n) \/ TakeCut(n)
  PROVE  /\ queue' \in [Runs -> Seq(Events)] /\ registered' \subseteq Runs
         /\ Head(queue[n]) \in Events
<1>1. queue[n] \in Seq(Events) /\ queue[n] # << >>
  BY DEF TypeOK, Take, TakeCut
<1>2. Tail(queue[n]) \in Seq(Events) /\ Head(queue[n]) \in Events
  BY <1>1, TailFacts
<1> QED BY <1>2 DEF TypeOK, Take, TakeCut

LEMMA TypeStep == TypeOK /\ [Next]_vars => TypeOK'
<1> SUFFICES ASSUME TypeOK, [Next]_vars PROVE TypeOK'
  OBVIOUS
<1>1. CASE UNCHANGED vars
  BY <1>1 DEF TypeOK, vars, pageVars, serverVars
<1>2. ASSUME NEW n \in Runs, Click(n) PROVE TypeOK'
  <2>1. left' \in [MishapKinds -> Nat]
    BY <1>2, BefallType DEF Click, MishapKinds, TypeOK
  <2> QED BY <1>2, <2>1 DEF TypeOK, Click, Posts, serverVars
<1>3. ASSUME NEW n \in Runs, Page(n) PROVE TypeOK'
  <2>1. CASE Subscribe(n)
    BY <2>1 DEF TypeOK, Subscribe, Unsubscribe, Posts
  <2>2. CASE PostFailed(n)
    BY <2>2 DEF TypeOK, PostFailed, Posts, serverVars, Terminal
  <2> QED BY <1>3, <2>1, <2>2 DEF Page
<1>4. ASSUME NEW n \in Runs, Route(n) PROVE TypeOK'
  <2>1. left' \in [MishapKinds -> Nat]
    BY <1>4, BefallType DEF Route, Refuse, Accept, Answer, MishapKinds, TypeOK
  <2>2. CASE Refuse(n) \/ Accept(n)
    BY <2>2 DEF TypeOK, Refuse, Accept, Posts, Steps, pageVars, serverVars
  <2>3. CASE Answer(n)
    <3>1. post' \in [Runs -> Posts]
      BY <2>3 DEF TypeOK, Answer, Posts
    <3> QED BY <2>1, <2>3, <3>1 DEF TypeOK, Answer, pageVars, serverVars
  <2> QED BY <1>4, <2>2, <2>3 DEF Route
<1>5. ASSUME NEW n \in Runs, RunThread(n) PROVE TypeOK'
  <2>1. CASE Started(n)
    <3>1. "started" \in Events /\ "started" \in Steps
      BY DEF Events, Steps
    <3> QED BY <2>1, <3>1, EmitType DEF Started, TypeOK
  <2>2. CASE Phase(n)
    <3>1. /\ {"preparing", "running", "collecting", "closing"} \subseteq Steps
          /\ {"preparing", "running", "collecting", "done", "error"} \subseteq Events
      BY DEF Steps, Events, Terminal
    <3>2. left' \in [MishapKinds -> Nat] /\ registered' \subseteq Runs
      BY <2>2 DEF Phase, TypeOK
    <3> QED BY <2>2, <3>1, <3>2, EmitType DEF Phase
  <2>3. CASE CloseRun(n)
    BY <2>3 DEF CloseRun, TypeOK, Steps, pageVars, serverVars
  <2> QED BY <1>5, <2>1, <2>2, <2>3 DEF RunThread
<1>6. ASSUME NEW n \in Runs, Stream(n) PROVE TypeOK'
  <2>1. CASE OpenStream(n)
    BY <2>1 DEF OpenStream, TypeOK
  <2>2. CASE Send(n)
    <3>1. wire' \in Seq(Events)
      BY <2>2, TakeType, AppendFacts DEF Send, TypeOK
    <3> QED BY <2>2, <3>1, TakeType DEF Send, TypeOK
  <2> QED BY <1>6, <2>1, <2>2 DEF Stream
<1>7. ASSUME NEW n \in Runs, Raise(n) PROVE TypeOK'
  <2>1. left' \in [MishapKinds -> Nat] /\ registered' \subseteq Runs
    BY <1>7, BefallType DEF Raise, TypeOK, MishapKinds
  <2>2. "error" \in Events /\ "closing" \in Steps
    BY DEF Events, Terminal, Steps
  <2> QED BY <1>7, <2>1, <2>2, EmitType DEF Raise
<1>8. ASSUME NEW n \in Runs, FailToConnect(n) PROVE TypeOK'
  <2>1. left' \in [MishapKinds -> Nat]
    BY <1>8, BefallType DEF FailToConnect, MishapKinds
  <2> QED BY <1>8, <2>1 DEF FailToConnect, TypeOK, Steps, pageVars, serverVars
<1>9. ASSUME NEW n \in Runs, Sample(n) PROVE TypeOK'
  <2>1. "sample" \in Events
    BY DEF Events
  <2> QED BY <1>9, <2>1, PutType DEF Sample, TypeOK, pageVars
<1>10. ASSUME NEW n \in Runs, Swallow(n) PROVE TypeOK'
  BY <1>10, TakeType DEF Swallow, TypeOK, pageVars
<1>11. ASSUME NEW n \in Runs, Cancel(n) PROVE TypeOK'
  BY <1>11 DEF Cancel, TypeOK, pageVars
<1>12. CASE Drop
  <2>1. left' \in [MishapKinds -> Nat]
    BY <1>12, BefallType DEF Drop, MishapKinds
  <2> QED BY <1>12, <2>1 DEF Drop, Unsubscribe, TypeOK
<1>13. CASE Handle
  <2>1. /\ wire \in Seq(Events) /\ wire # << >>
        /\ Head(wire) \in Events /\ Tail(wire) \in Seq(Events)
    BY <1>13, TailFacts DEF Handle, TypeOK
  <2>2. seen' \in [Runs -> Seq(Events)]
    BY <1>13, <2>1, AppendFacts DEF Handle, TypeOK
  <2>3. shown' \in {"idle", "preparing", "running", "collecting"} \cup Terminal
    BY <1>13 DEF Handle, TypeOK
  <2>4. /\ runId' \in Runs \cup {NoRun} /\ link' \in {"connecting", "open", "closed"}
        /\ wire' \in Seq(Events)
        /\ streaming' \in [Runs -> BOOLEAN] /\ orphan' \in [Runs -> BOOLEAN]
    <3>1. CASE Head(wire) \in Terminal
      <4>1. runId' = NoRun /\ link' = "closed" /\ Unsubscribe
        BY <1>13, <3>1 DEF Handle
      <4> QED BY <4>1 DEF Unsubscribe, TypeOK
    <3>2. CASE Head(wire) \notin Terminal
      <4>1. wire' = Tail(wire) /\ UNCHANGED <<runId, link, streaming, orphan>>
        BY <1>13, <3>2 DEF Handle
      <4> QED BY <4>1, <2>1 DEF TypeOK
    <3> QED BY <3>1, <3>2
  <2> QED BY <1>13, <2>2, <2>3, <2>4 DEF Handle, TypeOK
<1> QED BY <1>1, <1>2, <1>3, <1>4, <1>5, <1>6, <1>7, <1>8, <1>9, <1>10, <1>11, <1>12, <1>13 DEF Next

(***************************************************************************)
(* Every variable of the run console has its type.                         *)
(***************************************************************************)
THEOREM ConsoleTyped == Spec => []TypeOK
<1>1. Init => TypeOK
  BY ConsoleAssumption DEF Init, TypeOK, Posts, Steps
<1> QED BY <1>1, TypeStep, PTL DEF Spec

-----------------------------------------------------------------------------

LEMMA Ranks ==
  /\ \A p : Rank(p) \in 0..4 /\ Floor(p) \in 1..4
  /\ \A p \in Phases : Rank(p) >= 1
  /\ Rank("preparing") = 1 /\ Rank("running") = 2 /\ Rank("collecting") = 3
  /\ Rank("done") = 4 /\ Rank("error") = 4
<1>1. \A p : Rank(p) \in 0..4
  BY DEF Rank
<1>2. \A p : Floor(p) \in 1..4
  BY DEF Floor
<1> QED BY <1>1, <1>2 DEF Phases, Terminal, Rank

(***************************************************************************)
(* What a step is to the streams: an event is put in a queue that fits     *)
(* where the thread is, nothing moves, or one of the actions that move     *)
(* events.                                                                 *)
(***************************************************************************)
Fits(n, e) == e \in Phases => Floor(thread[n]) <= Rank(e) /\ Rank(e) <= Floor(thread'[n])

Grow(n, e) == Put(n, e) /\ Fits(n, e) /\ UNCHANGED <<pageVars, streaming, orphan, post>>

Rest ==
    /\ UNCHANGED <<pageVars, queue, emitted, streaming, Answered>>
    /\ \A n \in Runs : orphan'[n] => orphan[n]

Move(n) == Click(n) \/ Subscribe(n) \/ PostFailed(n) \/ OpenStream(n) \/ Send(n) \/ Swallow(n)

LEMMA RouteRests == ASSUME TypeOK, NEW n \in Runs, Route(n) PROVE Rest
<1>1. UNCHANGED <<pageVars, serverVars>>
  BY DEF Route, Refuse, Accept, Answer
<1>2. \E p \in {"error", "waiting", "ok"} : post' = [post EXCEPT ![n] = p]
  BY DEF Route, Refuse, Accept, Answer
<1>3. post[n] # "answered"
  BY DEF Route, Refuse, Accept, Answer
<1>4. Answered' = Answered
  BY <1>2, <1>3 DEF Answered, TypeOK
<1> QED BY <1>1, <1>4 DEF Rest, serverVars

LEMMA StepKinds ==
  ASSUME TypeOK, [Next]_vars
  PROVE  \/ \E n \in Runs, e \in Events : Grow(n, e)
         \/ Rest
         \/ \E n \in Runs : Move(n)
         \/ Drop
         \/ Handle
<1>1. {"started", "preparing", "running", "collecting", "done", "error", "sample"} \subseteq Events
  BY DEF Events, Terminal
<1>2. CASE UNCHANGED vars
  BY <1>2 DEF vars, serverVars, Rest, Answered
<1>3. ASSUME NEW n \in Runs, RunThread(n) \/ Raise(n) \/ FailToConnect(n) \/ Sample(n) \/ Cancel(n)
      PROVE  Rest \/ \E e \in Events : Grow(n, e)
  <2>1. CASE CloseRun(n) \/ FailToConnect(n) \/ Cancel(n)
    BY <2>1 DEF CloseRun, FailToConnect, Cancel, Rest, Answered, serverVars, TypeOK
  <2>2. ASSUME NEW p \in Steps, NEW e \in Events, NEW q \in Steps, Emit(n, p, e, q),
               e \in Phases => Floor(p) <= Rank(e) /\ Rank(e) <= Floor(q)
        PROVE  Grow(n, e)
    BY <2>2 DEF Emit, Grow, Fits, TypeOK
  <2>3. CASE Started(n)
    <3>1. "started" \notin Phases /\ {"starting", "started"} \subseteq Steps
      BY DEF Phases, Terminal, Steps
    <3> QED BY <1>1, <2>2, <2>3, <3>1 DEF Started
  <2>4. CASE Phase(n)
    <3>1. {"started", "preparing", "running", "collecting", "closing"} \subseteq Steps
      BY DEF Steps
    <3>2. /\ Floor("started") = 1 /\ Floor("preparing") = 1 /\ Floor("running") = 2
          /\ Floor("collecting") = 3 /\ Floor("closing") = 4
      BY DEF Floor
    <3> QED BY <1>1, <2>2, <2>4, <3>1, <3>2, Ranks DEF Phase
  <2>5. CASE Raise(n)
    <3>1. Floor("closing") = 4 /\ \A p : Floor(p) <= 4
      BY Ranks DEF Floor
    <3>2. {"started", "preparing", "running", "collecting", "closing"} \subseteq Steps
      BY DEF Steps
    <3> QED BY <1>1, <2>2, <2>5, <3>1, <3>2, Ranks DEF Raise
  <2>6. CASE Sample(n)
    <3>1. "sample" \notin Phases
      BY DEF Phases, Terminal
    <3> QED BY <1>1, <2>6, <3>1 DEF Sample, Grow, Fits
  <2> QED BY <1>3, <2>1, <2>3, <2>4, <2>5, <2>6 DEF RunThread
<1>4. ASSUME NEW n \in Runs, Route(n) PROVE Rest
  BY <1>4, RouteRests
<1>5. ASSUME NEW n \in Runs, Click(n) \/ Page(n) \/ Stream(n) \/ Swallow(n) PROVE Move(n)
  BY <1>5 DEF Page, Stream, Move
<1> QED BY <1>2, <1>3, <1>4, <1>5 DEF Next

(***************************************************************************)
(* The two ways of onmessage.                                              *)
(***************************************************************************)
LEMMA HandleFacts ==
  ASSUME TypeOK, Followed, Handle
  PROVE  /\ source \in Runs /\ link = "open" /\ wire # << >>
         /\ Head(wire) \in Events /\ Tail(wire) \in Seq(Events)
         /\ seen' = [seen EXCEPT ![source] = Append(@, Head(wire))]
         /\ UNCHANGED <<source, registered, queue, emitted, post, thread, left>>
         /\ \/ /\ Head(wire) \in Terminal
               /\ runId' = NoRun /\ link' = "closed" /\ wire' = << >>
               /\ \A n \in Runs : ~streaming'[n]
               /\ \A n \in Runs : orphan'[n] <=> orphan[n] \/ streaming[n]
            \/ /\ Head(wire) \notin Terminal
               /\ wire' = Tail(wire) /\ UNCHANGED <<runId, link, streaming, orphan>>
<1>1. wire \in Seq(Events) /\ wire # << >>
  BY DEF TypeOK, Handle
<1>2. Head(wire) \in Events /\ Tail(wire) \in Seq(Events)
  BY <1>1, TailFacts
<1>3. source \in Runs
  BY DEF Handle, Followed, TypeOK
<1>4. CASE Head(wire) \in Terminal
  BY <1>1, <1>2, <1>3, <1>4 DEF Handle, Unsubscribe
<1>5. CASE Head(wire) \notin Terminal
  BY <1>1, <1>2, <1>3, <1>5 DEF Handle
<1> QED BY <1>4, <1>5

LEMMA FollowedStep == ASSUME TypeOK, Followed, [Next]_vars PROVE Followed'
<1>1. ASSUME NEW n \in Runs, NEW e \in Events, Grow(n, e) PROVE Followed'
  BY <1>1 DEF Grow, Put, pageVars, Followed, TypeOK
<1>2. CASE Rest
  <2>1. \A n \in Runs : post'[n] = "answered" <=> post[n] = "answered"
    BY <1>2 DEF Rest, Answered
  <2> QED BY <1>2, <2>1 DEF Rest, pageVars, Followed, TypeOK
<1>3. ASSUME NEW n \in Runs, Click(n) \/ PostFailed(n) PROVE Followed'
  <2>1. CASE Click(n)
    BY <2>1 DEF Click, serverVars, Followed, TypeOK
  <2>2. CASE PostFailed(n)
    BY <2>2 DEF PostFailed, serverVars, Followed, TypeOK
  <2> QED BY <1>3, <2>1, <2>2
<1>4. ASSUME NEW n \in Runs, Subscribe(n) PROVE Followed'
  <2>1. /\ runId' = n /\ source' = n /\ link' = "connecting" /\ wire' = << >> /\ n # NoRun
        /\ post'[n] = "answered" /\ \A m \in Runs : ~streaming'[m]
    BY <1>4 DEF Subscribe, Unsubscribe, TypeOK, Runs, NoRun
  <2>2. ASSUME NEW m \in Runs, post'[m] # "answered"
        PROVE  seen'[m] = << >> /\ queue'[m] = emitted'[m] /\ ~orphan'[m]
    <3>1. m # n /\ post[m] # "answered"
      BY <1>4, <2>1, <2>2 DEF Subscribe, TypeOK
    <3>2. seen[m] = << >> /\ queue[m] = emitted[m] /\ ~orphan[m] /\ ~streaming[m]
      BY <3>1 DEF Followed
    <3> QED BY <1>4, <3>2 DEF Subscribe, Unsubscribe
  <2> QED BY <2>1, <2>2 DEF Followed
<1>5. ASSUME NEW n \in Runs, OpenStream(n) PROVE Followed'
  BY <1>5 DEF OpenStream, Followed, TypeOK, Runs, NoRun
<1>6. ASSUME NEW n \in Runs, Send(n) PROVE Followed'
  BY <1>6 DEF Send, Take, Followed, TypeOK, Runs, NoRun
<1>7. ASSUME NEW n \in Runs, Swallow(n) PROVE Followed'
  BY <1>7 DEF Swallow, Take, TakeCut, pageVars, Followed, TypeOK
<1>8. CASE Drop
  BY <1>8 DEF Drop, Unsubscribe, Followed, TypeOK
<1>9. CASE Handle
  BY <1>9, HandleFacts DEF Followed, TypeOK, Runs, NoRun
<1> QED BY <1>1, <1>2, <1>3, <1>4, <1>5, <1>6, <1>7, <1>8, <1>9, StepKinds DEF Move

-----------------------------------------------------------------------------

LEMMA EndingEmpty == Ending(<< >>) = {}
BY DEF Ending

LEMMA EndingAppend ==
  ASSUME NEW s \in Seq(Events), NEW x \in Events, Ending(s) = {}
  PROVE  /\ Ending(Append(s, x)) \subseteq {Len(Append(s, x))}
         /\ Ending(Append(s, x)) # {} => x \in Terminal
<1>1. \A i \in 1..Len(s) : s[i] \notin Terminal
  BY AppendFacts DEF Ending
<1> QED BY <1>1, AppendFacts DEF Ending

LEMMA EndingTail ==
  ASSUME NEW s \in Seq(Events), s # << >>, Ending(s) \subseteq {Len(s)}
  PROVE  /\ Ending(Tail(s)) \subseteq {Len(Tail(s))}
         /\ Ending(Tail(s)) # {} => Ending(s) # {}
         /\ Head(s) \in Terminal => Ending(s) # {}
<1>1. \A i \in Ending(Tail(s)) : i + 1 \in Ending(s)
  BY TailFacts DEF Ending
<1>2. Head(s) \in Terminal => 1 \in Ending(s)
  BY TailFacts DEF Ending
<1>3. Len(s) \in Nat /\ Len(Tail(s)) = Len(s) - 1 /\ \A i \in Ending(Tail(s)) : i \in Int
  BY TailFacts DEF Ending
<1> QED BY <1>1, <1>2, <1>3

LEMMA EndsStep == ASSUME TypeOK, Followed, EndsOnce, [Next]_vars PROVE EndsOnce'
<1>1. ASSUME NEW n \in Runs, NEW e \in Events, Grow(n, e) PROVE EndsOnce'
  BY <1>1 DEF Grow, pageVars, EndsOnce, Ending
<1>2. CASE Rest
  BY <1>2 DEF Rest, pageVars, EndsOnce, Ending
<1>3. ASSUME NEW n \in Runs, Click(n) \/ PostFailed(n) PROVE EndsOnce'
  BY <1>3 DEF Click, PostFailed, serverVars, EndsOnce, Ending
<1>4. ASSUME NEW n \in Runs, Subscribe(n) PROVE EndsOnce'
  <2>1. seen[n] = << >> /\ UNCHANGED seen /\ wire' = << >> /\ source' = n
    BY <1>4 DEF Subscribe, Unsubscribe, Followed
  <2>2. \A m \in Runs : ~streaming'[m]
    BY <1>4 DEF Subscribe, Unsubscribe
  <2> QED BY <2>1, <2>2, EndingEmpty DEF EndsOnce, Ending
<1>5. ASSUME NEW n \in Runs, OpenStream(n) PROVE EndsOnce'
  <2>1. wire = << >> /\ link = "connecting" /\ source = n /\ UNCHANGED <<wire, source, seen>>
    BY <1>5 DEF OpenStream, Followed
  <2>2. Ending(wire) = {} /\ Ending(wire') = {}
    BY <2>1, EndingEmpty
  <2> QED BY <2>1, <2>2 DEF EndsOnce, Ending
<1>6. ASSUME NEW n \in Runs, Send(n) PROVE EndsOnce'
  <2>1. /\ streaming[n] /\ UNCHANGED <<source, link, seen>>
        /\ wire' = Append(wire, Head(queue[n])) /\ Head(queue[n]) \in Events /\ wire \in Seq(Events)
        /\ streaming' = [streaming EXCEPT ![n] = Head(queue[n]) \notin Terminal]
    BY <1>6, TakeType DEF Send, TypeOK
  <2>2. Ending(wire) = {}
    BY <2>1 DEF EndsOnce
  <2>3. Ending(wire') \subseteq {Len(wire')} /\ (Ending(wire') # {} => Head(queue[n]) \in Terminal)
    BY <2>1, <2>2, EndingAppend
  <2>4. \A m \in Runs : streaming'[m] => m = n /\ Head(queue[n]) \notin Terminal
    BY <2>1 DEF Followed, TypeOK
  <2> QED BY <2>1, <2>3, <2>4 DEF EndsOnce, Ending
<1>7. ASSUME NEW n \in Runs, Swallow(n) PROVE EndsOnce'
  BY <1>7 DEF Swallow, pageVars, EndsOnce, Ending
<1>8. CASE Drop
  <2>1. wire' = << >> /\ UNCHANGED <<source, seen>> /\ link = "open"
    BY <1>8 DEF Drop, Unsubscribe
  <2> QED BY <2>1, EndingEmpty DEF EndsOnce, Ending
<1>9. CASE Handle
  <2>1. wire \in Seq(Events) /\ wire # << >> /\ seen[source] \in Seq(Events) /\ Ending(seen[source]) = {}
    BY <1>9, HandleFacts DEF TypeOK, EndsOnce
  <2>2. /\ Ending(seen'[source]) \subseteq {Len(seen'[source])}
        /\ Ending(seen'[source]) # {} => Head(wire) \in Terminal
    <3>1. seen'[source] = Append(seen[source], Head(wire)) /\ Head(wire) \in Events
      BY <1>9, HandleFacts DEF TypeOK
    <3> QED BY <2>1, <3>1, EndingAppend
  <2>3. \A n \in Runs : n # source => seen'[n] = seen[n]
    BY <1>9, HandleFacts DEF TypeOK
  <2>4. /\ Ending(Tail(wire)) \subseteq {Len(Tail(wire))}
        /\ Ending(Tail(wire)) # {} => Ending(wire) # {}
    BY <2>1, EndingTail DEF EndsOnce
  <2>5. source' = source /\ (Head(wire) \in Terminal => link' = "closed")
    BY <1>9, HandleFacts
  <2>6. /\ Ending(wire') \subseteq {Len(wire')}
        /\ Ending(wire') # {} => \A n \in Runs : ~streaming'[n]
    BY <1>9, HandleFacts, <2>4, EndingEmpty DEF EndsOnce
  <2>7. ASSUME NEW n \in Runs
        PROVE  /\ Ending(seen'[n]) \subseteq {Len(seen'[n])}
               /\ Ending(seen'[n]) # {} /\ source' = n => link' = "closed"
    BY <2>2, <2>3, <2>5 DEF EndsOnce
  <2> QED BY <2>6, <2>7 DEF EndsOnce, Ending
<1> QED BY <1>1, <1>2, <1>3, <1>4, <1>5, <1>6, <1>7, <1>8, <1>9, StepKinds DEF Move

LEMMA NoneTwiceStep ==
  ASSUME TypeOK, TypeOK', Followed, NoneTwice, [Next]_vars
  PROVE  NoneTwice'
<1> SUFFICES ASSUME NEW m \in Runs, NEW e \in Events
             PROVE  Count(seen'[m], e) + Count(OnWire(m)', e) + Count(queue'[m], e)
                       <= Count(emitted'[m], e)
  BY DEF NoneTwice
<1>a. Count(seen[m], e) + Count(OnWire(m), e) + Count(queue[m], e) <= Count(emitted[m], e)
  BY DEF NoneTwice
<1>b. /\ seen[m] \in Seq(Events) /\ queue[m] \in Seq(Events) /\ emitted[m] \in Seq(Events)
      /\ OnWire(m) \in Seq(Events) /\ wire \in Seq(Events)
  BY DEF TypeOK, OnWire
<1>c. /\ Count(seen[m], e) \in Nat /\ Count(queue[m], e) \in Nat /\ Count(emitted[m], e) \in Nat
      /\ Count(OnWire(m), e) \in Nat
  BY <1>b, CountIsNat
<1>d. Count(<< >>, e) = 0
  BY CountEmpty
\* The wire is lost, and nothing else moves.
<1>e. ASSUME wire' = << >>, UNCHANGED <<seen, queue, emitted>>
      PROVE  Count(seen'[m], e) + Count(OnWire(m)', e) + Count(queue'[m], e) <= Count(emitted'[m], e)
  <2>1. OnWire(m)' = << >>
    BY <1>e DEF OnWire
  <2> QED BY <2>1, <1>a, <1>c, <1>d, <1>e
<1>1. ASSUME NEW n \in Runs, NEW x \in Events, Grow(n, x)
      PROVE  Count(seen'[m], e) + Count(OnWire(m)', e) + Count(queue'[m], e) <= Count(emitted'[m], e)
  <2>1. seen' = seen /\ OnWire(m)' = OnWire(m)
    BY <1>1 DEF Grow, pageVars, OnWire
  <2>2. CASE n = m
    <3>1. queue'[m] = Append(queue[m], x) /\ emitted'[m] = Append(emitted[m], x)
      BY <1>1, <2>2 DEF Grow, Put, TypeOK
    <3>2. /\ Count(queue'[m], e) = Count(queue[m], e) + IF x = e THEN 1 ELSE 0
          /\ Count(emitted'[m], e) = Count(emitted[m], e) + IF x = e THEN 1 ELSE 0
      BY <3>1, <1>b, CountAppend
    <3> QED BY <2>1, <3>2, <1>a, <1>c
  <2>3. CASE n # m
    <3>1. queue'[m] = queue[m] /\ emitted'[m] = emitted[m]
      BY <1>1, <2>3 DEF Grow, Put, TypeOK
    <3> QED BY <2>1, <3>1, <1>a
  <2> QED BY <2>2, <2>3
<1>2. ASSUME UNCHANGED <<source, wire, seen, queue, emitted>>
      PROVE  Count(seen'[m], e) + Count(OnWire(m)', e) + Count(queue'[m], e) <= Count(emitted'[m], e)
  <2>1. OnWire(m)' = OnWire(m)
    BY <1>2 DEF OnWire
  <2> QED BY <2>1, <1>2, <1>a
<1>3. ASSUME NEW n \in Runs, Send(n)
      PROVE  Count(seen'[m], e) + Count(OnWire(m)', e) + Count(queue'[m], e) <= Count(emitted'[m], e)
  <2>1. /\ queue[n] # << >> /\ queue' = [queue EXCEPT ![n] = Tail(@)] /\ source = n
        /\ wire' = Append(wire, Head(queue[n])) /\ UNCHANGED <<source, seen, emitted>>
    BY <1>3 DEF Send, Take, Followed
  <2>2. CASE n = m
    <3>1. /\ queue'[m] = Tail(queue[m]) /\ queue[m] # << >> /\ Head(queue[m]) \in Events
          /\ OnWire(m) = wire /\ OnWire(m)' = Append(wire, Head(queue[m]))
      BY <2>1, <2>2, <1>b, TailFacts DEF OnWire, TypeOK
    <3>2. /\ Count(queue[m], e) = Count(queue'[m], e) + IF Head(queue[m]) = e THEN 1 ELSE 0
          /\ Count(OnWire(m)', e) = Count(OnWire(m), e) + IF Head(queue[m]) = e THEN 1 ELSE 0
      BY <3>1, <1>b, CountAppend, CountTail
    <3>3. Count(queue'[m], e) \in Nat
      BY CountIsNat DEF TypeOK
    <3> QED BY <2>1, <3>2, <3>3, <1>a, <1>c
  <2>3. CASE n # m
    <3>1. queue'[m] = queue[m] /\ OnWire(m) = << >> /\ OnWire(m)' = << >>
      BY <2>1, <2>3 DEF OnWire, TypeOK
    <3> QED BY <2>1, <3>1, <1>a
  <2> QED BY <2>2, <2>3
<1>4. ASSUME NEW n \in Runs, Swallow(n)
      PROVE  Count(seen'[m], e) + Count(OnWire(m)', e) + Count(queue'[m], e) <= Count(emitted'[m], e)
  <2>1. /\ queue[n] # << >> /\ queue' = [queue EXCEPT ![n] = Tail(@)]
        /\ OnWire(m)' = OnWire(m) /\ UNCHANGED <<seen, emitted>>
    BY <1>4 DEF Swallow, Take, TakeCut, pageVars, OnWire
  <2>2. CASE n = m
    <3>1. queue'[m] = Tail(queue[m]) /\ queue[m] # << >>
      BY <2>1, <2>2 DEF TypeOK
    <3>2. Count(queue[m], e) = Count(queue'[m], e) + IF Head(queue[m]) = e THEN 1 ELSE 0
      BY <3>1, <1>b, CountTail
    <3>3. Count(queue'[m], e) \in Nat
      BY CountIsNat DEF TypeOK
    <3> QED BY <2>1, <3>2, <3>3, <1>a, <1>c
  <2>3. CASE n # m
    <3>1. queue'[m] = queue[m]
      BY <2>1, <2>3 DEF TypeOK
    <3> QED BY <2>1, <3>1, <1>a
  <2> QED BY <2>2, <2>3
<1>5. CASE Handle
  <2>1. /\ wire # << >> /\ UNCHANGED <<source, queue, emitted>> /\ Head(wire) \in Events
        /\ seen' = [seen EXCEPT ![source] = Append(@, Head(wire))] /\ wire' \in {<< >>, Tail(wire)}
    BY <1>5, HandleFacts
  <2>2. CASE source = m
    <3>1. OnWire(m) = wire /\ OnWire(m)' = wire' /\ seen'[m] = Append(seen[m], Head(wire))
      BY <2>1, <2>2 DEF OnWire, TypeOK
    <3>2. /\ Count(wire, e) = Count(Tail(wire), e) + IF Head(wire) = e THEN 1 ELSE 0
          /\ Count(seen'[m], e) = Count(seen[m], e) + IF Head(wire) = e THEN 1 ELSE 0
      BY <2>1, <3>1, <1>b, CountTail, CountAppend
    <3>3. Count(Tail(wire), e) \in Nat
      BY <2>1, <1>b, TailFacts, CountIsNat
    <3>4. Count(wire', e) <= Count(Tail(wire), e)
      <4>1. CASE wire' = << >>
        <5>1. Count(wire', e) = 0
          BY <4>1, CountEmpty
        <5> QED BY <5>1, <3>3
      <4>2. CASE wire' = Tail(wire)
        <5>1. Count(wire', e) = Count(Tail(wire), e)
          BY <4>2
        <5> QED BY <5>1, <3>3
      <4> QED BY <2>1, <4>1, <4>2
    <3>5. Count(wire', e) \in Nat
      BY CountIsNat DEF TypeOK
    <3> QED BY <2>1, <3>1, <3>2, <3>3, <3>4, <3>5, <1>a, <1>c
  <2>3. CASE source # m
    <3>1. seen'[m] = seen[m] /\ OnWire(m) = << >> /\ OnWire(m)' = << >>
      BY <2>1, <2>3 DEF OnWire, TypeOK
    <3> QED BY <2>1, <3>1, <1>a
  <2> QED BY <2>2, <2>3
<1>6. CASE Rest
  BY <1>6, <1>2 DEF Rest, pageVars
<1>7. ASSUME NEW n \in Runs, Click(n) \/ PostFailed(n) \/ OpenStream(n)
      PROVE  UNCHANGED <<source, wire, seen, queue, emitted>>
  BY <1>7 DEF Click, PostFailed, OpenStream, serverVars
<1>8. ASSUME Drop \/ \E n \in Runs : Subscribe(n)
      PROVE  wire' = << >> /\ UNCHANGED <<seen, queue, emitted>>
  BY <1>8 DEF Drop, Subscribe, Unsubscribe
<1> QED BY <1>1, <1>2, <1>3, <1>4, <1>5, <1>6, <1>7, <1>8, <1>e, StepKinds DEF Move

LEMMA ConsoleInit == Init => ConsoleInv
<1> SUFFICES ASSUME Init PROVE ConsoleInv
  OBVIOUS
<1>1. TypeOK
  BY ConsoleAssumption DEF Init, TypeOK, Posts, Steps
<1>2. Followed
  BY DEF Init, Followed
<1>3. EndsOnce
  BY EndingEmpty DEF Init, EndsOnce
<1>4. NoneTwice
  <2> SUFFICES ASSUME NEW n \in Runs, NEW e \in Events
               PROVE  Count(seen[n], e) + Count(OnWire(n), e) + Count(queue[n], e)
                         <= Count(emitted[n], e)
    BY DEF NoneTwice
  <2>1. seen[n] = << >> /\ OnWire(n) = << >> /\ queue[n] = << >> /\ emitted[n] = << >>
    BY DEF Init, OnWire
  <2>2. Count(<< >>, e) = 0
    BY CountEmpty
  <2> QED BY <2>1, <2>2
<1> QED BY <1>1, <1>2, <1>3, <1>4 DEF ConsoleInv

LEMMA ConsoleStep == ConsoleInv /\ [Next]_vars => ConsoleInv'
BY TypeStep, FollowedStep, EndsStep, NoneTwiceStep DEF ConsoleInv

LEMMA ConsoleAlways == Spec => []ConsoleInv
BY ConsoleInit, ConsoleStep, PTL DEF Spec

(***************************************************************************)
(* Whatever breaks and however often, and whoever clicks twice, the page   *)
(* handles no event of a run twice and none after the last.                *)
(***************************************************************************)
THEOREM EventsHandledOnce == Spec => []HandledOnce
<1>1. ConsoleInv => HandledOnce
  <2> SUFFICES ASSUME ConsoleInv, NEW n \in Runs
               PROVE  /\ \A e \in Events : Count(seen[n], e) <= Count(emitted[n], e)
                      /\ Ending(seen[n]) \subseteq {Len(seen[n])}
    BY DEF HandledOnce
  <2>1. ASSUME NEW e \in Events PROVE Count(seen[n], e) <= Count(emitted[n], e)
    <3>1. Count(seen[n], e) + Count(OnWire(n), e) + Count(queue[n], e) <= Count(emitted[n], e)
      BY DEF ConsoleInv, NoneTwice
    <3>2. /\ seen[n] \in Seq(Events) /\ OnWire(n) \in Seq(Events) /\ queue[n] \in Seq(Events)
          /\ emitted[n] \in Seq(Events)
      BY DEF ConsoleInv, TypeOK, OnWire
    <3>3. /\ Count(seen[n], e) \in Nat /\ Count(OnWire(n), e) \in Nat
          /\ Count(queue[n], e) \in Nat /\ Count(emitted[n], e) \in Nat
      BY <3>2, CountIsNat
    <3> QED BY <3>1, <3>3
  <2> QED BY <2>1 DEF ConsoleInv, EndsOnce
<1> QED BY <1>1, ConsoleAlways, PTL

-----------------------------------------------------------------------------

(***************************************************************************)
(* Nothing is lost on a connection that does not break.                    *)
(***************************************************************************)
LEMMA ConcatAppend ==
  ASSUME NEW s \in Seq(Events), NEW t \in Seq(Events), NEW u \in Seq(Events), NEW x \in Events
  PROVE  s \o t \o Append(u, x) = Append(s \o t \o u, x)
OBVIOUS

LEMMA ConcatMove ==
  ASSUME NEW s \in Seq(Events), NEW t \in Seq(Events), t # << >>
  PROVE  Append(s, Head(t)) \o Tail(t) = s \o t
<1> DEFINE l == Append(s, Head(t)) \o Tail(t)
           r == s \o t
<1>1. Append(s, Head(t)) \in Seq(Events) /\ Tail(t) \in Seq(Events)
  BY TailFacts, AppendFacts
<1>2. l \in Seq(Events) /\ r \in Seq(Events)
  BY <1>1, ConcatProperties
<1>3. Len(l) = Len(s) + 1 + (Len(t) - 1) /\ Len(r) = Len(s) + Len(t) /\ Len(l) = Len(r)
  BY <1>1, ConcatProperties, TailFacts, AppendFacts
<1>4. ASSUME NEW i \in 1..Len(l) PROVE l[i] = r[i]
  <2>1. l[i] = IF i <= Len(s) + 1 THEN Append(s, Head(t))[i] ELSE Tail(t)[i - (Len(s) + 1)]
    BY <1>1, <1>3, ConcatProperties, TailFacts, AppendFacts
  <2>2. r[i] = IF i <= Len(s) THEN s[i] ELSE t[i - Len(s)]
    BY <1>3, ConcatProperties
  <2> QED BY <2>1, <2>2, <1>3, TailFacts, AppendFacts
<1> HIDE DEF l, r
<1>5. l = r
  BY <1>2, <1>3, <1>4, SeqEqual
<1> QED BY <1>5 DEF l, r

\* A mishap that may not happen any more will not.
LEMMA LeftStaysZero ==
  ASSUME TypeOK, [Next]_vars, NEW k \in MishapKinds, left[k] = 0
  PROVE  left'[k] = 0
<1>1. ASSUME NEW j \in MishapKinds, Befall(j) PROVE left'[k] = 0
  BY <1>1 DEF Befall, TypeOK
<1>2. CASE UNCHANGED left
  BY <1>2
<1>3. UNCHANGED left \/ \E j \in MishapKinds : Befall(j)
  BY DEF Next, vars, Click, Page, Subscribe, PostFailed, Route, Refuse, Accept, Answer, RunThread,
         Started, Phase, CloseRun, Stream, OpenStream, Send, Raise, FailToConnect, Sample, Swallow,
         Cancel, Drop, Handle, MishapKinds
<1> QED BY <1>1, <1>2, <1>3

LEMMA UnbrokenStep ==
  ASSUME TypeOK, Followed, Unbroken, [Next]_vars
  PROVE  Unbroken'
<1>a. left'["drop"] = 0
  BY LeftStaysZero DEF Unbroken, MishapKinds
<1> SUFFICES ASSUME source' # NoRun, link' # "closed"
             PROVE  /\ seen'[source'] \o wire' \o queue'[source'] = emitted'[source']
                    /\ ~orphan'[source']
  BY <1>a DEF Unbroken
<1> DEFINE Goal == /\ seen'[source'] \o wire' \o queue'[source'] = emitted'[source']
                   /\ ~orphan'[source']
<1>b. ASSUME source # NoRun, link # "closed"
      PROVE  /\ seen[source] \o wire \o queue[source] = emitted[source] /\ ~orphan[source]
             /\ source \in Runs /\ wire \in Seq(Events) /\ seen[source] \in Seq(Events)
             /\ queue[source] \in Seq(Events) /\ emitted[source] \in Seq(Events)
  BY <1>b DEF Unbroken, TypeOK
<1>1. ASSUME NEW n \in Runs, NEW e \in Events, Grow(n, e) PROVE Goal
  <2>1. UNCHANGED <<source, link, wire, seen, orphan>>
    BY <1>1 DEF Grow, pageVars
  <2>2. CASE source = n
    <3>1. queue'[n] = Append(queue[n], e) /\ emitted'[n] = Append(emitted[n], e)
      BY <1>1 DEF Grow, Put, TypeOK
    <3>2. seen[n] \o wire \o Append(queue[n], e) = Append(seen[n] \o wire \o queue[n], e)
      <4>1. seen[n] \in Seq(Events) /\ wire \in Seq(Events) /\ queue[n] \in Seq(Events)
        BY DEF TypeOK
      <4> QED BY <4>1, ConcatAppend
    <3> QED BY <2>1, <2>2, <3>1, <3>2, <1>b
  <2>3. CASE source # n
    BY <1>1, <2>1, <2>3, <1>b DEF Grow, Put, TypeOK
  <2> QED BY <2>2, <2>3
<1>2. CASE Rest
  BY <1>2, <1>b DEF Rest, pageVars
<1>3. ASSUME NEW n \in Runs, Click(n) \/ PostFailed(n) PROVE Goal
  BY <1>3, <1>b DEF Click, PostFailed, serverVars
<1>4. ASSUME NEW n \in Runs, Subscribe(n) PROVE Goal
  <2>1. /\ source' = n /\ wire' = << >> /\ UNCHANGED <<seen, queue, emitted>>
        /\ orphan'[n] <=> orphan[n] \/ streaming[n]
    BY <1>4 DEF Subscribe, Unsubscribe
  <2>2. post[n] # "answered" /\ seen[n] = << >> /\ queue[n] = emitted[n] /\ ~orphan[n]
    BY <1>4 DEF Subscribe, Followed
  <2>3. ~streaming[n]
    BY <2>2 DEF Followed, Runs, NoRun
  <2>4. << >> \o << >> \o queue[n] = queue[n]
    <3>1. queue[n] \in Seq(Events) /\ << >> \in Seq(Events)
      BY DEF TypeOK
    <3> QED BY <3>1, ConcatEmptySeq
  <2> QED BY <2>1, <2>2, <2>3, <2>4
<1>5. ASSUME NEW n \in Runs, OpenStream(n) PROVE Goal
  BY <1>5, <1>b DEF OpenStream
<1>6. ASSUME NEW n \in Runs, Send(n) PROVE Goal
  <2>1. /\ source = n /\ queue[n] # << >> /\ queue' = [queue EXCEPT ![n] = Tail(@)]
        /\ wire' = Append(wire, Head(queue[n])) /\ UNCHANGED <<source, link, seen, emitted, orphan>>
    BY <1>6 DEF Send, Take, Followed
  <2>2. queue'[n] = Tail(queue[n]) /\ Tail(queue[n]) \in Seq(Events) /\ wire' \in Seq(Events)
    BY <2>1, TailFacts, AppendFacts DEF TypeOK
  <2>3. wire' \o queue'[n] = wire \o queue[n]
    BY <2>1, <2>2, ConcatMove DEF TypeOK
  <2>4. (seen[n] \o wire') \o queue'[n] = (seen[n] \o wire) \o queue[n]
    <3>1. seen[n] \in Seq(Events) /\ wire \in Seq(Events) /\ queue[n] \in Seq(Events)
      BY DEF TypeOK
    <3>2. \A v, u \in Seq(Events) :
             v \o u = wire \o queue[n] => (seen[n] \o v) \o u = (seen[n] \o wire) \o queue[n]
      <4> DEFINE s == seen[n]
                 w == wire
                 q == queue[n]
      <4>1. s \in Seq(Events) /\ w \in Seq(Events) /\ q \in Seq(Events)
        BY <3>1
      <4> HIDE DEF s, w, q
      <4>2. (s \o w) \o q = s \o (w \o q)
        BY <4>1
      <4>3. ASSUME NEW v \in Seq(Events), NEW u \in Seq(Events), v \o u = w \o q
            PROVE  (s \o v) \o u = (s \o w) \o q
        <5>1. (s \o v) \o u = s \o (v \o u)
          BY <4>1
        <5> QED BY <4>2, <4>3, <5>1
      <4> QED BY <4>3 DEF s, w, q
    <3> QED BY <2>2, <2>3, <3>2
  <2> QED BY <2>1, <2>4, <1>b
<1>7. ASSUME NEW n \in Runs, Swallow(n) PROVE Goal
  BY <1>7, <1>b DEF Swallow, Take, TakeCut, pageVars, TypeOK
<1>8. CASE Drop
  BY <1>8 DEF Drop, Befall, Unbroken
<1>9. CASE Handle
  <2>1. /\ source \in Runs /\ link = "open" /\ wire # << >> /\ UNCHANGED <<source, queue, emitted>>
        /\ seen'[source] = Append(seen[source], Head(wire))
        /\ wire' = Tail(wire) /\ UNCHANGED <<link, orphan>>
    BY <1>9, HandleFacts DEF TypeOK
  <2>2. Append(seen[source], Head(wire)) \o Tail(wire) = seen[source] \o wire
    BY <2>1, ConcatMove DEF TypeOK
  <2> QED BY <2>1, <2>2, <1>b
<1> QED BY <1>1, <1>2, <1>3, <1>4, <1>5, <1>6, <1>7, <1>8, <1>9, StepKinds DEF Move

(***************************************************************************)
(* When no connection breaks, what the page has handled of the run it      *)
(* follows, what is on the wire and what waits in the queue are, in this   *)
(* order, what was emitted: whatever the user clicks, however slow the     *)
(* broker is and wherever the run raises.                                  *)
(***************************************************************************)
THEOREM NothingIsLost == ASSUME Mishaps["drop"] = 0 PROVE Spec => []NothingLost
<1>1. Init => Unbroken
  BY DEF Init, Unbroken
<1>2. ConsoleInv /\ Unbroken /\ [Next]_vars => Unbroken'
  BY UnbrokenStep DEF ConsoleInv
<1>3. Unbroken => NothingLost
  BY DEF Unbroken, NothingLost
<1> QED BY <1>1, <1>2, <1>3, ConsoleAlways, PTL DEF Spec

-----------------------------------------------------------------------------

(***************************************************************************)
(* Nobody clicks while a POST is on its way.                               *)
(***************************************************************************)
LEMMA OneAtATimeStep ==
  ASSUME TypeOK, OneAtATime, [Next]_vars
  PROVE  OneAtATime'
<1>a. left'["double"] = 0
  BY LeftStaysZero DEF OneAtATime, MishapKinds
<1>b. ASSUME Pending' \subseteq Pending, runId' \in {runId, NoRun} PROVE OneAtATime'
  BY <1>a, <1>b DEF OneAtATime
<1>1. ASSUME NEW n \in Runs, Click(n) PROVE OneAtATime'
  <2>1. Pending = {}
    BY <1>1 DEF Click, Befall, OneAtATime
  <2>2. Pending' = {n}
    BY <1>1, <2>1 DEF Click, Pending, TypeOK
  <2> QED BY <1>1, <1>a, <2>2 DEF Click, OneAtATime
<1>2. ASSUME NEW n \in Runs, Subscribe(n) PROVE OneAtATime'
  <2>1. n \in Pending /\ Pending' = Pending \ {n}
    BY <1>2 DEF Subscribe, Pending, TypeOK
  <2> QED BY <1>a, <2>1 DEF OneAtATime
<1>3. ASSUME NEW n \in Runs, PostFailed(n) PROVE OneAtATime'
  <2>1. Pending' \subseteq Pending /\ UNCHANGED runId
    BY <1>3 DEF PostFailed, Pending, TypeOK
  <2> QED BY <1>b, <2>1
<1>4. ASSUME NEW n \in Runs, Route(n) PROVE OneAtATime'
  <2>1. /\ UNCHANGED runId /\ post[n] \notin {"new", "answered"}
        /\ \E p \in {"error", "waiting", "ok"} : post' = [post EXCEPT ![n] = p]
    BY <1>4 DEF Route, Refuse, Accept, Answer, pageVars
  <2>2. Pending' \subseteq Pending
    BY <2>1 DEF Pending, TypeOK
  <2> QED BY <1>b, <2>1, <2>2
<1>5. ASSUME UNCHANGED post, runId' \in {runId, NoRun} PROVE OneAtATime'
  BY <1>b, <1>5 DEF Pending
<1>6. ASSUME NEW n \in Runs, RunThread(n) \/ Stream(n) \/ Raise(n) \/ FailToConnect(n)
                                \/ Sample(n) \/ Swallow(n) \/ Cancel(n)
      PROVE  UNCHANGED <<post, runId>>
  BY <1>6 DEF RunThread, Started, Phase, CloseRun, Stream, OpenStream, Send, Raise, FailToConnect,
              Sample, Swallow, Cancel, Emit, pageVars
<1>7. CASE Drop \/ Handle \/ UNCHANGED vars
  <2>1. UNCHANGED post /\ runId' \in {runId, NoRun}
    BY <1>7 DEF Drop, Handle, vars, pageVars
  <2> QED BY <1>5, <2>1
<1> QED BY <1>1, <1>2, <1>3, <1>4, <1>5, <1>6, <1>7 DEF Next, Page

-----------------------------------------------------------------------------

(***************************************************************************)
(* The order of the phases in a sequence of events.                        *)
(***************************************************************************)
LEMMA RankTypes == \A p : Rank(p) \in Nat /\ Floor(p) \in Nat
BY Ranks

LEMMA SeqTypes ==
  ASSUME TypeOK, NEW n \in Runs
  PROVE  queue[n] \in Seq(Events) /\ wire \in Seq(Events)
BY DEF TypeOK

LEMMA InPhaseAppend ==
  ASSUME NEW s \in Seq(Events), NEW x \in Events
  PROVE  /\ \A i \in InPhase(Append(s, x)) :
               \/ i \in InPhase(s) /\ Append(s, x)[i] = s[i] /\ i <= Len(s)
               \/ i = Len(s) + 1 /\ Append(s, x)[i] = x /\ x \in Phases
         /\ Len(s) \in Nat /\ InPhase(Append(s, x)) \subseteq Nat
BY AppendFacts DEF InPhase

LEMMA InPhaseTail ==
  ASSUME NEW s \in Seq(Events), s # << >>
  PROVE  /\ \A i \in InPhase(Tail(s)) : i + 1 \in InPhase(s) /\ Tail(s)[i] = s[i + 1] /\ i \in Nat \ {0}
         /\ Head(s) \in Phases => 1 \in InPhase(s)
         /\ Head(s) = s[1]
BY TailFacts DEF InPhase

LEMMA SortedAppend ==
  ASSUME NEW s \in Seq(Events), NEW x \in Events,
         Sorted(s), x \in Phases => NotAfter(s, Rank(x))
  PROVE  Sorted(Append(s, x))
<1> SUFFICES ASSUME NEW i \in InPhase(Append(s, x)), NEW j \in InPhase(Append(s, x)), i < j
             PROVE  Rank(Append(s, x)[i]) <= Rank(Append(s, x)[j])
  BY DEF Sorted
<1>1. i \in InPhase(s) /\ Append(s, x)[i] = s[i]
  <2>1. Len(s) \in Nat /\ i \in Nat /\ j \in Nat /\ j <= Len(s) + 1
    BY InPhaseAppend
  <2>2. i # Len(s) + 1
    BY <2>1
  <2> QED BY <2>2, InPhaseAppend
<1>2. CASE j \in InPhase(s) /\ Append(s, x)[j] = s[j]
  BY <1>1, <1>2 DEF Sorted
<1>3. CASE Append(s, x)[j] = x /\ x \in Phases
  BY <1>1, <1>3 DEF NotAfter
<1> QED BY <1>2, <1>3, InPhaseAppend

LEMMA BoundsAppend ==
  ASSUME NEW s \in Seq(Events), NEW x \in Events, NEW k \in Nat
  PROVE  /\ NotAfter(s, k) /\ (x \in Phases => Rank(x) <= k) => NotAfter(Append(s, x), k)
         /\ NotBefore(s, k) /\ (x \in Phases => k <= Rank(x)) => NotBefore(Append(s, x), k)
BY InPhaseAppend DEF NotAfter, NotBefore

LEMMA AboveAppend ==
  ASSUME NEW s \in Seq(Events), NEW t \in Seq(Events), NEW x \in Events, Above(s, t)
  PROVE  /\ (x \in Phases => NotAfter(s, Rank(x))) => Above(s, Append(t, x))
         /\ (x \in Phases => NotBefore(t, Rank(x))) => Above(Append(s, x), t)
<1>1. ASSUME x \in Phases => NotAfter(s, Rank(x)), NEW i \in InPhase(s), NEW j \in InPhase(Append(t, x))
      PROVE  Rank(s[i]) <= Rank(Append(t, x)[j])
  <2>1. CASE j \in InPhase(t) /\ Append(t, x)[j] = t[j]
    BY <2>1 DEF Above
  <2>2. CASE Append(t, x)[j] = x /\ x \in Phases
    BY <1>1, <2>2 DEF NotAfter
  <2> QED BY <2>1, <2>2, InPhaseAppend
<1>2. ASSUME x \in Phases => NotBefore(t, Rank(x)), NEW i \in InPhase(Append(s, x)), NEW j \in InPhase(t)
      PROVE  Rank(Append(s, x)[i]) <= Rank(t[j])
  <2>1. CASE i \in InPhase(s) /\ Append(s, x)[i] = s[i]
    BY <2>1 DEF Above
  <2>2. CASE Append(s, x)[i] = x /\ x \in Phases
    BY <1>2, <2>2 DEF NotBefore
  <2> QED BY <2>1, <2>2, InPhaseAppend
<1> QED BY <1>1, <1>2 DEF Above

LEMMA TailInOrder ==
  ASSUME NEW s \in Seq(Events), s # << >>, NEW k \in Nat
  PROVE  /\ Sorted(s) => Sorted(Tail(s))
         /\ NotAfter(s, k) => NotAfter(Tail(s), k)
         /\ NotBefore(s, k) => NotBefore(Tail(s), k)
<1>1. Sorted(s) => Sorted(Tail(s))
  <2> SUFFICES ASSUME Sorted(s), NEW i \in InPhase(Tail(s)), NEW j \in InPhase(Tail(s)), i < j
               PROVE  Rank(Tail(s)[i]) <= Rank(Tail(s)[j])
    BY DEF Sorted
  <2>1. i \in Nat /\ j \in Nat /\ i + 1 \in InPhase(s) /\ j + 1 \in InPhase(s)
    BY InPhaseTail
  <2>2. i + 1 < j + 1
    BY <2>1
  <2>3. Rank(s[i + 1]) <= Rank(s[j + 1])
    BY <2>1, <2>2 DEF Sorted
  <2> QED BY <2>3, InPhaseTail
<1>2. /\ NotAfter(s, k) => NotAfter(Tail(s), k)
      /\ NotBefore(s, k) => NotBefore(Tail(s), k)
  BY InPhaseTail DEF NotAfter, NotBefore
<1> QED BY <1>1, <1>2

LEMMA AboveTail ==
  ASSUME NEW s \in Seq(Events), s # << >>, NEW t
  PROVE  /\ Above(s, t) => Above(Tail(s), t)
         /\ Above(t, s) => Above(t, Tail(s))
<1>1. ASSUME Above(s, t) PROVE Above(Tail(s), t)
  <2> SUFFICES ASSUME NEW i \in InPhase(Tail(s)), NEW j \in InPhase(t)
               PROVE  Rank(Tail(s)[i]) <= Rank(t[j])
    BY DEF Above
  <2>1. i + 1 \in InPhase(s) /\ Tail(s)[i] = s[i + 1]
    BY InPhaseTail
  <2> QED BY <1>1, <2>1 DEF Above
<1>2. ASSUME Above(t, s) PROVE Above(t, Tail(s))
  <2> SUFFICES ASSUME NEW i \in InPhase(t), NEW j \in InPhase(Tail(s))
               PROVE  Rank(t[i]) <= Rank(Tail(s)[j])
    BY DEF Above
  <2>1. j + 1 \in InPhase(s) /\ Tail(s)[j] = s[j + 1]
    BY InPhaseTail
  <2> QED BY <1>2, <2>1 DEF Above
<1> QED BY <1>1, <1>2

LEMMA HeadInOrder ==
  ASSUME NEW s \in Seq(Events), s # << >>, Head(s) \in Phases
  PROVE  /\ Sorted(s) => NotBefore(Tail(s), Rank(Head(s)))
         /\ \A k : NotBefore(s, k) => k <= Rank(Head(s))
         /\ \A k : NotAfter(s, k) => Rank(Head(s)) <= k
         /\ \A t : Above(s, t) => NotBefore(t, Rank(Head(s)))
         /\ \A t : Above(t, s) => NotAfter(t, Rank(Head(s)))
<1>1. 1 \in InPhase(s) /\ Head(s) = s[1]
  BY InPhaseTail
<1>2. Sorted(s) => NotBefore(Tail(s), Rank(Head(s)))
  <2> SUFFICES ASSUME Sorted(s), NEW i \in InPhase(Tail(s))
               PROVE  Rank(Head(s)) <= Rank(Tail(s)[i])
    BY DEF NotBefore
  <2>1. i + 1 \in InPhase(s) /\ 1 < i + 1
    BY InPhaseTail
  <2>2. Rank(s[1]) <= Rank(s[i + 1])
    BY <1>1, <2>1 DEF Sorted
  <2> QED BY <1>1, <2>2, InPhaseTail
<1>3. /\ \A k : NotBefore(s, k) => k <= Rank(Head(s))
      /\ \A k : NotAfter(s, k) => Rank(Head(s)) <= k
  BY <1>1 DEF NotBefore, NotAfter
<1>4. /\ \A t : Above(s, t) => NotBefore(t, Rank(Head(s)))
      /\ \A t : Above(t, s) => NotAfter(t, Rank(Head(s)))
  BY <1>1 DEF Above, NotBefore, NotAfter
<1> QED BY <1>2, <1>3, <1>4

LEMMA BoundsWiden ==
  ASSUME NEW s, NEW k \in Nat, NEW l \in Nat, k <= l
  PROVE  /\ NotAfter(s, k) => NotAfter(s, l)
         /\ NotBefore(s, l) => NotBefore(s, k)
BY Ranks DEF NotAfter, NotBefore

LEMMA EmptyInOrder ==
  /\ Sorted(<< >>) /\ \A k : NotAfter(<< >>, k) /\ NotBefore(<< >>, k)
  /\ \A t : Above(<< >>, t) /\ Above(t, << >>)
<1>1. InPhase(<< >>) = {}
  BY DEF InPhase
<1> QED BY <1>1 DEF Sorted, NotAfter, NotBefore, Above

-----------------------------------------------------------------------------

(***************************************************************************)
(* The badge goes on.                                                      *)
(***************************************************************************)
LEMMA ThreadsGoOn ==
  ASSUME TypeOK, ThreadsAfterPosts, [Next]_vars
  PROVE  /\ ThreadsAfterPosts'
         /\ \A n \in Runs : Floor(thread[n]) <= Floor(thread'[n])
<1> DEFINE Goal == /\ ThreadsAfterPosts'
                   /\ \A n \in Runs : Floor(thread[n]) <= Floor(thread'[n])
<1>0. \A p : Floor(p) \in 1..4
  BY Ranks
<1>1. ASSUME UNCHANGED thread, \A n \in Runs : post'[n] \in {"new", "sent"} => post[n] \in {"new", "sent"}
      PROVE  Goal
  BY <1>1, <1>0 DEF ThreadsAfterPosts
<1>2. ASSUME NEW n \in Runs, UNCHANGED post, thread[n] # "none", Floor(thread[n]) <= Floor(thread'[n]),
             \A m \in Runs : m # n => thread'[m] = thread[m]
      PROVE  Goal
  <2>1. ThreadsAfterPosts'
    BY <1>2 DEF ThreadsAfterPosts
  <2>2. ASSUME NEW m \in Runs PROVE Floor(thread[m]) <= Floor(thread'[m])
    BY <1>0, <1>2
  <2> QED BY <2>1, <2>2
<1>3. /\ Floor("none") = 1 /\ Floor("starting") = 1 /\ Floor("started") = 1
      /\ Floor("preparing") = 1 /\ Floor("running") = 2 /\ Floor("collecting") = 3
      /\ Floor("closing") = 4 /\ Floor("over") = 4
  BY DEF Floor
<1>4. ASSUME NEW n \in Runs, RunThread(n) \/ Raise(n) \/ FailToConnect(n) PROVE Goal
  <2>1. UNCHANGED post /\ \A m \in Runs : m # n => thread'[m] = thread[m]
    BY <1>4 DEF RunThread, Started, Phase, CloseRun, Raise, FailToConnect, Emit, TypeOK
  <2>2. thread[n] # "none" /\ Floor(thread[n]) <= Floor(thread'[n])
    <3>1. CASE Started(n) \/ FailToConnect(n) \/ CloseRun(n)
      BY <3>1, <1>3 DEF Started, FailToConnect, CloseRun, Emit, TypeOK
    <3>2. CASE Phase(n)
      BY <3>2, <1>3 DEF Phase, Emit, TypeOK
    <3>3. CASE Raise(n)
      BY <3>3, <1>3 DEF Raise, Emit, TypeOK
    <3> QED BY <1>4, <3>1, <3>2, <3>3 DEF RunThread
  <2> QED BY <2>1, <2>2, <1>2
<1>5. ASSUME NEW n \in Runs, Route(n) PROVE Goal
  <2>1. CASE Accept(n)
    <3>1. thread[n] = "none"
      BY <2>1 DEF Accept, ThreadsAfterPosts
    <3>2. /\ \A m \in Runs \ {n} : thread'[m] = thread[m] /\ post'[m] = post[m]
          /\ thread'[n] = "starting" /\ post'[n] = "waiting"
      BY <2>1 DEF Accept, TypeOK
    <3>3. ThreadsAfterPosts'
      BY <3>2 DEF ThreadsAfterPosts
    <3>4. ASSUME NEW m \in Runs PROVE Floor(thread[m]) <= Floor(thread'[m])
      BY <3>1, <3>2, <1>0, <1>3
    <3> QED BY <3>3, <3>4
  <2>2. CASE Refuse(n) \/ Answer(n)
    BY <2>2, <1>1 DEF Refuse, Answer, TypeOK
  <2> QED BY <1>5, <2>1, <2>2 DEF Route
<1>6. ASSUME NEW n \in Runs, Click(n) \/ Page(n) PROVE Goal
  BY <1>6, <1>1 DEF Click, Page, Subscribe, PostFailed, TypeOK
<1>7. ASSUME UNCHANGED <<thread, post>> PROVE Goal
  BY <1>7, <1>1
<1>8. ASSUME NEW n \in Runs, Stream(n) \/ Sample(n) \/ Swallow(n) \/ Cancel(n)
      PROVE  UNCHANGED <<thread, post>>
  BY <1>8 DEF Stream, OpenStream, Send, Sample, Swallow, Cancel
<1>9. CASE Drop \/ Handle \/ UNCHANGED vars
  BY <1>9, <1>7 DEF Drop, Handle, vars
<1> QED BY <1>4, <1>5, <1>6, <1>7, <1>8, <1>9 DEF Next

LEMMA NewIsPreparingStep ==
  ASSUME TypeOK, Followed, OneAtATime, NewIsPreparing, [Next]_vars
  PROVE  NewIsPreparing'
<1>1. ASSUME UNCHANGED <<runId, shown>>, Pending' \subseteq Pending PROVE NewIsPreparing'
  BY <1>1 DEF NewIsPreparing
<1>2. ASSUME NEW n \in Runs, Click(n) \/ Subscribe(n) PROVE NewIsPreparing'
  BY <1>2 DEF Click, Subscribe, NewIsPreparing, Runs, NoRun
<1>3. ASSUME NEW n \in Runs, PostFailed(n) PROVE NewIsPreparing'
  <2>1. n \in Pending /\ Pending' = Pending \ {n}
    BY <1>3 DEF PostFailed, Pending, TypeOK
  <2> QED BY <2>1 DEF OneAtATime, NewIsPreparing
<1>4. ASSUME NEW n \in Runs, Route(n) PROVE NewIsPreparing'
  <2>1. /\ UNCHANGED <<runId, shown>> /\ post[n] \notin {"new", "answered"}
        /\ \E p \in {"error", "waiting", "ok"} : post' = [post EXCEPT ![n] = p]
    BY <1>4 DEF Route, Refuse, Accept, Answer, pageVars
  <2>2. Pending' \subseteq Pending
    BY <2>1 DEF Pending, TypeOK
  <2> QED BY <1>1, <2>1, <2>2
<1>5. ASSUME NEW n \in Runs, RunThread(n) \/ Stream(n) \/ Raise(n) \/ FailToConnect(n)
                                \/ Sample(n) \/ Swallow(n) \/ Cancel(n)
      PROVE  UNCHANGED <<post, runId, shown>>
  BY <1>5 DEF RunThread, Started, Phase, CloseRun, Stream, OpenStream, Send, Raise, FailToConnect,
              Sample, Swallow, Cancel, Emit, pageVars
<1>6. ASSUME UNCHANGED <<post, runId, shown>> PROVE NewIsPreparing'
  BY <1>1, <1>6 DEF Pending
<1>7. CASE Drop \/ UNCHANGED vars
  BY <1>6, <1>7 DEF Drop, vars, pageVars
<1>8. CASE Handle
  <2>1. runId # NoRun /\ Pending' = Pending
    BY <1>8 DEF Handle, Followed, Pending
  <2> QED BY <2>1 DEF OneAtATime, NewIsPreparing
<1> QED BY <1>2, <1>3, <1>4, <1>5, <1>6, <1>7, <1>8 DEF Next, Page

\* A thread that goes on leaves its queue in order.
LEMMA QueueStays ==
  ASSUME NEW n \in Runs, QueueInOrder(n), queue'[n] = queue[n], Floor(thread[n]) <= Floor(thread'[n])
  PROVE  QueueInOrder(n)'
<1>1. Floor(thread[n]) \in Nat /\ Floor(thread'[n]) \in Nat
  BY Ranks
<1> QED BY <1>1, BoundsWiden DEF QueueInOrder

LEMMA QueueShrinks ==
  ASSUME TypeOK, NEW n \in Runs, QueueInOrder(n), queue[n] # << >>, queue'[n] = Tail(queue[n]),
         Floor(thread[n]) <= Floor(thread'[n])
  PROVE  QueueInOrder(n)'
<1>1. Floor(thread[n]) \in Nat /\ Floor(thread'[n]) \in Nat /\ 1 \in Nat /\ queue[n] \in Seq(Events)
  BY RankTypes, SeqTypes
<1>2. /\ Sorted(Tail(queue[n])) /\ NotAfter(Tail(queue[n]), Floor(thread[n]))
      /\ NotBefore(Tail(queue[n]), 1)
  BY <1>1, TailInOrder DEF QueueInOrder
<1> QED BY <1>1, <1>2, BoundsWiden DEF QueueInOrder

LEMMA QueueGrows ==
  ASSUME TypeOK, NEW n \in Runs, NEW e \in Events, QueueInOrder(n), Fits(n, e),
         queue'[n] = Append(queue[n], e), Floor(thread[n]) <= Floor(thread'[n])
  PROVE  QueueInOrder(n)'
<1>1. /\ Floor(thread[n]) \in Nat /\ Floor(thread'[n]) \in Nat /\ Rank(e) \in Nat /\ 1 \in Nat
      /\ queue[n] \in Seq(Events) /\ (e \in Phases => 1 <= Rank(e))
  BY RankTypes, SeqTypes, Ranks
<1>2. /\ NotAfter(queue[n], Floor(thread'[n]))
      /\ e \in Phases => NotAfter(queue[n], Rank(e))
  BY <1>1, BoundsWiden DEF QueueInOrder, Fits
<1>3. Sorted(queue'[n])
  BY <1>1, <1>2, SortedAppend DEF QueueInOrder
<1>4. NotAfter(queue'[n], Floor(thread'[n])) /\ NotBefore(queue'[n], 1)
  BY <1>1, <1>2, BoundsAppend DEF QueueInOrder, Fits
<1> QED BY <1>3, <1>4 DEF QueueInOrder

LEMMA LineStays ==
  ASSUME TypeOK, NEW n \in Runs, LineInOrder(n), UNCHANGED <<wire, shown>>,
         \/ queue'[n] = queue[n]
         \/ queue[n] # << >> /\ queue'[n] = Tail(queue[n]),
         Floor(thread[n]) <= Floor(thread'[n])
  PROVE  LineInOrder(n)'
<1>1. /\ Floor(thread[n]) \in Nat /\ Floor(thread'[n]) \in Nat /\ Rank(shown) \in Nat
      /\ queue[n] \in Seq(Events)
  BY RankTypes, SeqTypes
<1>2. NotAfter(wire, Floor(thread'[n])) /\ Rank(shown) <= Floor(thread'[n])
  BY <1>1, BoundsWiden DEF LineInOrder
<1>3. NotBefore(queue'[n], Rank(shown)) /\ Above(wire, queue'[n])
  BY <1>1, TailInOrder, AboveTail DEF LineInOrder
<1> QED BY <1>2, <1>3 DEF LineInOrder

LEMMA LineGrows ==
  ASSUME TypeOK, NEW n \in Runs, NEW e \in Events, LineInOrder(n), Fits(n, e),
         UNCHANGED <<wire, shown>>, queue'[n] = Append(queue[n], e),
         Floor(thread[n]) <= Floor(thread'[n])
  PROVE  LineInOrder(n)'
<1>1. /\ Floor(thread[n]) \in Nat /\ Floor(thread'[n]) \in Nat /\ Rank(shown) \in Nat /\ Rank(e) \in Nat
      /\ queue[n] \in Seq(Events) /\ wire \in Seq(Events)
  BY RankTypes, SeqTypes
<1>2. NotAfter(wire, Floor(thread'[n])) /\ Rank(shown) <= Floor(thread'[n])
  BY <1>1, BoundsWiden DEF LineInOrder
<1>3. e \in Phases => NotAfter(wire, Rank(e)) /\ Rank(shown) <= Rank(e)
  BY <1>1, BoundsWiden DEF LineInOrder, Fits
<1>4. NotBefore(queue'[n], Rank(shown)) /\ Above(wire, queue'[n])
  BY <1>1, <1>3, BoundsAppend, AboveAppend DEF LineInOrder
<1> QED BY <1>2, <1>4 DEF LineInOrder

LEMMA LineSends ==
  ASSUME TypeOK, NEW n \in Runs, LineInOrder(n), QueueInOrder(n), UNCHANGED <<shown, thread>>,
         queue[n] # << >>, queue'[n] = Tail(queue[n]), wire' = Append(wire, Head(queue[n]))
  PROVE  LineInOrder(n)'
<1> DEFINE h == Head(queue[n])
<1>1. /\ Floor(thread[n]) \in Nat /\ Rank(shown) \in Nat /\ Rank(h) \in Nat
      /\ queue[n] \in Seq(Events) /\ wire \in Seq(Events)
  BY RankTypes, SeqTypes
<1>2. h \in Events /\ Tail(queue[n]) \in Seq(Events)
  BY <1>1, TailFacts
<1>3. h \in Phases => /\ NotAfter(wire, Rank(h)) /\ NotBefore(Tail(queue[n]), Rank(h))
                      /\ Rank(h) <= Floor(thread[n]) /\ Rank(shown) <= Rank(h)
  BY <1>1, HeadInOrder DEF LineInOrder, QueueInOrder
<1>4. Sorted(wire') /\ NotAfter(wire', Floor(thread[n])) /\ NotBefore(wire', Rank(shown))
  BY <1>1, <1>2, <1>3, SortedAppend, BoundsAppend DEF LineInOrder
<1>5. NotBefore(queue'[n], Rank(shown)) /\ Above(wire, Tail(queue[n]))
  BY <1>1, TailInOrder, AboveTail DEF LineInOrder
<1>6. Above(wire', queue'[n])
  BY <1>1, <1>2, <1>3, <1>5, AboveAppend
<1> QED BY <1>4, <1>5, <1>6 DEF LineInOrder

LEMMA LineHandles ==
  ASSUME TypeOK, NEW n \in Runs, LineInOrder(n), UNCHANGED <<queue, thread>>, wire # << >>,
         wire' = Tail(wire), shown' = IF Head(wire) \in Phases THEN Head(wire) ELSE shown
  PROVE  LineInOrder(n)' /\ Rank(shown) <= Rank(shown')
<1>1. /\ Floor(thread[n]) \in Nat /\ Rank(shown) \in Nat /\ Rank(Head(wire)) \in Nat
      /\ queue[n] \in Seq(Events) /\ wire \in Seq(Events)
  BY RankTypes, SeqTypes
<1>2. Head(wire) \in Phases =>
         /\ NotBefore(Tail(wire), Rank(Head(wire))) /\ NotBefore(queue[n], Rank(Head(wire)))
         /\ Rank(Head(wire)) <= Floor(thread[n]) /\ Rank(shown) <= Rank(Head(wire))
  BY <1>1, HeadInOrder DEF LineInOrder
<1>3. /\ Sorted(wire') /\ NotAfter(wire', Floor(thread[n])) /\ NotBefore(Tail(wire), Rank(shown))
      /\ Above(wire', queue[n])
  BY <1>1, TailInOrder, AboveTail DEF LineInOrder
<1>4. CASE Head(wire) \in Phases
  BY <1>2, <1>3, <1>4 DEF LineInOrder
<1>5. CASE Head(wire) \notin Phases
  BY <1>1, <1>3, <1>5 DEF LineInOrder
<1> QED BY <1>4, <1>5

\* A wire without events.
LEMMA LineEmpties ==
  ASSUME NEW n \in Runs, wire' = << >>, NotBefore(queue'[n], Rank(shown')),
         Rank(shown') <= Floor(thread'[n])
  PROVE  LineInOrder(n)'
BY EmptyInOrder DEF LineInOrder

LEMMA InOrderStep ==
  ASSUME TypeOK, Followed, OneAtATime, InOrder, [Next]_vars
  PROVE  InOrder'
<1>a. /\ NewIsPreparing' /\ ThreadsAfterPosts'
      /\ \A n \in Runs : Floor(thread[n]) <= Floor(thread'[n])
  BY NewIsPreparingStep, ThreadsGoOn DEF InOrder
<1> SUFFICES ASSUME NEW m \in Runs
             PROVE  QueueInOrder(m)' /\ (runId' = m => LineInOrder(m)')
  BY <1>a DEF InOrder
<1>b. /\ QueueInOrder(m) /\ (runId = m => LineInOrder(m)) /\ Floor(thread[m]) <= Floor(thread'[m])
      /\ m # NoRun
  BY <1>a DEF InOrder, Runs, NoRun
<1> DEFINE Goal == QueueInOrder(m)' /\ (runId' = m => LineInOrder(m)')
<1>c. ASSUME UNCHANGED queue, runId' # NoRun => UNCHANGED <<runId, wire, shown>> PROVE Goal
  BY <1>b, <1>c, QueueStays, LineStays
<1>1. ASSUME NEW n \in Runs, NEW e \in Events, Grow(n, e) PROVE Goal
  <2>1. UNCHANGED <<runId, wire, shown>> /\ Fits(n, e)
    BY <1>1 DEF Grow, pageVars
  <2>2. CASE n = m
    <3>1. queue'[m] = Append(queue[m], e)
      BY <1>1, <2>2 DEF Grow, Put, TypeOK
    <3> QED BY <2>1, <2>2, <3>1, <1>b, QueueGrows, LineGrows
  <2>3. CASE n # m
    <3>1. queue'[m] = queue[m]
      BY <1>1, <2>3 DEF Grow, Put, TypeOK
    <3> QED BY <2>1, <3>1, <1>b, QueueStays, LineStays
  <2> QED BY <2>2, <2>3
<1>2. CASE Rest
  BY <1>2, <1>c DEF Rest, pageVars
<1>3. ASSUME NEW n \in Runs, Click(n) \/ PostFailed(n) \/ OpenStream(n) PROVE Goal
  <2>1. CASE Click(n)
    BY <2>1, <1>c DEF Click, serverVars
  <2>2. CASE PostFailed(n)
    <3>1. n \in Pending
      BY <2>2 DEF PostFailed, Pending
    <3> QED BY <2>2, <3>1, <1>c DEF PostFailed, OneAtATime, serverVars
  <2>3. CASE OpenStream(n)
    BY <2>3, <1>c DEF OpenStream
  <2> QED BY <1>3, <2>1, <2>2, <2>3
<1>4. ASSUME NEW n \in Runs, Subscribe(n) PROVE Goal
  <2>1. /\ runId' = n /\ wire' = << >> /\ UNCHANGED <<shown, queue, thread>> /\ n \in Pending
    BY <1>4 DEF Subscribe, Unsubscribe, Pending
  <2>2. shown = "preparing"
    BY <2>1 DEF OneAtATime, InOrder, NewIsPreparing
  <2>3. CASE n = m
    <3>1. NotBefore(queue[m], Rank(shown)) /\ Rank(shown) <= Floor(thread[m])
      BY <1>b, <2>2, Ranks DEF QueueInOrder
    <3> QED BY <1>b, <2>1, <3>1, QueueStays, LineEmpties
  <2>4. CASE n # m
    BY <1>b, <2>1, <2>4, QueueStays
  <2> QED BY <2>3, <2>4
<1>5. ASSUME NEW n \in Runs, Send(n) PROVE Goal
  <2>1. /\ source = n /\ queue[n] # << >> /\ queue' = [queue EXCEPT ![n] = Tail(@)]
        /\ wire' = Append(wire, Head(queue[n])) /\ UNCHANGED <<runId, shown, thread>>
    BY <1>5 DEF Send, Take, Followed
  <2>2. CASE n = m
    <3>1. queue'[m] = Tail(queue[m])
      BY <2>1, <2>2 DEF TypeOK
    <3> QED BY <2>1, <2>2, <3>1, <1>b, QueueShrinks, LineSends
  <2>3. CASE n # m
    <3>1. queue'[m] = queue[m] /\ runId # m
      BY <1>b, <2>1, <2>3 DEF TypeOK, Followed
    <3> QED BY <2>1, <3>1, <1>b, QueueStays
  <2> QED BY <2>2, <2>3
<1>6. ASSUME NEW n \in Runs, Swallow(n) PROVE Goal
  <2>1. /\ queue[n] # << >> /\ queue' = [queue EXCEPT ![n] = Tail(@)]
        /\ UNCHANGED <<runId, wire, shown>>
    BY <1>6 DEF Swallow, Take, TakeCut, pageVars
  <2>2. CASE n = m
    <3>1. queue'[m] = Tail(queue[m])
      BY <2>1, <2>2 DEF TypeOK
    <3> QED BY <2>1, <2>2, <3>1, <1>b, QueueShrinks, LineStays
  <2>3. CASE n # m
    <3>1. queue'[m] = queue[m]
      BY <2>1, <2>3 DEF TypeOK
    <3> QED BY <2>1, <3>1, <1>b, QueueStays, LineStays
  <2> QED BY <2>2, <2>3
<1>7. CASE Drop
  <2>1. UNCHANGED <<runId, shown, queue, thread>> /\ wire' = << >>
    BY <1>7 DEF Drop, Unsubscribe
  <2>2. runId = m => LineInOrder(m)'
    BY <1>b, <2>1, LineEmpties DEF LineInOrder
  <2> QED BY <1>b, <2>1, <2>2, QueueStays
<1>8. CASE Handle
  <2>1. /\ UNCHANGED <<queue, thread>> /\ wire # << >>
        /\ shown' = IF Head(wire) \in Phases THEN Head(wire) ELSE shown
    BY <1>8 DEF Handle, Phases
  <2>2. \/ runId' = NoRun
        \/ UNCHANGED runId /\ wire' = Tail(wire)
    BY <1>8, HandleFacts
  <2>3. runId' = m => LineInOrder(m)'
    BY <1>b, <2>1, <2>2, LineHandles
  <2> QED BY <1>b, <2>1, <2>3, QueueStays
<1> QED BY <1>1, <1>2, <1>3, <1>4, <1>5, <1>6, <1>7, <1>8, StepKinds DEF Move

\* Only onmessage changes the badge while the page follows a run.
LEMMA BadgeStep ==
  ASSUME TypeOK, Followed, OneAtATime, InOrder, [Next]_vars, runId # NoRun
  PROVE  Rank(shown') >= Rank(shown)
<1>0. Rank(shown) \in Nat
  BY Ranks
<1>1. CASE Handle
  <2>1. /\ UNCHANGED <<queue, thread>> /\ wire # << >> /\ runId \in Runs
        /\ shown' = IF Head(wire) \in Phases THEN Head(wire) ELSE shown
    BY <1>1 DEF Handle, Phases, TypeOK
  <2>2. LineInOrder(runId)
    BY <2>1 DEF InOrder
  <2>3. Head(wire) \in Phases => Rank(shown) <= Rank(Head(wire))
    BY <2>1, <2>2, HeadInOrder DEF LineInOrder, TypeOK
  <2> QED BY <1>0, <2>1, <2>3
<1>2. ASSUME NEW n \in Runs, PostFailed(n) PROVE FALSE
  BY <1>2 DEF PostFailed, Pending, OneAtATime
<1>3. ASSUME UNCHANGED shown PROVE Rank(shown') >= Rank(shown)
  BY <1>0, <1>3
<1>4. ASSUME NEW n \in Runs, NEW e \in Events, Grow(n, e) PROVE UNCHANGED shown
  BY <1>4 DEF Grow, pageVars
<1>5. ASSUME NEW n \in Runs, Move(n) PROVE UNCHANGED shown
  BY <1>5, <1>2 DEF Move, Click, Subscribe, OpenStream, Send, Swallow, pageVars
<1>6. CASE Rest \/ Drop
  BY <1>6, <1>3 DEF Rest, Drop, pageVars
<1> QED BY <1>1, <1>3, <1>4, <1>5, <1>6, StepKinds

\* What holds as long as nobody clicks while a POST is on its way.
LEMMA InOrderAlways ==
  ASSUME Mishaps["double"] = 0
  PROVE  Spec => [](ConsoleInv /\ OneAtATime /\ InOrder)
<1>1. Init => OneAtATime /\ InOrder
  <2> SUFFICES ASSUME Init PROVE OneAtATime /\ InOrder
    OBVIOUS
  <2>1. Pending = {}
    BY DEF Init, Pending
  <2>2. ASSUME NEW n \in Runs PROVE QueueInOrder(n)
    BY EmptyInOrder DEF Init, QueueInOrder
  <2> QED BY <2>1, <2>2 DEF Init, OneAtATime, InOrder, NewIsPreparing, ThreadsAfterPosts, Runs, NoRun
<1>2. ConsoleInv /\ OneAtATime /\ InOrder /\ [Next]_vars => OneAtATime' /\ InOrder'
  BY OneAtATimeStep, InOrderStep DEF ConsoleInv
<1> QED BY <1>1, <1>2, ConsoleAlways, PTL DEF Spec

(***************************************************************************)
(* When nobody clicks while a POST is on its way, the badge never goes     *)
(* back while the page follows one run: also when connections break and    *)
(* the stream goes on where the queue is.                                  *)
(***************************************************************************)
THEOREM BadgeAlwaysGoesOn == ASSUME Mishaps["double"] = 0 PROVE Spec => BadgeGoesOn
<1>1. ConsoleInv /\ OneAtATime /\ InOrder /\ [Next]_vars
         => [runId # NoRun /\ runId' \in {runId, NoRun} => Rank(shown') >= Rank(shown)]_vars
  BY BadgeStep DEF ConsoleInv
<1> QED BY <1>1, InOrderAlways, PTL DEF Spec, BadgeGoesOn

-----------------------------------------------------------------------------

(***************************************************************************)
(* Nobody clicks too often and the broker answers in time.                 *)
(***************************************************************************)
LEMMA InHandStep ==
  ASSUME TypeOK, TypeOK', Followed, EndsOnce, OneAtATime, InHand, [Next]_vars
  PROVE  InHand'
<1>a. left'["slow"] = 0 /\ left["slow"] = 0
  BY LeftStaysZero DEF InHand, MishapKinds
<1> SUFFICES ASSUME NEW m \in Runs PROVE ThreadInHand(m)' /\ QueueInHand(m)'
  BY <1>a DEF InHand
<1> DEFINE Goal == ThreadInHand(m)' /\ QueueInHand(m)'
<1>b. ThreadInHand(m) /\ QueueInHand(m) /\ m # NoRun
  BY DEF InHand, Runs, NoRun
\* Steps that are of no account to run m.
<1>c. ASSUME thread'[m] = thread[m], post'[m] = post[m], emitted'[m] = emitted[m],
             m \in registered' => m \in registered,
             runId' = runId \/ runId = NoRun \/ m \notin registered',
             runId' = m => runId = m /\ (wire' = wire \/ Ending(wire') = {} \/ m \notin registered')
      PROVE  Goal
  BY <1>b, <1>c DEF ThreadInHand, QueueInHand, Ending
<1>1. ASSUME NEW n \in Runs, Click(n) PROVE Goal
  BY <1>1, <1>b DEF Click, serverVars, ThreadInHand, QueueInHand, TypeOK
<1>2. ASSUME NEW n \in Runs, Subscribe(n) PROVE Goal
  <2>1. /\ runId = NoRun /\ runId' = n /\ Ending(wire') = {}
        /\ post[n] = "ok" /\ post' = [post EXCEPT ![n] = "answered"]
        /\ UNCHANGED <<thread, emitted, registered>>
    BY <1>2, EndingEmpty DEF Subscribe, Unsubscribe, OneAtATime, Pending
  <2> QED BY <1>b, <2>1 DEF ThreadInHand, QueueInHand, TypeOK
<1>3. ASSUME NEW n \in Runs, PostFailed(n) PROVE Goal
  <2>1. /\ UNCHANGED <<runId, wire, thread, emitted, registered>>
        /\ post[n] = "error" /\ post' = [post EXCEPT ![n] = "answered"]
    BY <1>3 DEF PostFailed, serverVars
  <2> QED BY <1>b, <2>1 DEF ThreadInHand, QueueInHand, Ending, TypeOK
<1>4. ASSUME NEW n \in Runs, Route(n) PROVE Goal
  <2>1. UNCHANGED <<runId, wire, emitted, registered>>
    BY <1>4 DEF Route, Refuse, Accept, Answer, pageVars, serverVars
  <2>2. CASE Refuse(n)
    BY <1>b, <2>1, <2>2 DEF Refuse, ThreadInHand, QueueInHand, Ending, TypeOK
  <2>3. CASE Accept(n)
    BY <1>b, <2>1, <2>3 DEF Accept, ThreadInHand, QueueInHand, Ending, TypeOK
  <2>4. CASE Answer(n)
    <3>1. /\ post[n] = "waiting" /\ UNCHANGED thread
          /\ \/ thread[n] # "starting" /\ post' = [post EXCEPT ![n] = "ok"]
             \/ thread[n] = "over" /\ emitted[n] = << >> /\ post' = [post EXCEPT ![n] = "error"]
      BY <2>4, <1>a DEF Answer, Befall
    <3> QED BY <1>b, <2>1, <3>1 DEF ThreadInHand, QueueInHand, Ending, TypeOK
  <2> QED BY <1>4, <2>2, <2>3, <2>4 DEF Route
<1>5. ASSUME NEW n \in Runs, RunThread(n) \/ Raise(n) \/ FailToConnect(n) \/ Sample(n) PROVE Goal
  <2>1. UNCHANGED <<runId, source, wire, post>>
    BY <1>5 DEF RunThread, Started, Phase, CloseRun, Raise, FailToConnect, Sample, Emit, pageVars
  <2>2. CASE m # n
    <3>1. thread'[m] = thread[m] /\ emitted'[m] = emitted[m] /\ (m \in registered' => m \in registered)
      BY <1>5, <2>2 DEF RunThread, Started, Phase, CloseRun, Raise, FailToConnect, Sample, Emit, Put,
                        serverVars, TypeOK
    <3> QED BY <1>c, <2>1, <3>1
  <2>3. CASE m = n /\ (CloseRun(n) \/ FailToConnect(n))
    <3>1. /\ UNCHANGED <<emitted, registered>> /\ thread[n] # "none" /\ thread'[n] = "over"
      BY <2>3 DEF CloseRun, FailToConnect, serverVars, TypeOK
    <3> QED BY <1>b, <2>1, <2>3, <3>1 DEF ThreadInHand, QueueInHand, Ending
  <2>4. ASSUME m = n, NEW e \in Events, Put(n, e) PROVE emitted'[n] # << >>
    <3>1. emitted'[n] = Append(emitted[n], e) /\ emitted[n] \in Seq(Events)
      BY <2>4 DEF Put, TypeOK
    <3>2. Len(Append(emitted[n], e)) = Len(emitted[n]) + 1 /\ Len(emitted[n]) \in Nat
      BY <3>1
    <3> QED BY <3>1, <3>2
  <2>5. CASE m = n /\ Started(n)
    <3>1. /\ thread[n] = "starting" /\ thread'[n] = "started" /\ Put(n, "started") /\ "started" \in Events
      BY <2>5 DEF Started, Emit, TypeOK, Events
    <3>2. runId # n
      BY <1>b, <2>5, <3>1 DEF ThreadInHand, Followed
    <3> QED BY <1>b, <2>1, <2>4, <2>5, <3>1, <3>2 DEF ThreadInHand, QueueInHand
  <2>6. CASE m = n /\ (Phase(n) \/ Raise(n))
    <3>1. /\ \E e \in Events : Put(n, e)
          /\ UNCHANGED registered /\ thread[n] \notin {"none", "starting"}
          /\ thread'[n] \notin {"none", "starting"}
      BY <2>6 DEF Phase, Raise, Emit, TypeOK, Events, Terminal
    <3> QED BY <1>b, <2>1, <2>4, <2>6, <3>1 DEF ThreadInHand, QueueInHand, Ending
  <2>7. CASE m = n /\ Sample(n)
    <3>1. /\ Put(n, "sample") /\ "sample" \in Events /\ UNCHANGED <<registered, thread>>
          /\ thread[n] \notin {"none", "starting"}
      BY <2>7 DEF Sample, Events
    <3> QED BY <1>b, <2>1, <2>4, <2>7, <3>1 DEF ThreadInHand, QueueInHand, Ending
  <2> QED BY <1>5, <2>2, <2>3, <2>5, <2>6, <2>7 DEF RunThread
<1>6. ASSUME NEW n \in Runs, OpenStream(n) \/ Cancel(n) PROVE Goal
  BY <1>6, <1>c DEF OpenStream, Cancel, pageVars
<1>7. ASSUME NEW n \in Runs, Send(n) PROVE Goal
  <2>1. /\ streaming[n] /\ source = n /\ UNCHANGED <<runId, emitted, post, thread>>
        /\ wire' = Append(wire, Head(queue[n])) /\ Head(queue[n]) \in Events /\ wire \in Seq(Events)
        /\ registered' = IF Head(queue[n]) \in Terminal THEN registered \ {n} ELSE registered
    BY <1>7, TakeType DEF Send, Take, Followed, TypeOK
  <2>2. Ending(wire) = {}
    BY <2>1 DEF EndsOnce
  <2>3. Ending(wire') # {} => Head(queue[n]) \in Terminal
    BY <2>1, <2>2, EndingAppend
  <2>4. runId = m => n = m
    BY <1>b, <2>1 DEF Followed
  <2> QED BY <1>c, <2>1, <2>3, <2>4
<1>8. ASSUME NEW n \in Runs, Swallow(n) PROVE Goal
  BY <1>8, <1>c DEF Swallow, Take, TakeCut, pageVars
<1>9. CASE Drop
  BY <1>9, <1>c, EndingEmpty DEF Drop, Unsubscribe
<1>10. CASE Handle
  <2>1. /\ UNCHANGED <<emitted, registered, post, thread>> /\ wire \in Seq(Events) /\ wire # << >>
        /\ \/ Head(wire) \in Terminal /\ runId' = NoRun
           \/ UNCHANGED runId /\ wire' = Tail(wire)
    BY <1>10, HandleFacts DEF TypeOK
  <2>2. /\ Head(wire) \in Terminal => Ending(wire) # {}
        /\ Ending(Tail(wire)) # {} => Ending(wire) # {}
    BY <2>1, EndingTail DEF EndsOnce
  <2>3. CASE Head(wire) \in Terminal /\ runId' = NoRun
    <3>1. runId = m => m \notin registered
      BY <1>b, <2>2, <2>3 DEF QueueInHand
    <3> QED BY <1>b, <2>1, <2>3, <3>1 DEF ThreadInHand, QueueInHand
  <2>4. CASE UNCHANGED runId /\ wire' = Tail(wire)
    <3>1. Ending(wire') # {} => Ending(wire) # {}
      BY <2>2, <2>4 DEF Ending
    <3> QED BY <1>b, <2>1, <2>4, <3>1 DEF ThreadInHand, QueueInHand
  <2> QED BY <2>1, <2>3, <2>4
<1>11. CASE UNCHANGED vars
  BY <1>11, <1>c DEF vars, pageVars, serverVars
<1> QED BY <1>1, <1>2, <1>3, <1>4, <1>5, <1>6, <1>7, <1>8, <1>9, <1>10, <1>11 DEF Next, Page, Stream

(***************************************************************************)
(* When nobody clicks while a POST is on its way, and connecting to the    *)
(* broker never takes longer than a POST waits, no queue is left in        *)
(* _run_queues once the page is done with its runs: also when connections  *)
(* break, the broker is down or a run raises.                              *)
(***************************************************************************)
THEOREM QueuesAreReleased ==
  ASSUME Mishaps["double"] = 0, Mishaps["slow"] = 0
  PROVE  Spec => []QueuesReleased
<1>1. Init => InHand
  BY DEF Init, InHand, ThreadInHand, QueueInHand, Runs, NoRun
<1>2. TypeOK' /\ ConsoleInv /\ OneAtATime /\ InHand /\ [Next]_vars => InHand'
  BY InHandStep DEF ConsoleInv
<1>3. InHand /\ TypeOK => QueuesReleased
  <2> SUFFICES ASSUME InHand, TypeOK, runId = NoRun, Pending = {}, NEW n \in registered PROVE FALSE
    BY DEF QueuesReleased
  <2>1. n \in Runs /\ n # NoRun /\ QueueInHand(n)
    BY DEF InHand, TypeOK, Runs, NoRun
  <2>2. n \in Pending
    BY <2>1 DEF QueueInHand, Pending
  <2> QED BY <2>2
<1>4. ConsoleInv => TypeOK
  BY DEF ConsoleInv
<1> QED BY <1>1, <1>2, <1>3, <1>4, InOrderAlways, PTL DEF Spec

-----------------------------------------------------------------------------

(***************************************************************************)
(* The refinement.  A run is started when it has said so, and until a      *)
(* connection has broken nobody else takes events of the run the page      *)
(* follows.                                                                *)
(***************************************************************************)
Spoken(n) ==
    /\ post[n] \in {"new", "sent"} => thread[n] = "none"
    /\ thread[n] \in {"none", "starting"} => emitted[n] = << >>
    /\ thread[n] \notin {"none", "starting", "over"} => emitted[n] # << >>
    /\ post[n] = "ok" \/ n \in registered => emitted[n] # << >>

Whole ==
    /\ left["drop"] <= Mishaps["drop"]
    /\ ~brokenBar => \A n \in Runs : orphan[n] => runId # n

FeedInv == Whole /\ \A n \in Runs : Spoken(n)

\* A budget of mishaps is only ever spent.
LEMMA Spent ==
  ASSUME TypeOK, [Next]_vars
  PROVE  \/ left'["drop"] = left["drop"]
         \/ Drop /\ left'["drop"] = left["drop"] - 1 /\ left["drop"] > 0
<1>1. ASSUME NEW k \in MishapKinds, Befall(k), k # "drop" PROVE left'["drop"] = left["drop"]
  BY <1>1 DEF Befall, TypeOK, MishapKinds
<1>2. CASE Drop
  BY <1>2 DEF Drop, Befall, TypeOK, MishapKinds
<1>3. UNCHANGED left \/ Drop \/ \E k \in MishapKinds \ {"drop"} : Befall(k)
  BY DEF Next, vars, Click, Page, Subscribe, PostFailed, Route, Refuse, Accept, Answer, RunThread,
         Started, Phase, CloseRun, Stream, OpenStream, Send, Raise, FailToConnect, Sample, Swallow,
         Cancel, Handle, MishapKinds
<1> QED BY <1>1, <1>2, <1>3

LEMMA WholeStep == ASSUME TypeOK, Followed, Whole, [Next]_vars PROVE Whole'
<1>1. CASE left'["drop"] # left["drop"]
  <2>1. left'["drop"] = left["drop"] - 1 /\ left["drop"] \in Nat /\ Mishaps["drop"] \in Nat
    BY <1>1, Spent, ConsoleAssumption DEF TypeOK, MishapKinds, ConsoleAssumption
  <2> QED BY <2>1 DEF Whole, brokenBar
<1>2. CASE left'["drop"] = left["drop"]
  <2> SUFFICES ASSUME ~brokenBar, NEW m \in Runs, orphan'[m], runId' = m PROVE FALSE
    BY <1>2 DEF Whole, brokenBar
  <2>a. m # NoRun /\ (orphan[m] => runId # m)
    BY DEF Whole, Runs, NoRun
  <2>1. CASE \E n \in Runs, e \in Events : Grow(n, e)
    BY <2>1, <2>a DEF Grow, pageVars
  <2>2. CASE Rest
    BY <2>2, <2>a DEF Rest, pageVars
  <2>3. ASSUME NEW n \in Runs, Click(n) \/ PostFailed(n) \/ OpenStream(n) \/ Send(n) \/ Swallow(n)
        PROVE  FALSE
    BY <2>3, <2>a DEF Click, PostFailed, OpenStream, Send, Swallow, serverVars, pageVars, TypeOK
  <2>4. ASSUME NEW n \in Runs, Subscribe(n) PROVE FALSE
    <3>1. m = n /\ post[n] = "ok" /\ (orphan[n] \/ streaming[n])
      BY <2>4 DEF Subscribe, Unsubscribe
    <3> QED BY <3>1, <2>a DEF Followed
  <2>5. CASE Drop
    BY <2>5, <1>2 DEF Drop, Befall, TypeOK, MishapKinds
  <2>6. CASE Handle
    BY <2>6, <2>a, HandleFacts
  <2> QED BY <2>1, <2>2, <2>3, <2>4, <2>5, <2>6, StepKinds DEF Move
<1> QED BY <1>1, <1>2

LEMMA SpokenStep ==
  ASSUME TypeOK, NEW m \in Runs, Spoken(m), [Next]_vars
  PROVE  Spoken(m)'
<1>1. ASSUME post'[m] = post[m], thread'[m] = thread[m], emitted'[m] = emitted[m],
             m \in registered' => m \in registered
      PROVE  Spoken(m)'
  BY <1>1 DEF Spoken
<1>2. ASSUME NEW n \in Runs, Click(n) \/ Page(n) \/ Route(n) PROVE Spoken(m)'
  <2>1. UNCHANGED <<emitted, registered>>
    BY <1>2 DEF Click, Page, Subscribe, PostFailed, Route, Refuse, Accept, Answer, serverVars
  <2>2. CASE m # n
    <3>1. post'[m] = post[m] /\ thread'[m] = thread[m]
      BY <1>2, <2>2 DEF Click, Page, Subscribe, PostFailed, Route, Refuse, Accept, Answer, TypeOK
    <3> QED BY <1>1, <2>1, <3>1
  <2>3. CASE m = n /\ (Click(n) \/ Page(n) \/ Refuse(n))
    <3>1. UNCHANGED thread /\ post'[m] \in {"sent", "answered", "error"}
          /\ (post'[m] = "sent" => post[m] = "new")
      BY <2>3 DEF Click, Page, Subscribe, PostFailed, Refuse, TypeOK
    <3> QED BY <2>1, <3>1 DEF Spoken
  <2>4. CASE m = n /\ Accept(n)
    BY <2>1, <2>4 DEF Accept, Spoken, TypeOK
  <2>5. CASE m = n /\ Answer(n)
    BY <2>1, <2>5 DEF Answer, Spoken, TypeOK
  <2> QED BY <1>2, <2>2, <2>3, <2>4, <2>5 DEF Route
<1>3. ASSUME NEW n \in Runs, NEW e \in Events, Put(n, e), UNCHANGED post,
             thread[n] \notin {"none"}, thread'[n] \notin {"none", "starting"},
             \A k \in Runs \ {n} : thread'[k] = thread[k],
             registered' \subseteq registered \cup {n}
      PROVE  Spoken(m)'
  <2>1. Append(emitted[n], e) # << >>
    <3>1. emitted[n] \in Seq(Events)
      BY DEF TypeOK
    <3>2. Len(Append(emitted[n], e)) = Len(emitted[n]) + 1 /\ Len(emitted[n]) \in Nat
      BY <3>1
    <3> QED BY <3>2
  <2>2. emitted'[n] # << >> /\ \A k \in Runs \ {n} : emitted'[k] = emitted[k]
    BY <1>3, <2>1 DEF Put, TypeOK
  <2> QED BY <1>1, <1>3, <2>2 DEF Spoken
<1>4. ASSUME NEW n \in Runs, RunThread(n) \/ Raise(n) \/ FailToConnect(n) \/ Sample(n)
      PROVE  Spoken(m)'
  <2>1. {"started", "preparing", "running", "collecting", "done", "error", "sample"} \subseteq Events
    BY DEF Events, Terminal
  <2>2. CASE CloseRun(n) \/ FailToConnect(n)
    BY <2>2 DEF CloseRun, FailToConnect, serverVars, Spoken, TypeOK
  <2>3. ASSUME NEW p \in Steps, NEW e \in Events, NEW q \in Steps, Emit(n, p, e, q),
               p # "none", q \notin {"none", "starting"}, registered' \subseteq registered \cup {n}
        PROVE  Spoken(m)'
    <3>1. /\ Put(n, e) /\ UNCHANGED post /\ thread[n] = p /\ thread'[n] = q
          /\ \A k \in Runs \ {n} : thread'[k] = thread[k]
      BY <2>3 DEF Emit, TypeOK
    <3> QED BY <1>3, <2>3, <3>1
  <2>4. {"starting", "started", "preparing", "running", "collecting", "closing"} \subseteq Steps
    BY DEF Steps
  <2>5. CASE Started(n)
    BY <2>1, <2>3, <2>4, <2>5 DEF Started
  <2>6. CASE Phase(n)
    BY <2>1, <2>3, <2>4, <2>6 DEF Phase
  <2>7. CASE Raise(n)
    BY <2>1, <2>3, <2>4, <2>7 DEF Raise
  <2>8. CASE Sample(n)
    <3>1. Put(n, "sample") /\ UNCHANGED <<post, thread, registered>> /\ thread[n] \notin {"none", "starting"}
      BY <2>8 DEF Sample
    <3> QED BY <1>3, <2>1, <3>1
  <2> QED BY <1>4, <2>2, <2>5, <2>6, <2>7, <2>8 DEF RunThread
<1>5. ASSUME NEW n \in Runs, Stream(n) \/ Swallow(n) \/ Cancel(n) PROVE Spoken(m)'
  <2>1. UNCHANGED <<emitted, post, thread>> /\ registered' \subseteq registered
    BY <1>5 DEF Stream, OpenStream, Send, Take, TakeCut, Swallow, Cancel
  <2> QED BY <1>1, <2>1
<1>6. CASE Drop \/ Handle
  BY <1>1, <1>6 DEF Drop, Handle
<1>7. CASE UNCHANGED vars
  BY <1>1, <1>7 DEF vars, serverVars
<1> QED BY <1>2, <1>4, <1>5, <1>6, <1>7 DEF Next

-----------------------------------------------------------------------------

(***************************************************************************)
(* Taking a stretch out of what is on the wire and in the queue.           *)
(***************************************************************************)
LEMMA CutHead ==
  ASSUME NEW s \in Seq(Events), NEW t \in Seq(Events), t # << >>
  PROVE  SubSeq(s \o t, 1, Len(s)) \o SubSeq(s \o t, Len(s) + 2, Len(s \o t)) = s \o Tail(t)
<1> DEFINE u == s \o t
           a == SubSeq(u, 1, Len(s))
           b == SubSeq(u, Len(s) + 2, Len(u))
<1>1. /\ u \in Seq(Events) /\ Len(u) = Len(s) + Len(t) /\ Len(s) \in Nat /\ Len(t) \in Nat \ {0}
      /\ \A i \in 1..Len(u) : u[i] = IF i <= Len(s) THEN s[i] ELSE t[i - Len(s)]
  BY ConcatProperties, TailFacts
<1>2. Tail(t) \in Seq(Events) /\ Len(Tail(t)) = Len(t) - 1 /\ \A i \in 1..Len(t) - 1 : Tail(t)[i] = t[i + 1]
  BY TailFacts
<1> HIDE DEF u
<1>3. a = s
  <2>1. a \in Seq(Events) /\ Len(a) = Len(s) /\ \A i \in 1..Len(s) : a[i] = u[i]
    BY <1>1
  <2>2. \A i \in 1..Len(s) : a[i] = s[i]
    BY <1>1, <2>1
  <2> HIDE DEF a
  <2> QED BY <2>1, <2>2, SeqEqual
<1>4. b = Tail(t)
  <2>a. /\ Len(s) + 2 \in Int /\ Len(u) \in Int /\ Len(u) - (Len(s) + 2) + 1 = Len(t) - 1
        /\ (IF Len(s) + 2 <= Len(u) THEN Len(u) - (Len(s) + 2) + 1 ELSE 0) = Len(t) - 1
    <3> DEFINE ls == Len(s)
               lt == Len(t)
               lu == Len(u)
    <3>1. lu = ls + lt /\ ls \in Nat /\ lt \in Nat \ {0}
      BY <1>1
    <3> HIDE DEF ls, lt, lu
    <3>2. /\ ls + 2 \in Int /\ lu \in Int /\ lu - (ls + 2) + 1 = lt - 1
          /\ (IF ls + 2 <= lu THEN lu - (ls + 2) + 1 ELSE 0) = lt - 1
      BY <3>1
    <3> QED BY <3>2 DEF ls, lt, lu
  <2>b. \A i \in Len(s) + 2 .. Len(u) : u[i] \in Events
    BY <1>1
  <2>c. \A i \in 1..Len(t) - 1 : (Len(s) + 2) + i - 1 = i + Len(s) + 1
    BY <1>1
  <2>1. b \in Seq(Events) /\ Len(b) = Len(t) - 1 /\ \A i \in 1..Len(t) - 1 : b[i] = u[i + Len(s) + 1]
    BY <2>a, <2>b, <2>c, SubSeqProperties
  <2>2. \A i \in 1..Len(t) - 1 : u[i + Len(s) + 1] = t[i + 1]
    BY <1>1
  <2> HIDE DEF b
  <2> QED BY <1>2, <2>1, <2>2, SeqEqual
<1> HIDE DEF a, b
<1>5. a \o b = s \o Tail(t)
  BY <1>3, <1>4
<1> QED BY <1>5 DEF a, b, u

LEMMA CutFront ==
  ASSUME NEW s \in Seq(Events), NEW t \in Seq(Events)
  PROVE  SubSeq(s \o t, 1, 0) \o SubSeq(s \o t, Len(s) + 1, Len(s \o t)) = t
<1> DEFINE u == s \o t
           b == SubSeq(u, Len(s) + 1, Len(u))
<1>1. /\ u \in Seq(Events) /\ Len(u) = Len(s) + Len(t) /\ Len(s) \in Nat /\ Len(t) \in Nat
      /\ \A i \in 1..Len(u) : u[i] = IF i <= Len(s) THEN s[i] ELSE t[i - Len(s)]
  BY ConcatProperties
<1> HIDE DEF u
<1>2. b = t
  <2>1. b \in Seq(Events) /\ Len(b) = Len(t) /\ \A i \in 1..Len(t) : b[i] = u[i + Len(s)]
    BY <1>1
  <2>2. ASSUME NEW i \in 1..Len(t) PROVE u[i + Len(s)] = t[i]
    <3>1. i + Len(s) \in 1..Len(u) /\ ~(i + Len(s) <= Len(s)) /\ (i + Len(s)) - Len(s) = i
      BY <1>1
    <3> QED BY <1>1, <3>1
  <2> HIDE DEF b
  <2> QED BY <2>1, <2>2, SeqEqual
<1>3. SubSeq(u, 1, 0) = << >>
  BY <1>1
<1> HIDE DEF b
<1>4. << >> \o b = b
  BY <1>2, ConcatEmptySeq
<1> QED BY <1>2, <1>3, <1>4 DEF b, u

(***************************************************************************)
(* How the mapping moves.                                                  *)
(***************************************************************************)
LEMMA UntoldTypes ==
  ASSUME TypeOK, NEW n \in Runs
  PROVE  /\ OnWire(n) \in Seq(Events) /\ queue[n] \in Seq(Events) /\ Untold(n) \in Seq(Events)
         /\ untoldBar[n] = Untold(n)
<1>1. OnWire(n) \in Seq(Events) /\ queue[n] \in Seq(Events)
  BY DEF TypeOK, OnWire
<1>2. Untold(n) \in Seq(Events)
  BY <1>1, ConcatProperties DEF Untold
<1> QED BY <1>1, <1>2 DEF untoldBar, Untold

LEMMA UntoldKept ==
  ASSUME \A n \in Runs : Untold(n)' = Untold(n)
  PROVE  untoldBar' = untoldBar
BY DEF untoldBar

LEMMA UntoldMoves ==
  ASSUME NEW n \in Runs, NEW s, Untold(n)' = s, \A m \in Runs \ {n} : Untold(m)' = Untold(m)
  PROVE  untoldBar' = [untoldBar EXCEPT ![n] = s]
BY DEF untoldBar

LEMMA StageMoves ==
  ASSUME NEW n \in Runs, NEW s, StageOf(n)' = s,
         \A m \in Runs \ {n} : thread'[m] = thread[m] /\ emitted'[m] = emitted[m]
  PROVE  stageBar' = [stageBar EXCEPT ![n] = s]
<1>1. \A m \in Runs \ {n} : StageOf(m)' = StageOf(m)
  BY DEF StageOf
<1> QED BY <1>1 DEF stageBar

LEMMA StageKept ==
  ASSUME \A m \in Runs : StageOf(m)' = StageOf(m)
  PROVE  stageBar' = stageBar
BY DEF stageBar

LEMMA FeedRests ==
  ASSUME stageBar' = stageBar, UNCHANGED <<source, wire, queue, seen, runId>>,
         Answered' = Answered, left'["drop"] = left["drop"]
  PROVE  UNCHANGED Feed!vars
<1>1. untoldBar' = untoldBar
  BY UntoldKept DEF Untold, OnWire
<1> QED BY <1>1 DEF Feed!vars, brokenBar

LEMMA LosesHead ==
  ASSUME TypeOK, NEW n \in Runs, queue[n] # << >>,
         untoldBar' = [untoldBar EXCEPT ![n] = OnWire(n) \o Tail(queue[n])]
  PROVE  Feed!Loses(n)
<1> DEFINE w == OnWire(n)
           q == queue[n]
           s == w \o q
<1>1. w \in Seq(Events) /\ q \in Seq(Events) /\ s \in Seq(Events) /\ untoldBar[n] = s
  BY UntoldTypes DEF Untold
<1>2. SubSeq(s, 1, Len(w)) \o SubSeq(s, Len(w) + 2, Len(s)) = w \o Tail(q)
  BY <1>1, CutHead
<1>3. Len(w) \in 0..Len(s) /\ Len(w) + 1 \in Len(w)..Len(s) /\ (Len(w) + 1) + 1 = Len(w) + 2
  <2>1. Len(s) = Len(w) + Len(q) /\ Len(w) \in Nat /\ Len(q) \in Nat \ {0}
    BY <1>1, ConcatProperties, TailFacts
  <2> HIDE DEF w, q, s
  <2> QED BY <2>1
<1>4. untoldBar' = [untoldBar EXCEPT ![n] = SubSeq(s, 1, Len(w)) \o SubSeq(s, (Len(w) + 1) + 1, Len(s))]
  BY <1>2, <1>3
<1> HIDE DEF w, q, s
<1> QED BY <1>1, <1>3, <1>4 DEF Feed!Loses

LEMMA LosesWire ==
  ASSUME TypeOK, NEW n \in Runs, untoldBar' = [untoldBar EXCEPT ![n] = queue[n]]
  PROVE  Feed!Loses(n)
<1> DEFINE w == OnWire(n)
           q == queue[n]
           s == w \o q
<1>1. w \in Seq(Events) /\ q \in Seq(Events) /\ s \in Seq(Events) /\ untoldBar[n] = s
  BY UntoldTypes DEF Untold
<1>2. SubSeq(s, 1, 0) \o SubSeq(s, Len(w) + 1, Len(s)) = q
  BY <1>1, CutFront
<1>3. 0 \in 0..Len(s) /\ Len(w) \in 0..Len(s)
  <2>1. Len(s) = Len(w) + Len(q) /\ Len(w) \in Nat /\ Len(q) \in Nat
    BY <1>1, ConcatProperties
  <2> HIDE DEF w, q, s
  <2> QED BY <2>1
<1>4. untoldBar' = [untoldBar EXCEPT ![n] = SubSeq(s, 1, 0) \o SubSeq(s, Len(w) + 1, Len(s))]
  BY <1>2
<1> HIDE DEF w, q, s
<1> QED BY <1>1, <1>3, <1>4 DEF Feed!Loses

(***************************************************************************)
(* Every step is one of the feed, or none.                                 *)
(***************************************************************************)
LEMMA EmitAdvances ==
  ASSUME TypeOK, NEW n \in Runs, NEW p \in Steps, NEW e \in Events, NEW q \in Steps,
         Emit(n, p, e, q), Spoken(n), left'["drop"] = left["drop"],
         \/ p = "starting" /\ e = "started" /\ q = "started"
         \/ p \notin {"none", "starting", "closing", "over"} /\ <<p, e, q>> \in
              {<<"started", "preparing", "preparing">>, <<"preparing", "running", "running">>,
               <<"running", "collecting", "collecting">>}
         \/ p = "collecting" /\ e = "done" /\ q = "closing"
         \/ p \in {"started", "preparing", "running", "collecting"} /\ e = "error" /\ q = "closing"
  PROVE  Feed!Advance(n)
<1> DEFINE from == IF p = "starting" THEN "new" ELSE p
           to == IF q = "closing" THEN "ended" ELSE q
<1>1. /\ thread[n] = p /\ thread' = [thread EXCEPT ![n] = q]
      /\ emitted' = [emitted EXCEPT ![n] = Append(@, e)] /\ queue' = [queue EXCEPT ![n] = Append(@, e)]
      /\ UNCHANGED <<source, wire, seen, runId, post>>
  BY DEF Emit, Put, pageVars
<1>2. Append(emitted[n], e) # << >>
  <2>1. emitted[n] \in Seq(Events)
    BY DEF TypeOK
  <2>2. Len(Append(emitted[n], e)) = Len(emitted[n]) + 1 /\ Len(emitted[n]) \in Nat
    BY <2>1
  <2> QED BY <2>2
<1>3. stageBar[n] = from
  BY <1>1 DEF stageBar, StageOf
<1>4. stageBar' = [stageBar EXCEPT ![n] = to]
  <2>1. StageOf(n)' = to
    BY <1>1, <1>2 DEF StageOf, TypeOK
  <2>2. \A m \in Runs \ {n} : thread'[m] = thread[m] /\ emitted'[m] = emitted[m]
    BY <1>1 DEF TypeOK
  <2> HIDE DEF to
  <2> QED BY <2>1, <2>2, StageMoves
<1>5. <<from, e, to>> \in Feed!Course
  BY DEF Feed!Course
<1>6. Feed!Speak(n, e)
  <2>1. \A m \in Runs \ {n} : Untold(m)' = Untold(m)
    BY <1>1 DEF Untold, OnWire, TypeOK
  <2>2. Untold(n)' = OnWire(n) \o Append(queue[n], e)
    BY <1>1 DEF Untold, OnWire, TypeOK
  <2>3. OnWire(n) \o Append(queue[n], e) = Append(OnWire(n) \o queue[n], e)
    <3> DEFINE w == OnWire(n)
               s == queue[n]
    <3>1. w \in Seq(Events) /\ s \in Seq(Events)
      BY UntoldTypes
    <3> HIDE DEF w, s
    <3>2. w \o Append(s, e) = Append(w \o s, e)
      BY <3>1
    <3> QED BY <3>2 DEF w, s
  <2>4. untoldBar' = [untoldBar EXCEPT ![n] = Append(Untold(n), e)]
    BY <2>1, <2>2, <2>3, UntoldMoves DEF Untold
  <2> QED BY <2>4, UntoldTypes DEF Feed!Speak
<1>7. UNCHANGED <<seen, runId>> /\ Answered' = Answered /\ brokenBar' = brokenBar
  BY <1>1 DEF Answered, brokenBar
<1> HIDE DEF from, to
<1> QED BY <1>3, <1>4, <1>5, <1>6, <1>7 DEF Feed!Advance

LEMMA ThreadImplements ==
  ASSUME TypeOK, NEW n \in Runs, Spoken(n), left'["drop"] = left["drop"],
         RunThread(n) \/ Raise(n) \/ FailToConnect(n) \/ Sample(n)
  PROVE  [Feed!Next]_(Feed!vars)
<1>1. {"started", "preparing", "running", "collecting", "done", "error", "sample"} \subseteq Events
  BY DEF Events, Terminal
<1>2. {"starting", "started", "preparing", "running", "collecting", "closing"} \subseteq Steps
  BY DEF Steps
<1>3. CASE Started(n)
  BY <1>1, <1>2, <1>3, EmitAdvances DEF Started, Feed!Next
<1>4. CASE Phase(n)
  <2>1. Feed!Advance(n)
    BY <1>1, <1>2, <1>4, EmitAdvances DEF Phase
  <2> QED BY <2>1 DEF Feed!Next
<1>5. CASE Raise(n)
  <2>1. Feed!Advance(n)
    BY <1>1, <1>2, <1>5, EmitAdvances DEF Raise
  <2> QED BY <2>1 DEF Feed!Next
<1>6. CASE CloseRun(n)
  <2>1. thread[n] = "closing" /\ thread' = [thread EXCEPT ![n] = "over"]
        /\ UNCHANGED <<pageVars, serverVars, post>>
    BY <1>6 DEF CloseRun
  <2>2. stageBar' = stageBar
    BY <2>1, StageKept DEF StageOf, serverVars, TypeOK
  <2>3. Answered' = Answered
    BY <2>1 DEF Answered
  <2> QED BY <2>1, <2>2, <2>3, FeedRests DEF pageVars, serverVars
<1>7. CASE FailToConnect(n)
  <2>1. thread[n] = "starting" /\ emitted[n] = << >> /\ thread' = [thread EXCEPT ![n] = "over"]
        /\ UNCHANGED <<source, wire, seen, runId, queue, emitted, post>>
    BY <1>7 DEF FailToConnect, Spoken, pageVars, serverVars
  <2>2. stageBar[n] = "new" /\ stageBar' = [stageBar EXCEPT ![n] = "failed"]
    <3>1. StageOf(n)' = "failed" /\ \A m \in Runs \ {n} : thread'[m] = thread[m] /\ emitted'[m] = emitted[m]
      BY <2>1 DEF StageOf, TypeOK
    <3>2. stageBar[n] = "new"
      BY <2>1 DEF stageBar, StageOf
    <3> QED BY <3>1, <3>2, StageMoves
  <2>3. untoldBar' = untoldBar
    BY <2>1, UntoldKept DEF Untold, OnWire
  <2>4. Answered' = Answered /\ brokenBar' = brokenBar
    BY <2>1 DEF Answered, brokenBar
  <2>5. Feed!Fail(n)
    BY <2>1, <2>2, <2>3, <2>4 DEF Feed!Fail
  <2> QED BY <2>5 DEF Feed!Next
<1>8. CASE Sample(n)
  <2>1. /\ n \in registered /\ thread[n] \in {"running", "collecting", "closing", "over"}
        /\ emitted' = [emitted EXCEPT ![n] = Append(@, "sample")]
        /\ queue' = [queue EXCEPT ![n] = Append(@, "sample")]
        /\ UNCHANGED <<source, wire, seen, runId, thread, post>>
    BY <1>8 DEF Sample, Put, pageVars
  <2>2. emitted[n] # << >> /\ emitted'[n] # << >>
    <3>1. emitted[n] \in Seq(Events) /\ emitted'[n] = Append(emitted[n], "sample")
      BY <2>1 DEF TypeOK
    <3>2. Len(Append(emitted[n], "sample")) = Len(emitted[n]) + 1 /\ Len(emitted[n]) \in Nat
      BY <3>1
    <3> QED BY <2>1, <3>1, <3>2 DEF Spoken
  <2>3. stageBar[n] \in {"running", "collecting", "ended"}
    BY <2>1, <2>2 DEF stageBar, StageOf
  <2>4. stageBar' = stageBar
    <3>1. \A m \in Runs \ {n} : emitted'[m] = emitted[m]
      BY <2>1 DEF TypeOK
    <3> QED BY <2>1, <2>2, <3>1, StageKept DEF StageOf
  <2>5. Feed!Speak(n, "sample")
    <3>1. \A m \in Runs \ {n} : Untold(m)' = Untold(m)
      BY <2>1 DEF Untold, OnWire, TypeOK
    <3>2. Untold(n)' = OnWire(n) \o Append(queue[n], "sample")
      BY <2>1 DEF Untold, OnWire, TypeOK
    <3>3. OnWire(n) \o Append(queue[n], "sample") = Append(OnWire(n) \o queue[n], "sample")
      <4> DEFINE w == OnWire(n)
                 s == queue[n]
      <4>1. w \in Seq(Events) /\ s \in Seq(Events)
        BY UntoldTypes
      <4> HIDE DEF w, s
      <4>2. w \o Append(s, "sample") = Append(w \o s, "sample")
        BY <4>1, <1>1
      <4> QED BY <4>2 DEF w, s
    <3>4. untoldBar' = [untoldBar EXCEPT ![n] = Append(Untold(n), "sample")]
      BY <3>1, <3>2, <3>3, UntoldMoves DEF Untold
    <3> QED BY <3>4, UntoldTypes DEF Feed!Speak
  <2>6. Answered' = Answered /\ brokenBar' = brokenBar
    BY <2>1 DEF Answered, brokenBar
  <2>7. Feed!Sample(n)
    BY <2>1, <2>3, <2>4, <2>5, <2>6 DEF Feed!Sample
  <2> QED BY <2>7 DEF Feed!Next
<1> QED BY <1>3, <1>4, <1>5, <1>6, <1>7, <1>8 DEF RunThread

\* A wire that is cut: what was on it is gone, what is queued is not.
LEMMA WireCut ==
  ASSUME TypeOK, UNCHANGED queue, wire' = << >>
  PROVE  /\ \A m \in Runs : Untold(m)' = queue[m]
         /\ wire = << >> \/ source = NoRun => untoldBar' = untoldBar
         /\ source # NoRun => untoldBar' = [untoldBar EXCEPT ![source] = queue[source]]
<1>1. ASSUME NEW m \in Runs PROVE << >> \o queue[m] = queue[m]
  <2>1. queue[m] \in Seq(Events)
    BY DEF TypeOK
  <2> QED BY <2>1, ConcatEmptySeq
<1>2. \A m \in Runs : Untold(m)' = queue[m]
  <2>1. \A m \in Runs : OnWire(m)' = << >>
    BY DEF OnWire
  <2> QED BY <1>1, <2>1 DEF Untold
<1>3. ASSUME NEW m \in Runs, wire = << >> \/ source # m PROVE Untold(m) = queue[m]
  <2>1. OnWire(m) = << >>
    BY <1>3 DEF OnWire
  <2> QED BY <1>1, <2>1 DEF Untold
<1>4. wire = << >> \/ source = NoRun => untoldBar' = untoldBar
  <2>1. \A m \in Runs : m # NoRun
    BY DEF Runs, NoRun
  <2> QED BY <1>2, <1>3, <2>1, UntoldKept
<1>5. source # NoRun => untoldBar' = [untoldBar EXCEPT ![source] = queue[source]]
  <2>1. source # NoRun => source \in Runs
    BY DEF TypeOK
  <2> QED BY <1>2, <1>3, <2>1, UntoldMoves
<1> QED BY <1>2, <1>4, <1>5

LEMMA SubscribeImplements ==
  ASSUME TypeOK, Followed, NEW n \in Runs, Spoken(n), Subscribe(n)
  PROVE  Feed!Follow(n)
<1>1. /\ post[n] = "ok" /\ post' = [post EXCEPT ![n] = "answered"] /\ runId' = n /\ wire' = << >>
      /\ UNCHANGED <<seen, queue, emitted, thread, left>>
  BY DEF Subscribe, Unsubscribe
<1>2. n \notin Answered /\ Answered' = Answered \cup {n}
  BY <1>1 DEF Answered, TypeOK
<1>3. stageBar[n] \notin {"new", "failed"}
  <2>1. emitted[n] # << >> /\ thread[n] \notin {"none", "starting"}
    BY <1>1 DEF Spoken
  <2>2. StageOf(n) \notin {"new", "failed"}
    BY <2>1 DEF StageOf, TypeOK, Steps
  <2> QED BY <2>2 DEF stageBar
<1>4. UNCHANGED untoldBar \/ \E m \in Runs : m = runId /\ Feed!Loses(m)
  <2>1. CASE wire = << >> \/ source = NoRun
    BY <1>1, <2>1, WireCut
  <2>2. CASE wire # << >> /\ source # NoRun
    <3>1. runId = source /\ source \in Runs
      BY <2>2 DEF Followed, TypeOK
    <3>2. untoldBar' = [untoldBar EXCEPT ![source] = queue[source]]
      BY <1>1, <2>2, WireCut
    <3> QED BY <3>1, <3>2, LosesWire
  <2> QED BY <2>1, <2>2
<1>5. stageBar' = stageBar /\ brokenBar' = brokenBar
  BY <1>1, StageKept DEF StageOf, brokenBar
<1> QED BY <1>1, <1>2, <1>3, <1>4, <1>5 DEF Feed!Follow

LEMMA HandleImplements ==
  ASSUME TypeOK, Followed, EndsOnce, Handle
  PROVE  Feed!Hear(source)
<1> DEFINE q == queue[source]
<1>1. /\ source \in Runs /\ link = "open" /\ wire # << >> /\ wire \in Seq(Events)
      /\ seen' = [seen EXCEPT ![source] = Append(@, Head(wire))]
      /\ UNCHANGED <<source, queue, emitted, post, thread, left>>
      /\ Head(wire) \in Terminal => runId' = NoRun /\ wire' = << >>
      /\ Head(wire) \notin Terminal => runId' = runId /\ wire' = Tail(wire)
  BY HandleFacts DEF TypeOK
<1>2. runId = source
  BY <1>1 DEF Followed, Runs, NoRun
<1>3. Head(wire) \in Terminal => Tail(wire) = << >>
  <2> SUFFICES ASSUME Head(wire) \in Terminal PROVE Tail(wire) = << >>
    OBVIOUS
  <2>1. 1 \in DOMAIN wire /\ wire[1] \in Terminal
    BY <1>1, TailFacts
  <2>2. Len(wire) = 1
    BY <2>1 DEF EndsOnce, Ending
  <2> DEFINE rest == Tail(wire)
  <2>3. rest \in Seq(Events) /\ Len(rest) = 0
    BY <1>1, <2>2, TailFacts
  <2> HIDE DEF rest
  <2>4. rest = << >>
    BY <2>3, EmptySeq
  <2> QED BY <2>4 DEF rest
<1>4. wire' = Tail(wire)
  BY <1>1, <1>3
<1>5. /\ untoldBar[source] = wire \o q /\ q \in Seq(Events)
  BY <1>1, UntoldTypes DEF Untold, OnWire
<1>6. wire \o q # << >> /\ Head(wire \o q) = Head(wire) /\ Tail(wire \o q) = Tail(wire) \o q
  <2> DEFINE w == wire
             l == Tail(w \o q)
             r == Tail(w) \o q
  <2>1. w \in Seq(Events) /\ w # << >> /\ q \in Seq(Events)
    BY <1>1, <1>5
  <2> HIDE DEF w, q
  <2>2. /\ Len(w) \in Nat \ {0} /\ Len(q) \in Nat /\ w \o q \in Seq(Events)
        /\ Len(w \o q) = Len(w) + Len(q)
        /\ \A i \in 1..Len(w) + Len(q) : (w \o q)[i] = IF i <= Len(w) THEN w[i] ELSE q[i - Len(w)]
    BY <2>1, ConcatProperties, TailFacts
  <2>3. w \o q # << >>
    BY <2>2
  <2>4. Head(w \o q) = (w \o q)[1] /\ Head(w) = w[1]
    BY <2>1, <2>2, <2>3, TailFacts
  <2>5. (w \o q)[1] = w[1]
    BY <2>2
  <2>6. /\ Tail(w) \in Seq(Events) /\ Len(Tail(w)) = Len(w) - 1
        /\ \A i \in 1..Len(w) - 1 : Tail(w)[i] = w[i + 1]
    BY <2>1, TailFacts
  <2>7. /\ l \in Seq(Events) /\ Len(l) = Len(w) + Len(q) - 1
        /\ \A i \in 1..Len(w) + Len(q) - 1 : l[i] = (w \o q)[i + 1]
    BY <2>2, <2>3, TailFacts
  <2>8. /\ r \in Seq(Events) /\ Len(r) = Len(w) - 1 + Len(q)
        /\ \A i \in 1..Len(w) - 1 + Len(q) :
              r[i] = IF i <= Len(w) - 1 THEN Tail(w)[i] ELSE q[i - (Len(w) - 1)]
    BY <2>1, <2>6, ConcatProperties
  <2> HIDE DEF l, r
  <2>9. Len(l) = Len(r)
    BY <2>2, <2>7, <2>8
  <2>10. ASSUME NEW i \in 1..Len(l) PROVE l[i] = r[i]
    <3>1. i \in 1..Len(w) + Len(q) - 1 /\ i + 1 \in 1..Len(w) + Len(q)
          /\ i \in 1..Len(w) - 1 + Len(q)
      BY <2>2, <2>7
    <3>2. CASE i <= Len(w) - 1
      <4>1. i \in 1..Len(w) - 1 /\ i + 1 <= Len(w)
        BY <2>2, <3>1, <3>2
      <4> QED BY <2>2, <2>6, <2>7, <2>8, <3>1, <3>2, <4>1
    <3>3. CASE ~(i <= Len(w) - 1)
      <4>1. ~(i + 1 <= Len(w)) /\ (i + 1) - Len(w) = i - (Len(w) - 1)
        BY <2>2, <3>1, <3>3
      <4> QED BY <2>2, <2>7, <2>8, <3>1, <3>3, <4>1
    <3> QED BY <3>2, <3>3
  <2>11. l = r
    BY <2>7, <2>8, <2>9, <2>10, SeqEqual
  <2> QED BY <2>3, <2>4, <2>5, <2>11 DEF w, q, l, r
<1>7. untoldBar' = [untoldBar EXCEPT ![source] = Tail(@)]
  <2>1. Untold(source)' = Tail(wire) \o q
    BY <1>1, <1>4 DEF Untold, OnWire
  <2>2. \A m \in Runs \ {source} : Untold(m)' = Untold(m)
    BY <1>1 DEF Untold, OnWire
  <2>3. untoldBar' = [untoldBar EXCEPT ![source] = Tail(wire) \o q]
    BY <1>1, <2>1, <2>2, UntoldMoves
  <2> HIDE DEF q
  <2> QED BY <1>5, <1>6, <2>3
<1>8. stageBar' = stageBar /\ Answered' = Answered /\ brokenBar' = brokenBar
  BY <1>1, StageKept DEF StageOf, Answered, brokenBar
<1>9. runId' = IF Head(wire) \in Feed!Last THEN NoRun ELSE source
  BY <1>1, <1>2 DEF Feed!Last, Terminal
<1> HIDE DEF q
<1> QED BY <1>1, <1>2, <1>5, <1>6, <1>7, <1>8, <1>9 DEF Feed!Hear

LEMMA FeedStep ==
  ASSUME TypeOK, Followed, EndsOnce, FeedInv, [Next]_vars
  PROVE  [Feed!Next]_(Feed!vars)
<1>a. ~Drop => left'["drop"] = left["drop"]
  BY Spent
<1>b. ASSUME UNCHANGED thread, UNCHANGED emitted PROVE stageBar' = stageBar
  BY <1>b, StageKept DEF StageOf
<1>1. ASSUME NEW n \in Runs, RunThread(n) \/ Raise(n) \/ FailToConnect(n) \/ Sample(n)
      PROVE  [Feed!Next]_(Feed!vars)
  <2>1. UNCHANGED left \/ \E k \in {"raise", "down"} : Befall(k)
    BY <1>1 DEF RunThread, Started, Phase, CloseRun, Raise, FailToConnect, Sample
  <2>2. left'["drop"] = left["drop"]
    BY <2>1 DEF Befall, TypeOK, MishapKinds
  <2> QED BY <1>1, <2>2, ThreadImplements DEF FeedInv
<1>2. ASSUME NEW n \in Runs, Click(n) \/ Route(n) PROVE UNCHANGED Feed!vars
  <2>1. UNCHANGED <<source, wire, queue, seen, runId, emitted>>
    BY <1>2 DEF Click, Route, Refuse, Accept, Answer, pageVars, serverVars
  <2>2. left'["drop"] = left["drop"]
    <3>1. UNCHANGED left \/ \E k \in {"double", "slow"} : Befall(k)
      BY <1>2 DEF Click, Route, Refuse, Accept, Answer
    <3> QED BY <3>1 DEF Befall, TypeOK, MishapKinds
  <2>3. Answered' = Answered
    BY <1>2 DEF Click, Route, Refuse, Accept, Answer, Answered, TypeOK
  <2>4. stageBar' = stageBar
    <3>1. CASE Accept(n)
      <4>1. thread[n] = "none" /\ thread' = [thread EXCEPT ![n] = "starting"]
        BY <3>1 DEF Accept, FeedInv, Spoken
      <4>2. \A m \in Runs : StageOf(m)' = StageOf(m)
        BY <2>1, <4>1 DEF StageOf, TypeOK
      <4> QED BY <4>2, StageKept
    <3>2. CASE ~Accept(n)
      <4>1. UNCHANGED thread
        BY <1>2, <3>2 DEF Click, Route, Refuse, Answer
      <4> QED BY <1>b, <2>1, <4>1
    <3> QED BY <3>1, <3>2
  <2> QED BY <2>1, <2>2, <2>3, <2>4, FeedRests
<1>3. ASSUME NEW n \in Runs, Subscribe(n) PROVE [Feed!Next]_(Feed!vars)
  <2>1. Feed!Follow(n)
    BY <1>3, SubscribeImplements DEF FeedInv
  <2> QED BY <2>1 DEF Feed!Next
<1>4. ASSUME NEW n \in Runs, PostFailed(n) PROVE [Feed!Next]_(Feed!vars)
  <2>1. /\ post[n] = "error" /\ post' = [post EXCEPT ![n] = "answered"]
        /\ UNCHANGED <<runId, source, wire, seen, queue, emitted, thread, left>>
    BY <1>4 DEF PostFailed, serverVars
  <2>2. n \notin Answered /\ Answered' = Answered \cup {n}
    BY <2>1 DEF Answered, TypeOK
  <2>3. untoldBar' = untoldBar
    BY <2>1, UntoldKept DEF Untold, OnWire
  <2>4. Feed!Refuse(n)
    BY <1>b, <2>1, <2>2, <2>3 DEF Feed!Refuse, brokenBar
  <2> QED BY <2>4 DEF Feed!Next
<1>5. ASSUME NEW n \in Runs, OpenStream(n) \/ Cancel(n) PROVE UNCHANGED Feed!vars
  <2>1. UNCHANGED <<source, wire, queue, seen, runId, emitted, post, thread, left>>
    BY <1>5 DEF OpenStream, Cancel, pageVars
  <2> QED BY <1>b, <2>1, FeedRests DEF Answered
<1>6. ASSUME NEW n \in Runs, Send(n) PROVE UNCHANGED Feed!vars
  <2>1. /\ source = n /\ queue[n] # << >> /\ queue' = [queue EXCEPT ![n] = Tail(@)]
        /\ wire' = Append(wire, Head(queue[n]))
        /\ UNCHANGED <<source, seen, runId, emitted, post, thread, left>>
    BY <1>6 DEF Send, Take, Followed
  <2>2. Append(wire, Head(queue[n])) \o Tail(queue[n]) = wire \o queue[n]
    BY <2>1, ConcatMove DEF TypeOK
  <2>3. \A m \in Runs : Untold(m)' = Untold(m)
    <3>1. Untold(n)' = Untold(n)
      BY <2>1, <2>2 DEF Untold, OnWire, TypeOK
    <3>2. \A m \in Runs \ {n} : Untold(m)' = Untold(m)
      BY <2>1 DEF Untold, OnWire, TypeOK
    <3> QED BY <3>1, <3>2
  <2>4. untoldBar' = untoldBar
    BY <2>3, UntoldKept
  <2> QED BY <1>b, <2>1, <2>4 DEF Feed!vars, Answered, brokenBar
<1>7. ASSUME NEW n \in Runs, Swallow(n) PROVE [Feed!Next]_(Feed!vars)
  <2>1. /\ orphan[n] /\ queue[n] # << >> /\ queue' = [queue EXCEPT ![n] = Tail(@)]
        /\ UNCHANGED <<source, wire, seen, runId, emitted, post, thread, left>>
    BY <1>7 DEF Swallow, Take, TakeCut, pageVars
  <2>2. n \in Answered /\ (runId = n => brokenBar)
    BY <2>1 DEF Followed, Answered, FeedInv, Whole
  <2>3. Feed!Loses(n)
    <3>1. Untold(n)' = OnWire(n) \o Tail(queue[n]) /\ \A m \in Runs \ {n} : Untold(m)' = Untold(m)
      BY <2>1 DEF Untold, OnWire, TypeOK
    <3>2. untoldBar' = [untoldBar EXCEPT ![n] = OnWire(n) \o Tail(queue[n])]
      BY <3>1, UntoldMoves
    <3> QED BY <2>1, <3>2, LosesHead
  <2>4. Feed!Lose(n)
    BY <1>b, <2>1, <2>2, <2>3 DEF Feed!Lose, Answered, brokenBar
  <2> QED BY <2>4 DEF Feed!Next
<1>8. CASE Drop
  <2>1. /\ link = "open" /\ wire' = << >>
        /\ UNCHANGED <<runId, source, seen, queue, emitted, post, thread>>
    BY <1>8 DEF Drop, Unsubscribe
  <2>2. runId = source /\ source \in Runs /\ source # NoRun
    BY <2>1 DEF Followed, TypeOK, Runs, NoRun
  <2>3. Feed!Loses(source)
    BY <2>1, <2>2, WireCut, LosesWire
  <2>4. brokenBar' = TRUE
    <3>1. left'["drop"] = left["drop"] - 1 /\ left["drop"] <= Mishaps["drop"]
          /\ left["drop"] \in Nat /\ Mishaps["drop"] \in Nat
      BY <1>8, ConsoleAssumption DEF Drop, Befall, FeedInv, Whole, TypeOK, MishapKinds, ConsoleAssumption
    <3>2. left'["drop"] # Mishaps["drop"]
      BY <3>1
    <3> QED BY <3>2 DEF brokenBar
  <2>5. Feed!Break
    BY <1>b, <2>1, <2>2, <2>3, <2>4 DEF Feed!Break, Answered
  <2> QED BY <2>5 DEF Feed!Next
<1>9. CASE Handle
  <2>1. Feed!Hear(source) /\ source \in Runs
    BY <1>9, HandleImplements, HandleFacts
  <2> QED BY <2>1 DEF Feed!Next
<1>10. CASE UNCHANGED vars
  BY <1>b, <1>10, FeedRests DEF vars, pageVars, serverVars, Answered
<1> QED BY <1>1, <1>2, <1>3, <1>4, <1>5, <1>6, <1>7, <1>8, <1>9, <1>10 DEF Next, Page, Stream

(***************************************************************************)
(* The run console is the feed a page is promised (RunFeed), under every   *)
(* mishap: a run's phases are told in order and with one end, the page     *)
(* hears them in that order and nothing twice, follows a run until it has  *)
(* heard the end, and loses nothing of it before a connection has broken.  *)
(***************************************************************************)
THEOREM FeedRefinement == Spec => ImplementsFeed
<1>1. Init => FeedInv
  BY ConsoleAssumption DEF Init, FeedInv, Whole, Spoken, ConsoleAssumption, MishapKinds, brokenBar
<1>2. Init => Feed!Init
  <2> SUFFICES ASSUME Init PROVE Feed!Init
    OBVIOUS
  <2>1. stageBar = [n \in Runs |-> "new"]
    BY DEF Init, stageBar, StageOf
  <2>2. untoldBar = [n \in Runs |-> << >>]
    BY DEF Init, untoldBar, Untold, OnWire
  <2> QED BY <2>1, <2>2 DEF Init, Feed!Init, Answered, brokenBar
<1>3. ConsoleInv /\ FeedInv /\ [Next]_vars => FeedInv'
  BY WholeStep, SpokenStep DEF ConsoleInv, FeedInv
<1>4. ConsoleInv /\ FeedInv /\ [Next]_vars => [Feed!Next]_(Feed!vars)
  BY FeedStep DEF ConsoleInv
<1> QED BY <1>1, <1>2, <1>3, <1>4, ConsoleAlways, PTL DEF Spec, ImplementsFeed, Feed!Spec

=============================================================================
