----------------------------- MODULE RunConsole -----------------------------
(***************************************************************************)
(* A run started from the browser: the page (templates/index.html), the    *)
(* routes POST /api/run and GET /api/run/{id}/stream of the inspector      *)
(* (inspector/server.py), and the thread api_start_run spawns for each     *)
(* run, of which only the events it emits matter here.                     *)
(*                                                                         *)
(* The n-th POST makes the n-th run, so its number is also its run id.     *)
(* What goes wrong outside the program is bounded by Mishaps: "drop", the  *)
(* connection of a stream breaks; "slow", connecting to the broker takes   *)
(* longer than the POST waits; "down", it fails; "raise", the orchestrator *)
(* ends with an exception; "double", the user clicks while a POST is on    *)
(* its way.                                                                *)
(***************************************************************************)
EXTENDS Naturals, Sequences, FiniteSets

CONSTANTS
    MaxRuns,     \* how many POSTs there are
    MaxSamples,  \* how many live samples a run produces at most
    Mishaps      \* how often each mishap may occur

Runs == 1 .. MaxRuns
NoRun == 0
MishapKinds == {"drop", "slow", "down", "raise", "double"}

ASSUME ConsoleAssumption ==
    /\ MaxRuns \in Nat
    /\ MaxSamples \in Nat
    /\ Mishaps \in [MishapKinds -> Nat]

(***************************************************************************)
(* The events of a run in the order of its thread, samples in between.     *)
(***************************************************************************)
Terminal == {"done", "error"}
Events == {"started", "preparing", "running", "collecting", "sample"} \cup Terminal

VARIABLES
    runId,       \* the page: runId, or NoRun; Start is disabled unless NoRun
    shown,       \* the page: what the phase badge says
    source,      \* the page: the run of runEventSource, or NoRun
    link,        \* the page: readyState of runEventSource
    wire,        \* events the server has sent on it, not yet handled
    post,        \* post[n]: the n-th POST
    thread,      \* thread[n]: its _run_thread
    registered,  \* the keys of _run_queues
    queue,       \* queue[n]: the asyncio queue of run n
    streaming,   \* streaming[n]: the generator of the open stream of run n
    orphan,      \* orphan[n]: a generator of n whose browser is gone
    emitted,     \* history: what was put in queue[n]
    seen,        \* history: what the page handled of run n
    left         \* how many more mishaps of each kind may occur

pageVars == <<runId, shown, source, link, wire, seen>>
serverVars == <<registered, queue, streaming, orphan, emitted>>
vars == <<pageVars, serverVars, post, thread, left>>

Posts == {"new", "sent", "waiting", "ok", "error", "answered"}
Steps == {"none", "starting", "started", "preparing", "running", "collecting", "closing", "over"}

TypeOK ==
    /\ runId \in Runs \cup {NoRun}
    /\ shown \in {"idle", "preparing", "running", "collecting"} \cup Terminal
    /\ source \in Runs \cup {NoRun}
    /\ link \in {"connecting", "open", "closed"}
    /\ wire \in Seq(Events)
    /\ post \in [Runs -> Posts]
    /\ thread \in [Runs -> Steps]
    /\ registered \subseteq Runs
    /\ queue \in [Runs -> Seq(Events)]
    /\ streaming \in [Runs -> BOOLEAN]
    /\ orphan \in [Runs -> BOOLEAN]
    /\ emitted \in [Runs -> Seq(Events)]
    /\ seen \in [Runs -> Seq(Events)]
    /\ left \in [MishapKinds -> Nat]

Init ==
    /\ runId = NoRun /\ shown = "idle"
    /\ source = NoRun /\ link = "closed" /\ wire = << >>
    /\ post = [n \in Runs |-> "new"]
    /\ thread = [n \in Runs |-> "none"]
    /\ registered = {}
    /\ queue = [n \in Runs |-> << >>]
    /\ streaming = [n \in Runs |-> FALSE]
    /\ orphan = [n \in Runs |-> FALSE]
    /\ emitted = [n \in Runs |-> << >>]
    /\ seen = [n \in Runs |-> << >>]
    /\ left = Mishaps

Befall(k) == left[k] > 0 /\ left' = [left EXCEPT ![k] = @ - 1]

-----------------------------------------------------------------------------

(***************************************************************************)
(* The click handler of btn-run: nothing but runId keeps it from posting,  *)
(* and runId is set by the answer.                                         *)
(***************************************************************************)
Pending == {n \in Runs : post[n] \notin {"new", "answered"}}

Click(n) ==
    /\ runId = NoRun
    /\ post[n] = "new" /\ \A m \in Runs : m < n => post[m] # "new"
    /\ IF Pending = {} THEN UNCHANGED left ELSE Befall("double")
    /\ post' = [post EXCEPT ![n] = "sent"]
    /\ shown' = "preparing"
    /\ UNCHANGED <<runId, source, link, wire, seen, serverVars, thread>>

(***************************************************************************)
(* api_start_run, up to the wait for the run id: a 400 if one of the       *)
(* agents is not online, else a thread.                                    *)
(***************************************************************************)
Refuse(n) ==
    /\ post[n] = "sent"
    /\ post' = [post EXCEPT ![n] = "error"]
    /\ UNCHANGED <<pageVars, serverVars, thread, left>>

Accept(n) ==
    /\ post[n] = "sent"
    /\ post' = [post EXCEPT ![n] = "waiting"]
    /\ thread' = [thread EXCEPT ![n] = "starting"]
    /\ UNCHANGED <<pageVars, serverVars, left>>

(***************************************************************************)
(* The wait of five seconds is over: with the run id, or without, because  *)
(* the thread is slow or dead.                                             *)
(***************************************************************************)
Answer(n) ==
    /\ post[n] = "waiting"
    /\ \/ /\ thread[n] # "starting" /\ emitted[n] # << >>
          /\ post' = [post EXCEPT ![n] = "ok"] /\ UNCHANGED left
       \/ /\ thread[n] = "over" /\ emitted[n] = << >>
          /\ post' = [post EXCEPT ![n] = "error"] /\ UNCHANGED left
       \/ /\ thread[n] = "starting" /\ Befall("slow")
          /\ post' = [post EXCEPT ![n] = "error"]
    /\ UNCHANGED <<pageVars, serverVars, thread>>

-----------------------------------------------------------------------------

\* Mutant: the newest event is served first.
PutFirst(n, e) ==
    /\ queue' = [queue EXCEPT ![n] = <<e>> \o @]
    /\ emitted' = [emitted EXCEPT ![n] = Append(@, e)]

(***************************************************************************)
(* on_event: put an event in the queue of the run; "started" registers it. *)
(***************************************************************************)
Put(n, e) ==
    /\ queue' = [queue EXCEPT ![n] = Append(@, e)]
    /\ emitted' = [emitted EXCEPT ![n] = Append(@, e)]

Emit(n, from, e, to) ==
    /\ thread[n] = from
    /\ thread' = [thread EXCEPT ![n] = to]
    /\ Put(n, e)
    /\ UNCHANGED <<pageVars, streaming, orphan, post>>

Started(n) ==
    /\ Emit(n, "starting", "started", "started")
    /\ registered' = registered \cup {n}
    /\ UNCHANGED left

\* Mutant: a prepare timeout is not told.
PhaseSilent(n) ==
    /\ \/ Emit(n, "started", "preparing", "preparing")
       \/ Emit(n, "preparing", "running", "running")
       \/ /\ thread[n] = "preparing"
          /\ thread' = [thread EXCEPT ![n] = "closing"]
          /\ UNCHANGED <<pageVars, queue, emitted, streaming, orphan, post>>
       \/ Emit(n, "running", "collecting", "collecting")
       \/ Emit(n, "collecting", "done", "closing")
    /\ UNCHANGED <<registered, left>>

(***************************************************************************)
(* The phases.  The error of a prepare timeout and the final done are      *)
(* emitted before the servers are stopped and the bus is closed, the error *)
(* of an exception in between.                                             *)
(***************************************************************************)
Phase(n) ==
    /\ \/ Emit(n, "started", "preparing", "preparing")
       \/ Emit(n, "preparing", "running", "running")
       \/ Emit(n, "preparing", "error", "closing")
       \/ Emit(n, "running", "collecting", "collecting")
       \/ Emit(n, "collecting", "done", "closing")
    /\ UNCHANGED <<registered, left>>

Raise(n) ==
    /\ Befall("raise")
    /\ \E p \in {"started", "preparing", "running", "collecting"} : Emit(n, p, "error", "closing")
    /\ UNCHANGED registered

CloseRun(n) ==
    /\ thread[n] = "closing"
    /\ thread' = [thread EXCEPT ![n] = "over"]
    /\ UNCHANGED <<pageVars, serverVars, post, left>>

(***************************************************************************)
(* Orchestrator() raises outside the try: the thread ends without a word.  *)
(***************************************************************************)
FailToConnect(n) ==
    /\ thread[n] = "starting"
    /\ Befall("down")
    /\ thread' = [thread EXCEPT ![n] = "over"]
    /\ UNCHANGED <<pageVars, serverVars, post>>

(***************************************************************************)
(* _on_live of the inspector's own MQTT thread: samples of a registered    *)
(* run, also late ones.                                                    *)
(***************************************************************************)
Sample(n) ==
    /\ n \in registered
    /\ thread[n] \in {"running", "collecting", "closing", "over"}
    /\ Len(SelectSeq(emitted[n], LAMBDA e : e = "sample")) < MaxSamples
    /\ Put(n, "sample")
    /\ UNCHANGED <<pageVars, registered, streaming, orphan, post, thread, left>>

-----------------------------------------------------------------------------

(***************************************************************************)
(* The page gets the answer.  Subscribing closes the former EventSource;   *)
(* its generator lives until the server notices.                           *)
(***************************************************************************)
Unsubscribe ==
    /\ streaming' = [n \in Runs |-> FALSE]
    /\ orphan' = [n \in Runs |-> orphan[n] \/ streaming[n]]
    /\ wire' = << >>

Subscribe(n) ==
    /\ post[n] = "ok"
    /\ post' = [post EXCEPT ![n] = "answered"]
    /\ runId' = n /\ source' = n /\ link' = "connecting"
    /\ Unsubscribe
    /\ UNCHANGED <<shown, seen, registered, queue, emitted, thread, left>>

PostFailed(n) ==
    /\ post[n] = "error"
    /\ post' = [post EXCEPT ![n] = "answered"]
    /\ shown' = "error"
    /\ UNCHANGED <<runId, source, link, wire, seen, serverVars, thread, left>>

(***************************************************************************)
(* api_run_stream: a generator over the queue, or a 404, after which an    *)
(* EventSource does not try again.                                         *)
(***************************************************************************)
OpenStream(n) ==
    /\ source = n /\ link = "connecting"
    /\ IF n \in registered
       THEN link' = "open" /\ streaming' = [streaming EXCEPT ![n] = TRUE]
       ELSE link' = "closed" /\ UNCHANGED streaming
    /\ UNCHANGED <<runId, shown, source, wire, seen, registered, queue, orphan, emitted>>
    /\ UNCHANGED <<post, thread, left>>

(***************************************************************************)
(* The generator takes an event and goes no further than its yield.        *)
(***************************************************************************)
TakeCut(n) ==
    /\ queue[n] # << >>
    /\ queue' = [queue EXCEPT ![n] = Tail(@)]
    /\ UNCHANGED registered

\* Mutant: the event stays in the queue.
TakePeeking(n) ==
    /\ queue[n] # << >>
    /\ UNCHANGED queue
    /\ registered' = IF Head(queue[n]) \in Terminal THEN registered \ {n} ELSE registered

(***************************************************************************)
(* The generator takes an event and sends it; after the last one it drops  *)
(* the queue and ends.                                                     *)
(***************************************************************************)
Take(n) ==
    /\ queue[n] # << >>
    /\ queue' = [queue EXCEPT ![n] = Tail(@)]
    /\ registered' = IF Head(queue[n]) \in Terminal THEN registered \ {n} ELSE registered

Send(n) ==
    /\ streaming[n]
    /\ Take(n)
    /\ wire' = Append(wire, Head(queue[n]))
    /\ streaming' = [streaming EXCEPT ![n] = Head(queue[n]) \notin Terminal]
    /\ UNCHANGED <<runId, shown, source, link, seen, orphan, emitted, post, thread, left>>

(***************************************************************************)
(* A generator whose browser is gone may still take events from the queue, *)
(* until the server cancels it, also in the middle of one.                 *)
(***************************************************************************)
Swallow(n) ==
    /\ orphan[n]
    /\ Take(n) \/ TakeCut(n)
    /\ orphan' = [orphan EXCEPT ![n] = Head(queue[n]) \notin Terminal]
    /\ UNCHANGED <<pageVars, streaming, emitted, post, thread, left>>

Cancel(n) ==
    /\ orphan[n]
    /\ orphan' = [orphan EXCEPT ![n] = FALSE]
    /\ UNCHANGED <<pageVars, registered, queue, streaming, emitted, post, thread, left>>

(***************************************************************************)
(* The connection of the stream breaks; the browser opens the same URL     *)
(* again.                                                                  *)
(***************************************************************************)
Drop ==
    /\ link = "open"
    /\ Befall("drop")
    /\ link' = "connecting"
    /\ Unsubscribe
    /\ UNCHANGED <<runId, shown, source, seen, registered, queue, emitted, post, thread>>

\* Mutant: every event is shown as a phase.
HandleAny ==
    LET e == Head(wire) IN
    /\ wire # << >> /\ link = "open"
    /\ seen' = [seen EXCEPT ![source] = Append(@, e)]
    /\ shown' = e
    /\ IF e \in Terminal
       THEN /\ runId' = NoRun /\ link' = "closed"
            /\ Unsubscribe
       ELSE /\ wire' = Tail(wire)
            /\ UNCHANGED <<runId, link, streaming, orphan>>
    /\ UNCHANGED <<source, registered, queue, emitted, post, thread, left>>

(***************************************************************************)
(* runEventSource.onmessage                                                *)
(***************************************************************************)
Handle ==
    LET e == Head(wire) IN
    /\ wire # << >> /\ link = "open"
    /\ seen' = [seen EXCEPT ![source] = Append(@, e)]
    /\ shown' = IF e \in {"preparing", "running", "collecting"} \cup Terminal THEN e ELSE shown
    /\ IF e \in Terminal
       THEN /\ runId' = NoRun /\ link' = "closed"
            /\ Unsubscribe
       ELSE /\ wire' = Tail(wire)
            /\ UNCHANGED <<runId, link, streaming, orphan>>
    /\ UNCHANGED <<source, registered, queue, emitted, post, thread, left>>

-----------------------------------------------------------------------------

RunThread(n) == Started(n) \/ Phase(n) \/ CloseRun(n)
Route(n) == Refuse(n) \/ Accept(n) \/ Answer(n)
Stream(n) == OpenStream(n) \/ Send(n)
Page(n) == Subscribe(n) \/ PostFailed(n)

Next ==
    \/ \E n \in Runs :
          \/ Click(n) \/ Page(n) \/ Route(n) \/ RunThread(n) \/ Stream(n)
          \/ Raise(n) \/ FailToConnect(n) \/ Sample(n) \/ Swallow(n) \/ Cancel(n)
    \/ Drop
    \/ Handle

Spec == Init /\ [][Next]_vars

(***************************************************************************)
(* Threads, the event loop and the browser go on; the server notices a     *)
(* broken connection.  Clicks, samples and mishaps need not happen.        *)
(***************************************************************************)
Fairness ==
    /\ \A n \in Runs :
          /\ WF_vars(Page(n)) /\ WF_vars(Route(n)) /\ WF_vars(RunThread(n))
          /\ WF_vars(Stream(n)) /\ WF_vars(Cancel(n))
    /\ WF_vars(Handle)

FairSpec == Spec /\ Fairness

-----------------------------------------------------------------------------

(***************************************************************************)
(* A connection that does not break loses, repeats and reorders nothing:   *)
(* what the page has handled of the run it follows, what is on the wire    *)
(* and what waits in the queue are, in this order, what was emitted.       *)
(***************************************************************************)
NothingLost ==
    source # NoRun /\ link = "open"
        => seen[source] \o wire \o queue[source] = emitted[source]

(***************************************************************************)
(* Whatever breaks, the page handles no event of a run twice and none      *)
(* after the last: a stream opened again goes on where the queue is.       *)
(***************************************************************************)
Ending(s) == {i \in DOMAIN s : s[i] \in Terminal}
Count(s, e) == Cardinality({i \in DOMAIN s : s[i] = e})

HandledOnce ==
    \A n \in Runs :
        /\ \A e \in Events : Count(seen[n], e) <= Count(emitted[n], e)
        /\ Ending(seen[n]) \subseteq {Len(seen[n])}

(***************************************************************************)
(* The badge never goes back while the page follows one run.               *)
(***************************************************************************)
Rank(p) == CASE p = "idle" -> 0 [] p = "preparing" -> 1 [] p = "running" -> 2
             [] p = "collecting" -> 3 [] OTHER -> 4

BadgeGoesOn ==
    [][runId # NoRun /\ runId' \in {runId, NoRun} => Rank(shown') >= Rank(shown)]_vars

(***************************************************************************)
(* When the page is done with its runs and their threads have ended, no    *)
(* queue is left in _run_queues.                                           *)
(***************************************************************************)
QueuesReleased ==
    runId = NoRun /\ Pending = {} /\ (\A n \in Runs : thread[n] \in {"none", "over"})
        => registered = {}

(***************************************************************************)
(* A run the page follows gives the Start button back: its done or error   *)
(* arrives.                                                                *)
(***************************************************************************)
StartComesBack == \A n \in Runs : runId = n ~> runId # n

-----------------------------------------------------------------------------

(***************************************************************************)
(* The run console is the feed a page is promised.  What is on the wire    *)
(* and what waits in the queue is what the page has not been told; a run   *)
(* that ended without a word is one whose orchestrator never connected.    *)
(***************************************************************************)
Answered == {n \in Runs : post[n] = "answered"}

OnWire(n) == IF source = n THEN wire ELSE << >>

Untold(n) == OnWire(n) \o queue[n]

StageOf(n) ==
    CASE thread[n] \in {"none", "starting"} -> "new"
      [] thread[n] \in {"closing", "over"} -> IF emitted[n] = << >> THEN "failed" ELSE "ended"
      [] OTHER -> thread[n]

stageBar == [n \in Runs |-> StageOf(n)]
untoldBar == [n \in Runs |-> Untold(n)]
brokenBar == left["drop"] # Mishaps["drop"]

Feed == INSTANCE RunFeed WITH
    stage <- stageBar, untold <- untoldBar, told <- seen, following <- runId,
    answered <- Answered, broken <- brokenBar

ImplementsFeed == Feed!Spec

=============================================================================
