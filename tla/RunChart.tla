------------------------------ MODULE RunChart ------------------------------
(***************************************************************************)
(* The chart of the page (inspector/templates/index.html): samples of a    *)
(* run are queued per agent, and a metronome, started by a timer 250 ms    *)
(* after the first sample, moves one of each queue per second into slots   *)
(* laid out for the run's duration.  Samples are numbered per agent as     *)
(* they arrive; 0 is an empty slot.                                        *)
(***************************************************************************)
EXTENDS Integers, Sequences, FiniteSets

CONSTANTS
    Ids,       \* activeAgents
    Duration,  \* durationSec: slots of the chart
    MaxRuns,   \* bound: runs started from the page
    MaxSent    \* bound: samples of an agent in a run

ASSUME ChartAssumption == Duration \in Nat /\ MaxRuns \in Nat /\ MaxSent \in Nat

VARIABLES
    run,        \* clicks so far, whether a stream is open (runId), POSTs under way,
                \* and history: streams opened since the last click
    queue,      \* sampleQueue
    arrived,    \* samples arrived in this run
    slots,      \* chart.data.datasets
    sec,        \* metronomeSec, no longer counted once it is off the chart
    timeouts,   \* runs whose 250 ms timer is pending
    intervals,  \* intervals that tick, by the run whose timer has set them
    metronome,  \* the handle the page keeps, or none
    elapsed,    \* elapsedTimer is on
    gaps,       \* history: slots left empty by a tick that found no sample
    strayed     \* history: a timer has fired when its run was over
chartVars ==
    <<run, queue, arrived, slots, sec, timeouts, intervals, metronome, elapsed, gaps, strayed>>

Zero == [id \in Ids |-> 0]
Drawn(id) == {i \in 1..Duration : slots[id][i] # 0}
Live == run.phase = "live"

ChartTypeOK ==
    /\ run.number \in 0..MaxRuns /\ run.posts \in 0..MaxRuns /\ run.streams \in 0..MaxRuns /\ sec \in 0..Duration
    /\ \A id \in Ids : Len(slots[id]) = Duration /\ Len(queue[id]) <= arrived[id]
    /\ timeouts \subseteq 1..MaxRuns

ChartInit ==
    /\ run = [number |-> 0, phase |-> "idle", posts |-> 0, streams |-> 0]
    /\ queue = [id \in Ids |-> <<>>] /\ arrived = Zero /\ gaps = Zero
    /\ slots = [id \in Ids |-> [i \in 1..Duration |-> 0]]
    /\ sec = 0 /\ timeouts = {} /\ intervals = {} /\ metronome = 0
    /\ elapsed = FALSE /\ strayed = FALSE

\* clearInterval of the one handle the page has.
ClearMetronome ==
    /\ intervals' = intervals \ {metronome}
    /\ metronome' = 0

Asked == [number |-> run.number + 1, phase |-> "posting", posts |-> run.posts + 1, streams |-> 0]

\* Mutant: the queues of the last run are kept.
ClickKeeping ==
    /\ ~Live /\ run.number < MaxRuns
    /\ run' = Asked
    /\ arrived' = Zero /\ gaps' = Zero
    /\ slots' = [id \in Ids |-> [i \in 1..Duration |-> 0]]
    /\ sec' = 0 /\ ClearMetronome
    /\ UNCHANGED <<queue, timeouts, elapsed, strayed>>

(* The click handler up to the POST: a chart of empty slots.  The button   *)
(* is on as long as runId is null, also while a POST is under way.         *)
Click ==
    /\ ~Live /\ run.number < MaxRuns
    /\ run' = Asked
    /\ queue' = [id \in Ids |-> <<>>] /\ arrived' = Zero /\ gaps' = Zero
    /\ slots' = [id \in Ids |-> [i \in 1..Duration |-> 0]]
    /\ sec' = 0 /\ ClearMetronome
    /\ UNCHANGED <<timeouts, elapsed, strayed>>

(* A POST returns: the page follows the run, and no longer the one of an   *)
(* earlier POST, with the chart as it is.                                  *)
Posted(ok) ==
    /\ run.posts > 0
    /\ run' = [run EXCEPT !.posts = @ - 1,
                          !.phase = IF ok THEN "live" ELSE IF Live THEN @ ELSE "idle",
                          !.streams = IF ok THEN @ + 1 ELSE @]
    /\ UNCHANGED <<queue, arrived, slots, sec, timeouts, intervals, metronome, elapsed, gaps, strayed>>

(* A sample: the first one of the run starts the timers.                   *)
Sample(id) ==
    LET first == \A i \in Ids : arrived[i] = 0
    IN  /\ Live /\ arrived[id] < MaxSent
        /\ arrived' = [arrived EXCEPT ![id] = @ + 1]
        /\ queue' = [queue EXCEPT ![id] = Append(@, arrived'[id])]
        /\ timeouts' = IF first THEN timeouts \cup {run.number} ELSE timeouts
        /\ elapsed' = (first \/ elapsed)
        /\ UNCHANGED <<run, slots, sec, intervals, metronome, gaps, strayed>>

(* metronomeTick: without a sample in the queue the slot is emptied.       *)
MetronomeTick ==
    /\ slots' = [id \in Ids |-> IF sec = Duration THEN slots[id]
                   ELSE [slots[id] EXCEPT ![sec + 1] =
                           IF queue[id] = <<>> THEN 0 ELSE Head(queue[id])]]
    /\ queue' = [id \in Ids |-> IF queue[id] = <<>> THEN <<>> ELSE Tail(queue[id])]
    /\ gaps' = [id \in Ids |-> gaps[id] + IF sec < Duration /\ queue[id] = <<>> THEN 1 ELSE 0]
    /\ sec' = IF sec < Duration THEN sec + 1 ELSE sec

(* The timer of 250 ms, whatever has become of its run.                    *)
FirstTick(r) ==
    /\ r \in timeouts /\ timeouts' = timeouts \ {r}
    /\ MetronomeTick
    /\ intervals' = intervals \cup {r} /\ metronome' = r
    /\ strayed' = (strayed \/ ~Live \/ r # run.number)
    /\ UNCHANGED <<run, arrived, elapsed>>

Tick ==
    /\ intervals # {}
    /\ MetronomeTick
    /\ UNCHANGED <<run, arrived, timeouts, intervals, metronome, elapsed, strayed>>

(* stopElapsedTimer, at the phase collecting or at the full time.          *)
StopElapsed ==
    /\ elapsed /\ elapsed' = FALSE
    /\ UNCHANGED <<run, queue, arrived, slots, sec, timeouts, intervals, metronome, gaps, strayed>>

\* Mutant: the metronome is left ticking.
FinishTicking(fill) ==
    /\ Live /\ run' = [run EXCEPT !.phase = "idle"]
    /\ elapsed' = FALSE
    /\ UNCHANGED <<queue, arrived, slots, sec, timeouts, intervals, metronome, gaps, strayed>>

Finish(fill) ==
    /\ Live /\ run' = [run EXCEPT !.phase = IF fill THEN "done" ELSE "idle"]
    /\ elapsed' = FALSE /\ ClearMetronome
    /\ slots' = IF ~fill THEN slots
                ELSE [id \in Ids |-> [i \in 1..Duration |->
                        IF i - sec \in DOMAIN queue[id] THEN queue[id][i - sec] ELSE slots[id][i]]]
    /\ queue' = IF ~fill THEN queue
                ELSE [id \in Ids |-> SubSeq(queue[id], Duration - sec + 1, Len(queue[id]))]
    /\ UNCHANGED <<arrived, sec, timeouts, gaps, strayed>>

\* Mutant: the remaining samples go to the first slots.
DoneFromStart ==
    /\ Live /\ run' = [run EXCEPT !.phase = "done"]
    /\ elapsed' = FALSE /\ ClearMetronome
    /\ slots' = [id \in Ids |-> [i \in 1..Duration |->
                    IF i \in DOMAIN queue[id] THEN queue[id][i] ELSE slots[id][i]]]
    /\ UNCHANGED <<queue, arrived, sec, timeouts, gaps, strayed>>

(* done fills what is queued into the slots to come; error does not.       *)
Done == Finish(TRUE)
Error == Finish(FALSE)

ChartNext ==
    \/ Click \/ Tick \/ StopElapsed \/ Done \/ Error
    \/ \E ok \in BOOLEAN : Posted(ok)
    \/ \E id \in Ids : Sample(id)
    \/ \E r \in 1..MaxRuns : FirstTick(r)

(***************************************************************************)
(* Properties.                                                             *)
(***************************************************************************)

(* What a line of the chart shows are samples of its agent in this run, in *)
(* the order they came and each once: while the run is live whichever      *)
(* timers tick, and afterwards unless a timer fires when its run is over   *)
(* (metronomeTick, the handler of done); but not after the POST of a       *)
(* second click has given the chart another run.                           *)
DrawnInOrder ==
    run.streams <= 1 /\ (Live \/ ~strayed) =>
        \A id \in Ids : \A i, j \in Drawn(id) : i < j => slots[id][i] < slots[id][j]

(* When done comes, every sample is drawn for which there is a slot: each  *)
(* tick that came before its sample has cost one (the handler of done).    *)
DrawnWhenDone ==
    [][Live /\ run.streams = 1 /\ run'.phase = "done" =>
        \A id \in Ids : LET room == Duration - gaps[id] IN
            Cardinality(Drawn(id)') = IF arrived[id] < room THEN arrived[id] ELSE room]_chartVars

(* When no run is live neither the elapsed time nor the metronome ticks,   *)
(* unless a timer of 250 ms has fired when its run was over, which leaves  *)
(* an interval, its own or the next run's, that the page has no handle of. *)
TimersAtRest == ~Live => ~elapsed /\ (strayed \/ intervals = {})

=============================================================================
