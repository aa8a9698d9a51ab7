---------------------------- MODULE PreciseStart ----------------------------
(***************************************************************************)
(* shared/sync.py: sleep_until brings a station to the target on its wall  *)
(* clock by a coarse sleep and a busy wait on the monotonic clock, which   *)
(* runs with real time.  A wall clock may be stepped (NTP) at any moment,  *)
(* and the message with the target may come late.                          *)
(***************************************************************************)
EXTENDS Integers

CONSTANTS
    Stations,
    Target,      \* target_unix_ms
    BusyWait,    \* BUSY_WAIT_MS
    Overshoot,   \* how late time.sleep may return
    MaxSteps,    \* bound: steps of wall clocks
    Horizon      \* bound: real time

ASSUME StartAssumption ==
    Target \in Nat /\ BusyWait \in Nat /\ Overshoot \in Nat /\ Overshoot <= BusyWait

VARIABLES
    time,     \* real time, and time.perf_counter()
    skew,     \* wall clock minus real time
    sleeper,  \* sleep_until: where it is, and when it may go on
    steps,    \* steps of the clocks so far
    stepped,  \* history: stations whose clock was stepped since they went to sleep,
    shaken    \*   and since they began to spin
startVars == <<time, skew, sleeper, steps, stepped, shaken>>

Clock(s) == time + skew[s]                                    \* time.time()

StartInit ==
    /\ time = 0 /\ steps = 0 /\ stepped = {} /\ shaken = {}
    /\ skew = [s \in Stations |-> 0]
    /\ sleeper = [s \in Stations |-> [pc |-> "wait", until |-> 0, inTime |-> FALSE]]

(* Phase 1: sleep until BusyWait before the target, if that is to come.    *)
Sleep(s) ==
    LET delta == Target - BusyWait - Clock(s)
    IN  /\ sleeper[s].pc = "wait"
        /\ sleeper' = [sleeper EXCEPT ![s] =
             [pc |-> "sleep", until |-> IF delta > 0 THEN time + delta ELSE time,
              inTime |-> delta >= 0]]
        /\ UNCHANGED <<time, skew, steps, stepped, shaken>>

\* Mutant: the rest is what it should be after the sleep.
AnchorBlindly(s) ==
    /\ sleeper[s].pc = "sleep" /\ time >= sleeper[s].until
    /\ sleeper' = [sleeper EXCEPT ![s].pc = "spin", ![s].until = @ + BusyWait]
    /\ UNCHANGED <<time, skew, steps, stepped, shaken>>

(* Phase 2: the rest is taken from the wall clock once more.               *)
Anchor(s) ==
    /\ sleeper[s].pc = "sleep" /\ time >= sleeper[s].until
    /\ sleeper' = [sleeper EXCEPT ![s] =
         [pc |-> "spin", until |-> time + Target - Clock(s), inTime |-> @.inTime]]
    /\ UNCHANGED <<time, skew, steps, stepped, shaken>>

Begin(s) ==
    /\ sleeper[s].pc = "spin" /\ time >= sleeper[s].until
    /\ sleeper' = [sleeper EXCEPT ![s] = [pc |-> "begun", until |-> Clock(s), inTime |-> @.inTime]]
    /\ UNCHANGED <<time, skew, steps, stepped, shaken>>

(* A sleep overshoots by no more than Overshoot, a spin by nothing.        *)
Tick ==
    /\ time < Horizon /\ time' = time + 1
    /\ \A s \in Stations :
        /\ sleeper[s].pc = "sleep" => time < sleeper[s].until + Overshoot
        /\ sleeper[s].pc = "spin" => time < sleeper[s].until
    /\ UNCHANGED <<skew, sleeper, steps, stepped, shaken>>

StepClock(s, by) ==
    /\ steps < MaxSteps /\ steps' = steps + 1
    /\ skew' = [skew EXCEPT ![s] = @ + by]
    /\ stepped' = IF sleeper[s].pc = "wait" THEN stepped ELSE stepped \cup {s}
    /\ shaken' = IF sleeper[s].pc = "spin" THEN shaken \cup {s} ELSE shaken
    /\ UNCHANGED <<time, sleeper>>

StartNext ==
    \/ Tick
    \/ \E s \in Stations :
        \/ Sleep(s) \/ Anchor(s) \/ Begin(s)
        \/ \E by \in {-1, 1} : StepClock(s, by)

(* A station never begins before the target on its own clock, even if that *)
(* was stepped during the sleep, unless it is stepped during the busy wait *)
(* (sleep_until); told in time, and with a clock left alone, it begins     *)
(* exactly on target if the sleep returned within the busy wait            *)
(* (StartAssumption); the outliers sync.py speaks of make it late.         *)
StartsOnTarget ==
    \A s \in Stations : sleeper[s].pc = "begun" =>
        /\ s \notin shaken => sleeper[s].until >= Target
        /\ s \notin stepped /\ sleeper[s].inTime => sleeper[s].until = Target

=============================================================================
