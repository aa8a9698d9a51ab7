----------------------------- MODULE ApCollector -----------------------------
(***************************************************************************)
(* controller/atf_ctrl/collector/ap_collector.py: every interval it lists  *)
(* the access point's stations, reads their cumulative airtime counters    *)
(* over SSH and writes the difference to the previous reading as a share   *)
(* of the time between the two.  Counters are in units of airtime, the     *)
(* clock in the same units, so that a station uses at most one per tick.   *)
(***************************************************************************)
EXTENDS Integers

CONSTANTS
    Macs,         \* stations
    MaxTime,      \* bound: ticks of the clock
    MaxJumps,     \* bound: times the wall clock is set back
    MaxRejoins    \* bound: times a station leaves, its counter starting again

VARIABLES
    now,       \* real time; the wall clock is behind it by the ticks it was set back
    jumps,     \* ticks the wall clock was set back
    air,       \* the airtime counter of each station at the access point
    assoc,     \* the stations it lists
    rejoins,   \* times a station left
    prev,      \* _prev_samples: mac -> counter, wall clock and how late that was
    round,     \* _collect_once: stations still to read, and what was read when
    points,    \* the points the last round wrote
    used,      \* history: airtime each station really used
    written    \* history: sum of the airtime written for each station

apVars == <<now, jumps, air, assoc, rejoins, prev, round, points, used, written>>

Idle == [reading |-> FALSE, macs |-> {}, read |-> <<>>]
Wall == now - jumps

\* A dictionary updated with the entries of another one.
Updated(old, new) ==
    [m \in DOMAIN new \cup DOMAIN old |-> IF m \in DOMAIN new THEN new[m] ELSE old[m]]

ApInit ==
    /\ now = 0 /\ jumps = 0 /\ rejoins = 0
    /\ assoc = Macs
    /\ prev = <<>> /\ round = Idle /\ points = <<>>
    /\ air = [m \in Macs |-> 0] /\ used = air /\ written = air

(* Time passes, and any associated stations are on the air. *)
Elapse(busy) ==
    LET more(f) == [m \in Macs |-> f[m] + IF m \in busy THEN 1 ELSE 0]
    IN  /\ now < MaxTime /\ now' = now + 1
        /\ air' = more(air) /\ used' = more(used)
        /\ UNCHANGED <<jumps, assoc, rejoins, prev, round, points, written>>

SetBack ==
    /\ jumps < MaxJumps /\ jumps' = jumps + 1
    /\ UNCHANGED <<now, air, assoc, rejoins, prev, round, points, used, written>>

(* A station that leaves takes its debugfs directory, and counter, along.  *)
Leave(m) ==
    /\ rejoins < MaxRejoins /\ rejoins' = rejoins + 1
    /\ m \in assoc /\ assoc' = assoc \ {m}
    /\ air' = [air EXCEPT ![m] = 0]
    /\ UNCHANGED <<now, jumps, prev, round, points, used, written>>

Rejoin(m) ==
    /\ m \notin assoc /\ assoc' = assoc \cup {m}
    /\ UNCHANGED <<now, jumps, air, rejoins, prev, round, points, used, written>>

(* _list_stations; without a station, or after an error, the round is over. *)
ListStations ==
    /\ ~round.reading /\ assoc # {}
    /\ round' = [Idle EXCEPT !.reading = TRUE, !.macs = assoc]
    /\ points' = <<>>
    /\ UNCHANGED <<now, jumps, air, assoc, rejoins, prev, used, written>>

(* The second SSH call reads the counters one after the other; a station   *)
(* that has left in between has no file, so no RX and TX in its block, and *)
(* when it is the last one the call fails and the round with it.           *)
Cat(m) ==
    /\ m \in round.macs
    /\ \/ /\ m \in assoc
          /\ round' = [round EXCEPT !.macs = @ \ {m},
                  !.read = Updated(@, [s \in {m} |-> [air |-> air[m], t |-> now]])]
       \/ /\ m \notin assoc
          /\ round' = IF round.macs = {m} THEN Idle ELSE [round EXCEPT !.macs = @ \ {m}]
    /\ UNCHANGED <<now, jumps, air, assoc, rejoins, prev, points, used, written>>

SshFails ==
    /\ round.reading /\ round' = Idle
    /\ UNCHANGED <<now, jumps, air, assoc, rejoins, prev, points, used, written>>

Delta(m) == LET d == round.read[m].air - prev[m].air IN IF d > 0 THEN d ELSE 0

Point(m) == [air  |-> Delta(m), span |-> Wall - prev[m].at,
             slip |-> prev[m].late + jumps - prev[m].jumps]

(* The new reading replaces the previous one before the span is looked at  *)
(* and before the points are written.                                      *)
Reading(m) == [air |-> round.read[m].air, at |-> Wall, late |-> now - round.read[m].t,
               jumps |-> jumps]

\* Mutant: a reading is kept once it is there.
ReadingsKept == Updated([m \in DOMAIN round.read |-> Reading(m)], prev)

Readings == Updated(prev, [m \in DOMAIN round.read |-> Reading(m)])

\* Mutant: the span is not looked at.
FreshAtOnce == DOMAIN round.read \cap DOMAIN prev

(* The stations a point is written for. *)
Fresh == {m \in DOMAIN round.read \cap DOMAIN prev : Wall > prev[m].at}

(* The rest of _collect_once; a write that fails loses its points.         *)
Evaluate(ok) ==
    /\ round.reading /\ round.macs = {}
    /\ prev' = Readings
    /\ points' = IF ok THEN [m \in Fresh |-> Point(m)] ELSE <<>>
    /\ written' = [m \in Macs |-> written[m] + IF ok /\ m \in Fresh THEN Delta(m) ELSE 0]
    /\ round' = Idle
    /\ UNCHANGED <<now, jumps, air, assoc, rejoins, used>>

ApNext ==
    \/ \E busy \in SUBSET assoc : Elapse(busy)
    \/ SetBack \/ ListStations \/ SshFails
    \/ \E m \in Macs : Leave(m) \/ Rejoin(m) \/ Cat(m)
    \/ \E ok \in BOOLEAN : Evaluate(ok)

(***************************************************************************)
(* Properties.                                                             *)
(***************************************************************************)

(* The stations of a round are known ones, and what is kept of a reading   *)
(* is a counter and an age, never negative.                                *)
ApTypeOK ==
    /\ assoc \subseteq Macs /\ round.macs \subseteq Macs
    /\ \A m \in DOMAIN prev : prev[m].air \in Nat /\ prev[m].late \in Nat

(* No airtime is written twice: over all points of a station, no more than *)
(* it has used, whatever reading or write fails, however the clock jumps   *)
(* and although its counter starts again when it rejoins (_collect_once).  *)
NothingCountedTwice == \A m \in Macs : written[m] <= used[m]

(* A written share exceeds the time it is a share of by no more than the   *)
(* previous reading was old when it was stamped plus what the wall clock   *)
(* was set back since; the span is never zero or negative (_collect_once). *)
ShareBounded ==
    \A m \in DOMAIN points :
        points[m].span > 0 /\ points[m].air <= points[m].span + points[m].slip

=============================================================================
