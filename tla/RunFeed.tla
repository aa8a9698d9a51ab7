------------------------------ MODULE RunFeed ------------------------------
(***************************************************************************)
(* What a page is promised of the runs it starts, with no routes, threads, *)
(* generators or connections: a run tells its phases in order and one end, *)
(* a page follows one run at a time until it is told the end, and it is    *)
(* told what the run tells, in that order and nothing twice.  What it has  *)
(* not been told yet is lost only once a connection has broken, or when    *)
(* the page has turned to another run.                                     *)
(***************************************************************************)
EXTENDS Naturals, Sequences

CONSTANTS Runs, NoRun

VARIABLES
    stage,      \* stage[n]: how far run n is
    untold,     \* untold[n]: what it has told and the page may still hear, in order
    told,       \* told[n]: what the page has heard of it
    following,  \* the run the page follows, or NoRun
    answered,   \* the runs whose POST has been answered
    broken      \* a connection has broken

vars == <<stage, untold, told, following, answered, broken>>

Init ==
    /\ stage = [n \in Runs |-> "new"]
    /\ untold = [n \in Runs |-> << >>]
    /\ told = [n \in Runs |-> << >>]
    /\ following = NoRun
    /\ answered = {}
    /\ broken = FALSE

Last == {"done", "error"}

(***************************************************************************)
(* Where a run is, what it tells next, and where it is then.               *)
(***************************************************************************)
Course ==
    {<<"new", "started", "started">>, <<"started", "preparing", "preparing">>,
     <<"preparing", "running", "running">>, <<"running", "collecting", "collecting">>,
     <<"collecting", "done", "ended">>}
    \cup ({"started", "preparing", "running", "collecting"} \X {"error"} \X {"ended"})

Speak(n, e) == untold' = [untold EXCEPT ![n] = Append(@, e)]

Advance(n) ==
    /\ \E c \in Course :
          stage[n] = c[1] /\ Speak(n, c[2]) /\ stage' = [stage EXCEPT ![n] = c[3]]
    /\ UNCHANGED <<told, following, answered, broken>>

Sample(n) ==
    /\ stage[n] \in {"running", "collecting", "ended"}
    /\ Speak(n, "sample")
    /\ UNCHANGED <<stage, told, following, answered, broken>>

\* A run that never starts says nothing.
Fail(n) ==
    /\ stage[n] = "new"
    /\ stage' = [stage EXCEPT ![n] = "failed"]
    /\ UNCHANGED <<untold, told, following, answered, broken>>

(***************************************************************************)
(* One stretch of what run n has still to tell is gone.                    *)
(***************************************************************************)
Loses(n) ==
    LET s == untold[n] IN
    \E i \in 0 .. Len(s) : \E j \in i .. Len(s) :
        untold' = [untold EXCEPT ![n] = SubSeq(s, 1, i) \o SubSeq(s, j + 1, Len(s))]

(***************************************************************************)
(* A POST is answered once, with a run to follow that has started, or not. *)
(* To follow one run is to let go of another.                              *)
(***************************************************************************)
Follow(n) ==
    /\ n \notin answered /\ answered' = answered \cup {n}
    /\ stage[n] \notin {"new", "failed"}
    /\ following' = n
    /\ UNCHANGED untold \/ \E m \in Runs : m = following /\ Loses(m)
    /\ UNCHANGED <<stage, told, broken>>

Refuse(n) ==
    /\ n \notin answered /\ answered' = answered \cup {n}
    /\ UNCHANGED <<stage, untold, told, following, broken>>

(***************************************************************************)
(* The page is told the next event of the run it follows.                  *)
(***************************************************************************)
Hear(n) ==
    /\ following = n /\ untold[n] # << >>
    /\ told' = [told EXCEPT ![n] = Append(@, Head(untold[n]))]
    /\ untold' = [untold EXCEPT ![n] = Tail(@)]
    /\ following' = IF Head(untold[n]) \in Last THEN NoRun ELSE n
    /\ UNCHANGED <<stage, answered, broken>>

(***************************************************************************)
(* A connection breaks, and takes along what was on it; from then on the   *)
(* followed run, too, may lose what it tells.                              *)
(***************************************************************************)
Break ==
    /\ broken' = TRUE
    /\ \E n \in Runs : n = following /\ Loses(n)
    /\ UNCHANGED <<stage, told, following, answered>>

Lose(n) ==
    /\ n \in answered
    /\ following = n => broken
    /\ Loses(n)
    /\ UNCHANGED <<stage, told, following, answered, broken>>

Next ==
    \/ \E n \in Runs :
          Advance(n) \/ Sample(n) \/ Fail(n) \/ Follow(n) \/ Refuse(n) \/ Hear(n) \/ Lose(n)
    \/ Break

Spec == Init /\ [][Next]_vars

=============================================================================
