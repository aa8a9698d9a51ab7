------------------------------ MODULE Reporter ------------------------------
(***************************************************************************)
(* What is made of a run's figures: InfluxWriter.write_run stores a        *)
(* summary per station, the reporter fetches and reports it with Jain's    *)
(* fairness index and a grade (reporter/reporter.py, fairness.py), and the *)
(* command line (cli.py) and the page (index.html) compute the index once  *)
(* more from the results they hold.  An index is a pair, numerator and     *)
(* denominator; throughputs are whole numbers.                             *)
(***************************************************************************)
EXTENDS Integers, Sequences, FiniteSets, FiniteSetsExt

CONSTANTS
    Stas,    \* stations of the run
    Means    \* mean throughputs; a result without one counts as 0

ASSUME ReporterAssumption == IsFiniteSet(Stas) /\ Means \subseteq Nat

VARIABLES
    outcome,  \* station -> status and mean, as the orchestrator has collected them
    wrote,    \* the orchestrator has written the run's summary, or failed to
    stored,   \* measurement run_summary: station -> mean
    report,   \* the report: "none", "crashed" or what it says
    cli,      \* what the command line says
    page      \* what the page says

reportVars == <<outcome, wrote, stored, report, cli, page>>

None == [index |-> <<0, 1>>, grade |-> "none"]

ReportInit ==
    /\ outcome = <<>> /\ wrote = FALSE /\ stored = <<>>
    /\ report = None /\ cli = None /\ page = None

\* Throughputs are a function from stations; their order plays no part.
Square(x) == x * x
Total(f) == MapThenSumSet(LAMBDA s : f[s], DOMAIN f)
Squares(f) == MapThenSumSet(LAMBDA s : Square(f[s]), DOMAIN f)

\* Mutant: it is not divided by the number of stations.
JainsIndexUnscaled(f) ==
    IF \A s \in DOMAIN f : f[s] = 0 THEN <<0, 1>> ELSE <<Square(Total(f)), Squares(f)>>

(* jains_fairness_index, and jainsFI of the page. *)
JainsIndex(f) ==
    IF \A s \in DOMAIN f : f[s] = 0 THEN <<0, 1>>
    ELSE <<Square(Total(f)), Cardinality(DOMAIN f) * Squares(f)>>

AtLeast(index, percent) == 100 * index[1] >= percent * index[2]
Leq(i, j) == i[1] * j[2] <= j[1] * i[2]

Grade(index, excellent, good, fair) ==
    IF AtLeast(index, excellent) THEN "Excellent" ELSE IF AtLeast(index, good) THEN "Good"
    ELSE IF AtLeast(index, fair) THEN "Fair" ELSE "Poor"
FairnessGrade(index) == Grade(index, 95, 80, 60)
PageGrade(index) == Grade(index, 90, 75, 50)

Restricted(f, S) == [s \in S |-> f[s].mean]
Complete == {s \in DOMAIN outcome : outcome[s].status = "complete"}
Positive == {s \in Complete : outcome[s].mean > 0}

Collect ==
    /\ outcome = <<>>
    /\ outcome' \in [Stas -> [status : {"complete", "error"}, mean : Means]]
    /\ UNCHANGED <<wrote, stored, report, cli, page>>

(* write_run: one point per complete station, in one write, which may fail *)
(* without consequence.                                                    *)
WriteRun ==
    /\ outcome # <<>> /\ ~wrote /\ wrote' = TRUE
    /\ stored' \in {<<>>, Restricted(outcome, Complete)}
    /\ UNCHANGED <<outcome, report, cli, page>>

(* fetch_run_summary, generate_report: the bars and the ratio are divided  *)
(* by the largest mean.  After a failed write the command line reports     *)
(* a run without stations.                                                 *)
GenerateReport ==
    /\ wrote /\ report = None
    /\ report' = IF DOMAIN stored # {} /\ Total(stored) = 0
                 THEN [None EXCEPT !.grade = "crashed"]
                 ELSE [index |-> JainsIndex(stored), grade |-> FairnessGrade(JainsIndex(stored))]
    /\ UNCHANGED <<outcome, wrote, stored, cli, page>>

(* main of cli.py, which runs without a page, after a run that is ok: a    *)
(* report that failed is a warning and no index is printed.                *)
CliPrints ==
    /\ outcome # <<>> /\ Complete = Stas /\ cli = None /\ page = None
    /\ report # None /\ report.grade # "crashed"
    /\ cli' = [None EXCEPT !.index = JainsIndex(Restricted(outcome, Positive))]
    /\ UNCHANGED <<outcome, wrote, stored, report, page>>

(* renderFinalResults, of a run that the page has asked for. *)
PageRenders ==
    /\ outcome # <<>> /\ Positive # {} /\ page = None /\ cli = None
    /\ LET index == JainsIndex(Restricted(outcome, Positive))
       IN  page' = [index |-> index, grade |-> PageGrade(index)]
    /\ UNCHANGED <<outcome, wrote, stored, report, cli>>

ReportNext == Collect \/ WriteRun \/ GenerateReport \/ CliPrints \/ PageRenders

(***************************************************************************)
(* Properties.                                                             *)
(***************************************************************************)

Reported == report.grade \notin {"none", "crashed"}

(* The report's index lies between 1/n and 1 of its n stations, as the     *)
(* docstring of jains_fairness_index has it.  Whoever asked for the run,   *)
(* command line or page, leaves out the stations that have moved nothing   *)
(* and never says less; the page's grade may be better than the report's,  *)
(* not worse.                                                              *)
IndexBounded ==
    LET better(g) == {"Excellent"} \cup IF g = "Excellent" THEN {} ELSE
                     {"Good"} \cup IF g = "Good" THEN {} ELSE
                     {"Fair"} \cup IF g = "Fair" THEN {} ELSE {"Poor"}
    IN  Reported =>
        /\ DOMAIN stored # {} =>
            /\ Leq(<<1, Cardinality(DOMAIN stored)>>, report.index)
            /\ Leq(report.index, <<1, 1>>)
        /\ cli # None => Leq(report.index, cli.index)
        /\ page # None =>
            Leq(report.index, page.index) /\ page.grade \in better(report.grade)

=============================================================================
