---------------------------- MODULE Iperf3Runner ----------------------------
(***************************************************************************)
(* agent/atf_agent/traffic/iperf3.py: the agent reads iperf3's text, line  *)
(* by line, and turns it into samples and statistics.  iperf3 prints one   *)
(* line per second, direction and stream, the transmitting ones first;     *)
(* then it may print such lines for what is left over (the server often    *)
(* does, 10.00-10.04), and at the end a line over the whole test.  The     *)
(* unit of a rate is the one iperf3 finds readable, and only Mbits/sec is  *)
(* recognised.                                                             *)
(***************************************************************************)
EXTENDS Integers, Sequences, FiniteSets, SequencesExt

CONSTANTS
    Durations, Streams,  \* --time and --parallel of a test
    Rates,               \* Mbit/s of a stream in a second; 0 prints as Kbits
    Retransmits,         \* retransmissions of a stream in a second
    MaxLines             \* bound: lines for the seconds of a test

ASSUME IperfAssumption ==
    /\ Durations \subseteq Nat \ {0} /\ Streams \subseteq Nat \ {0}
    /\ Rates \subseteq Nat /\ Retransmits \subseteq Nat

VARIABLES
    test,     \* mode, duration, streams
    reader,   \* where iperf3's output is: second, direction, stream; or the end
    tx,       \* _bidir_tx: at most one buffered transmit line
    samples,  \* samples, which on_sample also publishes at once
    result,   \* what run or run_server returns
    truth     \* history: the lines printed for the seconds of the test

iperfVars == <<test, reader, tx, samples, result, truth>>

InMbits(rate) == rate \in 1..999

IperfInit ==
    /\ test = [mode |-> "none", duration |-> 0, streams |-> 0]
    /\ reader = [pc |-> "off", sec |-> 0, dir |-> "TX", stream |-> 1]
    /\ tx = <<>> /\ samples = <<>> /\ truth = <<>>
    /\ result = [status |-> "none"]

(* run, run_server up to Popen. *)
Popen(mode, duration, streams) ==
    /\ reader.pc = "off"
    /\ test' = [mode |-> mode, duration |-> duration, streams |-> streams]
    /\ \/ reader' = [reader EXCEPT !.pc = "reading"] /\ UNCHANGED result
       \/ reader' = [reader EXCEPT !.pc = "over"] /\ result' = [status |-> "no iperf3"]
    /\ UNCHANGED <<tx, samples, truth>>

\* The next line: the other streams, the other direction, the next second.
Advance ==
    reader' = IF reader.stream < test.streams THEN [reader EXCEPT !.stream = @ + 1]
              ELSE IF test.mode = "bidir" /\ reader.dir = "TX"
              THEN [reader EXCEPT !.stream = 1, !.dir = "RX"]
              ELSE [reader EXCEPT !.stream = 1, !.dir = "TX", !.sec = @ + 1]

(* The body of the loop: a transmit line is buffered, over the one that is *)
(* there, and the next receive line is added to it; without --bidir every  *)
(* line is a sample, one for a fraction of a second like any other.        *)
Take(line) ==
    IF ~InMbits(line.rate) THEN UNCHANGED <<tx, samples>>
    ELSE IF test.mode # "bidir" THEN samples' = Append(samples, line) /\ UNCHANGED tx
    ELSE IF line.dir = "TX" THEN tx' = <<line>> /\ UNCHANGED samples
    ELSE /\ tx' = <<>>
         /\ samples' = IF tx = <<>> THEN samples
                       ELSE Append(samples, [tx[1] EXCEPT !.rate = @ + line.rate,
                                                          !.of = @ \cup line.of])

Interval(rate, retr) ==
    LET line == [dir |-> reader.dir, of |-> {<<reader.sec, reader.stream>>}, rate |-> rate,
                 retr |-> IF test.mode = "server" \/ reader.dir = "RX" THEN 0 ELSE retr]
    IN  /\ reader.pc = "reading" /\ reader.sec <= test.duration
        /\ truth' = Append(truth, line)
        /\ Take(line) /\ Advance
        /\ UNCHANGED <<test, result>>

SumOf(nums) == FoldLeft(LAMBDA sum, x : sum + x, 0, nums)
RatesOf(seq) == [i \in DOMAIN seq |-> seq[i].rate]
RetrsOf(seq) == [i \in DOMAIN seq |-> seq[i].retr]

(* The sender's line over the whole test, one of a stream: the word behind *)
(* its rate is no hindrance to the pattern of a client's lines.            *)
SummaryLine ==
    LET own == SelectSeq(truth, LAMBDA line :
                 line.dir = "TX" /\ \A of \in line.of : of[2] = reader.stream)
    IN  [dir |-> "TX", of |-> {}, rate |-> SumOf(RatesOf(own)) \div Len(own),
         retr |-> SumOf(RetrsOf(own))]

NextSummary ==
    /\ \/ reader.pc = "summing"
       \/ /\ reader.pc = "reading" /\ reader.sec >= test.duration
          /\ reader.dir = "TX" /\ reader.stream = 1
    /\ reader' = IF reader.stream < test.streams
                 THEN [reader EXCEPT !.pc = "summing", !.stream = @ + 1]
                 ELSE [reader EXCEPT !.pc = "exit"]
    /\ UNCHANGED <<test, result, truth>>

\* Mutant: the summary line is taken for a sample.
SummaryTaken == NextSummary /\ Take(SummaryLine)

(* It is told from an interval by lasting more than a second and a half.   *)
Summary ==
    /\ NextSummary
    /\ IF test.mode = "server" \/ test.duration > 1 THEN UNCHANGED <<tx, samples>>
       ELSE Take(SummaryLine)

\* The kth of the sorted numbers: fewer than k are smaller, k are no larger.
Sorted(nums, k) ==
    CHOOSE x \in Range(nums) :
        /\ Cardinality({i \in DOMAIN nums : nums[i] < x}) < k
        /\ k <= Cardinality({i \in DOMAIN nums : nums[i] <= x})

P95Index(n) == IF (n * 95) \div 100 - 1 > 0 THEN (n * 95) \div 100 - 1 ELSE 0

\* Mutant: the samples are not sorted.
ComputeStatsUnsorted(seq) ==
    [status |-> "ok", sum |-> SumOf(RatesOf(seq)), retransmits |-> SumOf(RetrsOf(seq)),
     p95 |-> seq[P95Index(Len(seq)) + 1].rate]

(* _compute_stats, the mean by the sum it divides.                         *)
ComputeStats(seq) ==
    [status |-> "ok", sum |-> SumOf(RatesOf(seq)), retransmits |-> SumOf(RetrsOf(seq)),
     p95 |-> Sorted(RatesOf(seq), P95Index(Len(seq)) + 1)]

(* The end of the output: run looks at the exit code, run_server only at   *)
(* whether there are samples.  iperf3 may die at any line.                 *)
Exit ==
    LET rc == IF reader.pc = "exit" THEN 0 ELSE 1
    IN  /\ reader.pc \in {"reading", "summing", "exit"}
        /\ reader' = [reader EXCEPT !.pc = "over"]
        /\ result' = IF rc # 0 /\ test.mode # "server" THEN [status |-> "exit code"]
                     ELSE IF samples = <<>> THEN [status |-> "no data"]
                     ELSE ComputeStats(samples)
        /\ UNCHANGED <<test, tx, samples, truth>>

IperfNext ==
    \/ \E mode \in {"client", "bidir", "server"}, d \in Durations, p \in Streams :
            /\ mode = "server" => p = 1
            /\ d * p * (IF mode = "bidir" THEN 2 ELSE 1) <= MaxLines
            /\ Popen(mode, d, p)
    \/ \E rate \in Rates, retr \in Retransmits : Interval(rate, retr)
    \/ Summary \/ Exit

(***************************************************************************)
(* Properties.                                                             *)
(***************************************************************************)
Readable == \A i \in DOMAIN truth : InMbits(truth[i].rate)
Directions == IF test.mode = "bidir" THEN 2 ELSE 1
InFull == Len(truth) >= test.duration * test.streams * Directions

(* The figures of a test of one stream and of at least two seconds are     *)
(* those of the lines iperf3 printed: one sample for each second and for   *)
(* the fraction after the last, of both directions with --bidir, with the  *)
(* rates and the retransmissions of those lines; and a client's result is  *)
(* never that of a test cut short.  It takes every rate to be printed in   *)
(* Mbits (run, run_server, _compute_stats).                                *)
FiguresFaithful ==
    result.status = "ok" =>
        /\ test.mode # "server" => InFull
        /\ (Readable /\ test.duration > 1 /\ test.streams = 1) =>
            /\ Len(samples) * Directions = Len(truth)
            /\ \A i \in DOMAIN samples : samples[i].of = {<<i - 1, 1>>}
            /\ result.sum = SumOf(RatesOf(truth))
            /\ result.retransmits = SumOf(RetrsOf(truth))

(* Of n samples, fewer than one in twenty and one more lie above the 95th  *)
(* percentile, and the percentile is one of the samples (_compute_stats).  *)
PercentileNear ==
    result.status = "ok" =>
        LET above == {i \in DOMAIN samples : samples[i].rate > result.p95}
        IN  /\ \E i \in DOMAIN samples : samples[i].rate = result.p95
            /\ 20 * Cardinality(above) < Len(samples) + 20

=============================================================================
