-------------------------- MODULE IowaitCorrelation --------------------------
(***************************************************************************)
(* correlate_iowait.py: run the benchmark while iostat samples the disk in *)
(* the background, stop iostat wherever it is when the benchmark ends, and *)
(* set each row of the slowest-queries section against the sample nearest  *)
(* in time.  A log is a sequence of lines, a line a record of its kind and *)
(* of what the parsers read from it; times are in ticks.  iostat's log is  *)
(* behind its reports by whatever it buffers, and may end inside a line.   *)
(***************************************************************************)
EXTENDS Integers, Sequences, SequencesExt, FiniteSets, FiniteSetsExt

CONSTANTS
  Interval,       \* ticks between two reports of iostat (--interval)
  MaxTime,        \* ticks the benchmark may run (bound)
  Waits,          \* %iowait an interval may have
  SinceBoot,      \* (external) what the first report says, of the time since boot
  MaxSlow         \* rows of the slowest-queries section (bound)

ASSUME CorrelationAssumption ==
  /\ Interval \in Nat \ {0} /\ MaxTime \in Nat /\ MaxSlow \in Nat
  /\ Waits \subseteq Nat /\ SinceBoot \in Nat

VARIABLES
  run,            \* where the script is
  now,            \* (external) the time
  disk,           \* (external) the iowait of each interval that has ended
  iostat_log,     \* the whole lines of iostat's log
  report,         \* (external) the report whose lines the log comes to
  written,        \* (external) lines of that report in the log
  torn,           \* the line iostat was stopped in, as it reads
  bench_log,      \* the benchmark's lines
  asked,          \* history: the slow queries whose rows it has printed, as times
  slow_queries,   \* parse_top_slow
  samples         \* parse_iostat

correlationVars == <<run, now, disk, iostat_log, report, written, torn, bench_log, asked,
                     slow_queries, samples>>

-----------------------------------------------------------------------------
(* (external) The lines of one iostat report, and of the benchmark *)

Line(kind, value) == [kind |-> kind, value |-> value]
Blank == Line("blank", 0)

\* The k-th report speaks of the interval before it.
Told(k) == IF k = 1 THEN SinceBoot ELSE disk[k-1]

ReportLines(at, wait) ==
  <<Line("timestamp", at), Line("avg-cpu:", 0), Line("numbers", wait), Blank,
    Line("Device", 0), Line("numbers", wait), Blank>>

Due == ReportLines(Interval * (report - 1), Told(report))[written+1]

\* A time without its offset has no zone.
NoZone == -1

\* What the beginning of a line reads as: of a time nothing, a time without a
\* zone, or the time; of numbers none, or what the first digits say.
Pieces(full) ==
  {Blank} \cup
    CASE full.kind = "timestamp" -> {Line("timestamp", NoZone), full}
      [] full.kind = "numbers"   -> {Line("numbers", v) : v \in 0..full.value}
      [] OTHER                   -> {full}

SectionLines(times) ==
  <<Line("section", 0), Line("row", 0), Line("top-slow", 0)>>
    \o FlattenSeq([i \in DOMAIN times |-> <<Line("row", times[i]), Line("keys:", 0)>>])
    \o <<Line("section", 0), Line("row", MaxTime)>>

\* What is printed of it when the rows of these times are, and no more: a row
\* that is not whole is no row.
Printed(times) ==
  {SubSeq(SectionLines(times), 1, m) :
     m \in (IF times = <<>> THEN 0 ELSE 2 * Len(times) + 2)..2 * Len(times) + 5}

-----------------------------------------------------------------------------
(* The parsers, line by line *)

\* Only rows between the section's header and the next header count.
TopSlowLine(p, line) ==
  IF line.kind = "top-slow" THEN [p EXCEPT !.in = TRUE]
  ELSE IF ~p.in \/ p.over THEN p
  ELSE IF line.kind = "section" THEN [p EXCEPT !.over = TRUE]
  ELSE IF line.kind = "row" THEN [p EXCEPT !.out = Append(@, line.value)]
  ELSE p

parse_top_slow(log) ==
  FoldLeft(TopSlowLine, [in |-> FALSE, over |-> FALSE, out |-> <<>>], log).out

\* The sample of the current timestamp with one field changed.
WithLast(list, field, value) == [list EXCEPT ![Len(list)][field] = value]

\* A timestamp opens a sample; the numbers under the avg-cpu header are its
\* iowait, those under the Device header its devices.  (util is -1 until then.)
IostatLine(p, line) ==
  IF line.kind = "timestamp"
  THEN [mode |-> "none", samples |-> Append(p.samples, [at |-> line.value, iowait |-> 0, util |-> -1])]
  ELSE IF line.kind = "blank" \/ p.samples = <<>> THEN p
  ELSE IF line.kind \in {"avg-cpu:", "Device"} THEN [p EXCEPT !.mode = line.kind]
  ELSE IF p.mode = "avg-cpu:"
       THEN [mode |-> "none", samples |-> WithLast(p.samples, "iowait", line.value)]
  ELSE IF p.mode = "Device" THEN [p EXCEPT !.samples = WithLast(@, "util", line.value)]
  ELSE p

M_dropFirst(list) == list

\* The first report is cumulative since boot; it stays only if it is alone.
dropFirst(list) == IF Len(list) > 1 THEN Tail(list) ELSE list

parse_iostat(log) ==
  dropFirst(FoldLeft(IostatLine, [mode |-> "none", samples |-> <<>>], log).samples)

Distance(s, t) == IF s.at > t THEN s.at - t ELSE t - s.at

\* min() returns the first of those nearest.
closest_sample(list, t) ==
  list[CHOOSE i \in DOMAIN list :
         \A j \in DOMAIN list :
           \/ Distance(list[i], t) < Distance(list[j], t)
           \/ Distance(list[i], t) = Distance(list[j], t) /\ i <= j]

-----------------------------------------------------------------------------
CorrelationInit ==
  /\ run = "benchmark"
  /\ now = 0
  /\ disk = <<>>
  /\ iostat_log = <<Line("numbers", 0), Blank>>     \* the banner
  /\ report = 1 /\ written = 0
  /\ torn = Blank
  /\ bench_log = <<>> /\ asked = <<>>
  /\ slow_queries = <<>> /\ samples = <<>>

\* (external) Time passes; at the end of an interval iostat has a report.
Pass ==
  /\ run = "benchmark" /\ now < MaxTime
  /\ now' = now + 1
  /\ IF (now + 1) % Interval = 0 THEN \E w \in Waits : disk' = Append(disk, w)
                                 ELSE UNCHANGED disk
  /\ UNCHANGED <<run, iostat_log, report, written, torn, bench_log, asked, slow_queries, samples>>

\* (external) A line of a report reaches the log, at once or long after.
Write ==
  /\ run \in {"benchmark", "terminate"} /\ report <= Len(disk) + 1
  /\ iostat_log' = Append(iostat_log, Due)
  /\ IF written = 6 THEN report' = report + 1 /\ written' = 0
                    ELSE written' = written + 1 /\ UNCHANGED report
  /\ UNCHANGED <<run, now, disk, torn, bench_log, asked, slow_queries, samples>>

\* The benchmark ends or is stopped in the middle of what it prints; its exit
\* code makes no difference.
BenchmarkEnds ==
  /\ run = "benchmark"
  /\ \E n \in 0..MaxSlow : \E times \in [1..n -> 0..now] : asked' = times
  /\ bench_log' \in Printed(asked')
  /\ run' = "terminate"
  /\ UNCHANGED <<now, disk, iostat_log, report, written, torn, slow_queries, samples>>

\* iostat is terminated, or killed after five seconds: what it has not written
\* is lost, and the last line it has written may have only its beginning.
Terminate ==
  /\ run = "terminate"
  /\ torn' \in IF report <= Len(disk) + 1 THEN Pieces(Due) ELSE {Blank}
  /\ run' = "correlate"
  /\ UNCHANGED <<now, disk, iostat_log, report, written, bench_log, asked, slow_queries, samples>>

\* Both logs are parsed; without rows or samples the script says so and ends.
\* A time without a zone cannot be set against a row's: the exception ends it.
Correlate ==
  /\ run = "correlate"
  /\ slow_queries' = parse_top_slow(bench_log)
  /\ samples' = parse_iostat(Append(iostat_log, torn))
  /\ run' = CASE slow_queries' = <<>> \/ samples' = <<>> -> "nothing"
              [] OTHER -> IF \E i \in DOMAIN samples' : samples'[i].at = NoZone
                          THEN "raised" ELSE "report"
  /\ UNCHANGED <<now, disk, iostat_log, report, written, torn, bench_log, asked>>

CorrelationNext == Pass \/ Write \/ BenchmarkEnds \/ Terminate \/ Correlate

-----------------------------------------------------------------------------
(* Properties *)

\* However abruptly iostat was stopped, and however much of its output was lost,
\* a sample says what the disk did in the interval that ended at its time: the
\* reading since boot is never taken for one once there is another, and only the
\* report that iostat was stopped in may say too little, never too much.
SamplesTellTheDisk ==
  run = "report" /\ Len(samples) > 1 =>
    \A i \in DOMAIN samples :
      LET s == samples[i]
          was == disk[s.at \div Interval]
      IN  /\ s.at > 0
          /\ \/ s.iowait = was /\ s.util = was
             \/ /\ i = Len(samples) /\ s.at = Interval * (report - 1)
                /\ s.iowait <= was /\ s.util <= was

\* A slow query between the first and the last sample is at most half an
\* interval away from the sample it is set against.
NearestIsNear ==
  run = "report" =>
    \A q \in DOMAIN slow_queries :
      LET t == slow_queries[q]
      IN  (samples[1].at <= t /\ t <= samples[Len(samples)].at) =>
            2 * Distance(closest_sample(samples, t), t) <= Interval

\* Every row that the benchmark printed is correlated, in its order, wherever
\* its output stops, and nothing that it prints before the section or after it
\* is mistaken for one.
AllSlowRowsParsed == run \in {"report", "nothing", "raised"} => slow_queries = asked

\* Each slow query of the benchmark is set against what the disk did around it,
\* and no row is lost or invented.
SlowQueriesMeetTheDisk == SamplesTellTheDisk /\ NearestIsNear /\ AllSlowRowsParsed
==============================================================================
