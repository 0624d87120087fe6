-------------------------- MODULE ReceiverPipeline --------------------------
(***************************************************************************)
(* From a line of the iperf receiver to an admitted control: the capture   *)
(* wrapper appends each line to the raw file and then to the timestamp     *)
(* file, while one of two consumers reads both:                            *)
(*                                                                         *)
(*   adapter  prompt12-bounded-stationarity-command.py, run by the         *)
(*            handoff: actuator timeline, stable snapshot of the pair of   *)
(*            files, parser, canonicalizer, stationarity evaluator, and on *)
(*            PASS the freshness gate over the same canonical rows         *)
(*   tail     source_at_90 of the T2 fast trigger: polls the tails of the  *)
(*            live files without a snapshot                                *)
(*                                                                         *)
(* Times are ticks; an interval of the receiver is Period ticks (0.2 s).   *)
(* A line is what iperf reports with the wall clock at which the wrapper   *)
(* got it, at most MaxDelay after the end of the interval.  The run is in  *)
(* the phase after control `index'; index 0 is the phase before the first. *)
(***************************************************************************)
EXTENDS Naturals, Sequences, FiniteSets

CONSTANTS Period,      \* 0.2 s
          W,           \* WINDOW_SAMPLES
          Guard,       \* STARTUP_GUARD_S
          MaxAge,      \* 800 ms
          TailRows,    \* records in TAIL_BYTES
          Target,      \* TARGET_INTERVAL_END_S
          Latest,      \* LATEST_ACCEPTABLE_END_S
          Rates,       \* throughputs
          MaxControls, \* controls before the phase
          MaxDelay,    \* bound: delay of a line
          Latency,     \* bound: from command to readback to acknowledgement
          MaxLines,    \* bound: lines of the receiver
          MaxIrregular \* bound: lines that are late or no complete interval

ASSUME PipelineAssumption ==
    /\ Period \in Nat \ {0} /\ W \in Nat \ {0}
    /\ Guard \in Nat /\ MaxAge \in Nat /\ TailRows \in Nat
    /\ Target \in Nat /\ Latest \in Nat /\ Rates \subseteq Nat
    /\ MaxControls \in Nat /\ MaxDelay \in Nat /\ Latency \in Nat
    /\ MaxLines \in Nat /\ MaxIrregular \in Nat

VARIABLES now,       \* wall clock
          raw,       \* lines of the raw file
          stamps,    \* records of the timestamp file
          held,      \* the line the wrapper has not finished with, or none
          plant,     \* throughput after each control
          index,     \* --control-index
          commands,  \* RIC log: times of the command lines
          applied,   \* gNB log: times and results of the readback lines
          acks,      \* RIC log: times of the acknowledgement lines
          consumer,  \* "adapter" or "tail"
          pc,        \* where the consumer is
          sizes,     \* file sizes it has seen
          previous,  \* the sizes it saw before
          timeline,  \* the actuator timeline of the attempt
          report,    \* the stationarity report
          picked,    \* the samples a control is admitted on
          decision,  \* when it was admitted
          fault      \* why the consumer failed

stream == <<raw, stamps, held>>
controls == <<commands, applied, acks>>
setup == <<plant, index, consumer>>
result == <<timeline, report, picked, decision, fault>>
pipelineVars ==
    <<now, stream, setup, controls, pc, sizes, previous, result>>

Shapes == {"complete_0p2", "partial_terminal_candidate", "none"}

Lines == [shape : Shapes, start : Nat, end : Nat, rate : Nat, wall : Nat]

NoReport == [gate |-> "NONE", duration |-> "NONE", windows |-> <<>>]

\* What is kept of each prefix of s when the elements at the positions in P are.
Kept(s, P) ==
    LET kept[i \in 0..Len(s)] ==
          IF i = 0 THEN <<>>
          ELSE IF i \in P THEN Append(kept[i - 1], s[i]) ELSE kept[i - 1]
    IN  kept

\* The elements of s at the positions in P, in their order.
Filter(s, P) == Kept(s, P)[Len(s)]

PipelineInit ==
    /\ now = 0
    /\ raw = <<>> /\ stamps = <<>> /\ held = <<>>
    /\ index \in 0..MaxControls
    /\ plant \in [0..index -> Rates]
    /\ commands = <<>> /\ applied = <<>> /\ acks = <<>>
    /\ consumer \in {"adapter", "tail"}
    /\ consumer = "tail" => index = 0
    /\ pc = "start"
    /\ sizes = <<0, 0>> /\ previous = <<0, 0>>
    /\ timeline = <<>> /\ report = NoReport
    /\ picked = <<>> /\ decision = 0 /\ fault = "NONE"

(***************************************************************************)
(* The receiver and the capture wrapper.                                   *)
(***************************************************************************)
NextStart == IF raw = <<>> THEN 0 ELSE raw[Len(raw)].end

\* What parse_interval makes of a line: a complete interval, a shorter one, or
\* nothing (a longer interval or a line of text).
Reported(shape) ==
    CASE shape = "complete_0p2" -> Period
      [] shape = "partial_terminal_candidate" -> Period - 1
      [] shape = "none" -> Period + 1

Irregular(line) == line.shape # "complete_0p2" \/ line.wall > line.end

\* readline returns and the wall clock is read.
CaptureRead(shape) ==
    /\ held = <<>> /\ Len(raw) < MaxLines
    /\ now >= NextStart + Reported(shape) /\ Reported(shape) > 0
    /\ LET line == [shape |-> shape, start |-> NextStart,
                    end |-> NextStart + Reported(shape),
                    rate |-> plant[Len(applied)], wall |-> now]
       IN  /\ Len(SelectSeq(Append(raw, line), Irregular)) <= MaxIrregular
           /\ held' = <<line>>
    /\ UNCHANGED <<now, raw, stamps, setup, controls, pc, sizes, previous,
                   result>>

\* Mutant: the timestamp is written before the line it is about.
CaptureWriteStampFirst ==
    /\ held # <<>>
    /\ IF Len(stamps) = Len(raw)
       THEN stamps' = Append(stamps, held[1]) /\ UNCHANGED <<raw, held>>
       ELSE raw' = Append(raw, held[1]) /\ held' = <<>> /\ UNCHANGED stamps
    /\ UNCHANGED <<now, setup, controls, pc, sizes, previous, result>>

\* The line is appended to the raw file, then its record to the other.
CaptureWrite ==
    /\ held # <<>>
    /\ IF Len(raw) = Len(stamps)
       THEN raw' = Append(raw, held[1]) /\ UNCHANGED <<stamps, held>>
       ELSE stamps' = Append(stamps, held[1]) /\ held' = <<>> /\ UNCHANGED raw
    /\ UNCHANGED <<now, setup, controls, pc, sizes, previous, result>>

(***************************************************************************)
(* The controls of the run as the logs of the RIC and the gNB show them.   *)
(***************************************************************************)
\* The earliest time of the next line of these logs.  No control is admitted
\* within the startup guard.
EventDue ==
    IF Len(acks) = Len(commands)
    THEN IF acks = <<>> THEN Guard ELSE acks[Len(acks)] + 1
    ELSE IF Len(applied) = Len(commands) THEN applied[Len(applied)].at + 1
    ELSE commands[Len(commands)] + 1

Command ==
    /\ Len(commands) < index /\ Len(acks) = Len(commands) /\ held = <<>>
    /\ \A i \in DOMAIN applied : applied[i].ok
    /\ Len(raw) < MaxLines
    /\ now >= EventDue
    /\ commands' = Append(commands, now)
    /\ UNCHANGED <<now, stream, setup, applied, acks, pc, sizes, previous,
                   result>>

\* The gNB applies the ratio; the readback may name another number of PRBs.
Apply(ok) ==
    /\ Len(applied) < Len(commands) /\ now >= EventDue /\ held = <<>>
    /\ applied' = Append(applied, [at |-> now, ok |-> ok])
    /\ UNCHANGED <<now, stream, setup, commands, acks, pc, sizes, previous,
                   result>>

Acknowledge ==
    /\ Len(acks) < Len(applied) /\ now >= EventDue /\ held = <<>>
    /\ acks' = Append(acks, now)
    /\ UNCHANGED <<now, stream, setup, commands, applied, pc, sizes, previous,
                   result>>

Horizon == MaxLines * Period + MaxAge + 1

\* A snapshot of files that have a size takes less than a tick, as do two looks
\* of the tail reader; what happens after the consumer's end is left out.
TimePasses == \/ pc \in {"start", "timeline", "gate", "tail_open"}
              \/ pc = "stat_raw" /\ previous = <<0, 0>>

\* Time passes, but not past a line that is due nor a control under way.
Tick ==
    /\ now < Horizon /\ held = <<>> /\ TimePasses
    /\ Len(raw) = MaxLines \/ now < NextStart + Period + MaxDelay
    /\ Len(acks) = Len(commands) \/ now < EventDue + Latency
    /\ now' = now + 1
    /\ UNCHANGED <<stream, setup, controls, pc, sizes, previous, result>>

Goto(l) == pc' = l

\* The consumer ends; what it had seen is lost.
Fail(why) ==
    /\ pc' = "failed" /\ fault' = why
    /\ sizes' = <<0, 0>> /\ previous' = <<0, 0>> /\ timeline' = <<>>
    /\ UNCHANGED <<report, picked, decision>>

(***************************************************************************)
(* build-actuator-timeline.py and the readers of the timeline.             *)
(***************************************************************************)
\* build_events: all three logs have the expected count, each triplet is in
\* order and later than the one before, each readback is the requested one.
\* The logs are read one after the other; as no control follows the one that
\* is waited for, that is as good as reading them at once.
TimelineReady ==
    /\ Len(commands) = index /\ Len(applied) = index /\ Len(acks) = index
    /\ \A i \in 1..index :
           /\ applied[i].ok
           /\ commands[i] < applied[i].at /\ applied[i].at < acks[i]
           /\ i > 1 => acks[i - 1] < commands[i]

build_events ==
    [i \in 1..index |-> [command |-> commands[i], applied |-> applied[i].at,
                         acknowledgement |-> acks[i]]]

\* load_actuator_timeline: complete triplets of 1 to 6 controls, in order.
TimelineAccepted ==
    /\ Len(timeline) \in 1..6
    /\ \A i \in DOMAIN timeline :
           /\ timeline[i].command < timeline[i].applied
           /\ timeline[i].applied < timeline[i].acknowledgement
           /\ i > 1 => timeline[i - 1].acknowledgement < timeline[i].command

\* Mutant: the origin is the first control of the timeline.
load_post_t0_first == timeline[1].applied

\* load_post_t0: the readback of control --control-index.
load_post_t0 == timeline[index].applied

(***************************************************************************)
(* parse-iperf-receiver.py.                                                *)
(***************************************************************************)
\* The assertions on sequence, offsets, hashes and times of a snapshot.
ParserAccepts(lines, records) ==
    /\ Len(records) <= Len(lines)
    /\ \A i \in DOMAIN records :
           /\ records[i] = lines[i]
           /\ i > 1 => records[i - 1].wall <= records[i].wall

Parsed(records) ==
    Filter(records, {i \in DOMAIN records : records[i].shape # "none"})

(***************************************************************************)
(* canonicalize-iperf-receiver.py.                                         *)
(***************************************************************************)
ObservedStart(r) == r.wall - (r.end - r.start)

base_interval_class(r) ==
    IF r.shape = "partial_terminal_candidate" THEN "partial_terminal"
    ELSE IF r.end <= Guard THEN "startup_guard" ELSE "complete"

\* The readbacks strictly inside the interval as it was observed.
Crossings(r) ==
    {i \in DOMAIN timeline : /\ ObservedStart(r) < timeline[i].applied
                             /\ timeline[i].applied < r.wall}

\* A crossing is allowed once, and in a complete interval only.
CanonicalizerAccepts(rows) ==
    /\ index > 0 => TimelineAccepted
    /\ \A i \in DOMAIN rows :
           Crossings(rows[i]) # {} =>
               /\ Cardinality(Crossings(rows[i])) = 1
               /\ base_interval_class(rows[i]) = "complete"

classify_interval(r) ==
    IF Crossings(r) # {} THEN "transition_crossing" ELSE base_interval_class(r)

(***************************************************************************)
(* evaluate-output-stationarity.py over canonical rows.                    *)
(***************************************************************************)
\* Mutant: the time origin is not looked at.
EligibleEver(r, origin) == classify_interval(r) = "complete"

\* The origin of the phase before the first control is 0.
eligible(r, origin) ==
    classify_interval(r) = "complete" /\ ObservedStart(r) >= origin

contiguous(p, r) == p.end = r.start

\* Mutant: a gap does not end a run.
LatestRunAcrossGaps(rows, origin) ==
    Filter(rows, {i \in DOMAIN rows : eligible(rows[i], origin)})

\* One turn of the loop: the run that grows, and the last one that was closed.
Extended(s, r, origin) ==
    LET close == IF s.current = <<>> THEN s.closed ELSE s.current
    IN  IF ~eligible(r, origin)
        THEN [closed |-> close, current |-> <<>>]
        ELSE IF s.current # <<>> /\ ~contiguous(s.current[Len(s.current)], r)
        THEN [closed |-> close, current |-> <<r>>]
        ELSE [closed |-> s.closed, current |-> Append(s.current, r)]

Scan(rows, origin) ==
    LET scan[i \in 0..Len(rows)] ==
          IF i = 0 THEN [closed |-> <<>>, current |-> <<>>]
          ELSE Extended(scan[i - 1], rows[i], origin)
    IN  scan

latest_eligible_run(rows, origin) ==
    LET last == Scan(rows, origin)[Len(rows)]
    IN  IF last.current = <<>> THEN last.closed ELSE last.current

Sum(w, f(_)) ==
    LET sum[i \in 0..Len(w)] == IF i = 0 THEN 0 ELSE sum[i - 1] + f(w[i])
    IN  sum[Len(w)]

Total(w) == Sum(w, LAMBDA r : r.rate)

\* CV <= 5 %: 100 * std / mean over the population, without the root.
SteadyWindow(w) ==
    400 * (Len(w) * Sum(w, LAMBDA r : r.rate * r.rate) - Total(w) * Total(w))
      <= Total(w) * Total(w)

\* |mean2 - mean1| <= 5 % of mean1, for windows of the same length.
SameMean(w1, w2) ==
    /\ 20 * Total(w2) <= 21 * Total(w1)
    /\ 19 * Total(w1) <= 20 * Total(w2)

Gate(b) == IF b THEN "PASS" ELSE "FAIL"

\* The two last full windows, counted from the start of the run.
WindowPair(run) ==
    LET full == Len(run) \div W
    IN  SubSeq(run, (full - 2) * W + 1, full * W)

\* window_metrics raises on a window whose mean is 0.
EvaluatorAccepts(rows, origin) ==
    LET run == latest_eligible_run(rows, origin)
        pair == WindowPair(run)
    IN  Len(run) \div W >= 2 =>
            /\ Total(SubSeq(pair, 1, W)) > 0
            /\ Total(SubSeq(pair, W + 1, 2 * W)) > 0

evaluate(rows, origin, post) ==
    LET run == latest_eligible_run(rows, origin)
        pair == WindowPair(run)
        w1 == SubSeq(pair, 1, W)
        w2 == SubSeq(pair, W + 1, 2 * W)
        final == pair[2 * W]
    IN  IF Len(run) \div W < 2
        THEN [gate |-> "FAIL", duration |-> "FAIL", windows |-> <<>>]
        ELSE [gate |-> Gate(/\ SteadyWindow(w1) /\ SteadyWindow(w2)
                            /\ SameMean(w1, w2)),
              duration |-> Gate(IF post
                                THEN final.wall >= origin + 2 * W * Period
                                ELSE final.end >= Guard + 2 * W * Period),
              windows |-> pair]

(***************************************************************************)
(* prompt12-precontrol-freshness.py over the same rows.                    *)
(***************************************************************************)
Complete(rows) ==
    Filter(rows, {i \in DOMAIN rows : classify_interval(rows[i]) = "complete"})

\* The latest 2 W complete rows, wherever they are.
Selected(rows) ==
    LET c == Complete(rows)
    IN  SubSeq(c, Len(c) - 2 * W + 1, Len(c))

\* load_rows and validate_window.
FreshnessAccepts(rows) ==
    /\ \A i \in 2..Len(rows) : rows[i - 1].wall < rows[i].wall
    /\ Len(Complete(rows)) >= 2 * W
    /\ \A i \in 2..(2 * W) : contiguous(Selected(rows)[i - 1], Selected(rows)[i])
    /\ EvaluatorAccepts(Selected(rows), 0)

precontrol_admission_gate(rows, at) ==
    LET sel == Selected(rows)
        official == evaluate(sel, 0, FALSE)
    IN  /\ official.windows = sel
        /\ official.gate = "PASS" /\ official.duration = "PASS"
        /\ sel[2 * W].wall <= at /\ at <= sel[2 * W].wall + MaxAge

(***************************************************************************)
(* The adapter and the handoff that runs it.                               *)
(***************************************************************************)
environment == <<now, stream, setup, controls>>

\* A phase is evaluated once its control was dispatched.
AdStart ==
    /\ consumer = "adapter" /\ pc = "start"
    /\ Len(commands) = index
    /\ Goto(IF index > 0 THEN "timeline" ELSE "stat_raw")
    /\ UNCHANGED <<environment, sizes, previous, result>>

\* run_incremental_timeline: the builder is run again until it succeeds ...
AdTimeline ==
    /\ pc = "timeline" /\ TimelineReady
    /\ timeline' = build_events
    /\ Goto("stat_raw")
    /\ UNCHANGED <<environment, sizes, previous, report, picked, decision,
                   fault>>

\* ... or the time for it is up.
AdTimelineTimeout ==
    /\ pc = "timeline" /\ ~TimelineReady
    /\ Fail("TIMELINE")
    /\ UNCHANGED environment

\* stable_pair_snapshot: the two sizes are read one after the other.
AdStatRaw ==
    /\ pc \in {"stat_raw", "check_raw"}
    /\ sizes' = <<Len(raw), 0>>
    /\ Goto(IF pc = "stat_raw" THEN "stat_stamps" ELSE "check_stamps")
    /\ UNCHANGED <<environment, previous, result>>

\* Both files must have kept their sizes for stable_ms.
AdStatStamps ==
    /\ pc = "stat_stamps"
    /\ LET seen == <<sizes[1], Len(stamps)>>
       IN  \/ /\ seen[1] = 0 \/ seen[2] = 0
              /\ Goto("stat_raw") /\ UNCHANGED previous
           \/ /\ seen[1] > 0 /\ seen[2] > 0 /\ seen # previous
              /\ Goto("stat_raw") /\ previous' = seen
           \/ /\ seen[1] > 0 /\ seen[2] > 0 /\ seen = previous
              /\ Goto("check_raw") /\ UNCHANGED previous
    /\ sizes' = <<0, 0>>
    /\ UNCHANGED <<environment, result>>

\* That many bytes were read; the sizes are compared again.
AdCheckStamps ==
    /\ pc = "check_stamps"
    /\ previous' = <<sizes[1], Len(stamps)>>
    /\ Goto(IF previous' = previous THEN "tools" ELSE "stat_raw")
    /\ sizes' = <<0, 0>>
    /\ UNCHANGED <<environment, result>>

\* snapshot_timeout_ms, or the last line of a file has no end.
AdTimeout ==
    /\ pc \in {"stat_raw", "check_raw"}
    /\ Fail("SNAPSHOT")
    /\ UNCHANGED environment

Snapshot == [lines |-> SubSeq(raw, 1, previous[1]),
             records |-> SubSeq(stamps, 1, previous[2])]

Rows == Parsed(Snapshot.records)

\* The time origin of the mode.
Origin == IF index > 0 THEN load_post_t0 ELSE 0

\* The three tools on the private snapshot.
AdTools ==
    /\ pc = "tools"
    /\ \/ /\ ~ParserAccepts(Snapshot.lines, Snapshot.records)
          /\ Fail("PARSER")
       \/ /\ ParserAccepts(Snapshot.lines, Snapshot.records)
          /\ ~CanonicalizerAccepts(Rows)
          /\ Fail("CANONICALIZER")
       \/ /\ ParserAccepts(Snapshot.lines, Snapshot.records)
          /\ CanonicalizerAccepts(Rows)
          /\ Rows # <<>> => ~EvaluatorAccepts(Rows, Origin)
          /\ Fail("EVALUATOR")
       \/ /\ ParserAccepts(Snapshot.lines, Snapshot.records)
          /\ CanonicalizerAccepts(Rows)
          /\ Rows # <<>> /\ EvaluatorAccepts(Rows, Origin)
          /\ report' = evaluate(Rows, Origin, index > 0)
          /\ Goto("gate")
          /\ UNCHANGED <<sizes, previous, timeline, picked, decision, fault>>
    /\ UNCHANGED environment

\* The handoff looks at output_stationarity_gate: FAIL is the supervisor's
\* reason to observe for longer and then to make a new attempt, which knows
\* nothing of this one.
HandoffExtend ==
    /\ pc = "gate" /\ report.gate = "FAIL"
    /\ Goto("start")
    /\ report' = NoReport /\ timeline' = <<>> /\ previous' = <<0, 0>>
    /\ UNCHANGED <<environment, sizes, picked, decision, fault>>

\* PASS fixes the decision time, with which the freshness tool is run on the
\* canonical rows the report names.
HandoffFreshness ==
    /\ pc = "gate" /\ report.gate = "PASS"
    /\ \/ /\ FreshnessAccepts(Rows) /\ precontrol_admission_gate(Rows, now)
          /\ picked' = Selected(Rows) /\ decision' = now
          /\ Goto("done")
          /\ UNCHANGED <<sizes, previous, timeline, report, fault>>
       \/ /\ FreshnessAccepts(Rows) => ~precontrol_admission_gate(Rows, now)
          /\ Fail("FRESHNESS")
    /\ UNCHANGED environment

(***************************************************************************)
(* The tail reader (inspect) and source_at_90.                             *)
(***************************************************************************)
\* The playbook starts the fast trigger when the receiver has reported.
TailStart ==
    /\ consumer = "tail" /\ pc = "start" /\ stamps # <<>>
    /\ Goto("tail_open")
    /\ UNCHANGED <<environment, sizes, previous, result>>

\* Both files are opened; the size of the raw file is the one of now.
TailOpen ==
    /\ pc = "tail_open"
    /\ sizes' = <<Len(raw), 0>>
    /\ Goto("tail_read")
    /\ UNCHANGED <<environment, previous, result>>

Max(a, b) == IF a > b THEN a ELSE b

TailIntervals(first) ==
    Filter(stamps, {i \in first..Len(stamps) :
                      stamps[i].shape = "complete_0p2" /\ stamps[i].end > Guard})

\* What inspect says of the records it reads: the first check that fails.
inspect ==
    LET first == Max(1, Len(stamps) + 1 - TailRows)
        covered == {i \in first..Len(stamps) : i <= sizes[1]}
        pairs == TailIntervals(first)
        n == Len(pairs)
    IN  IF Len(stamps) - first < 1 THEN "TIMESTAMP_TAIL_TOO_SHORT"
        ELSE IF \E i \in covered : raw[i] # stamps[i]
        THEN "RAW_LINE_SHA_MISMATCH"
        ELSE IF \E i \in covered : stamps[i].shape = "partial_terminal_candidate"
        THEN "LATEST_INTERVAL_NOT_COMPLETE"
        ELSE IF Len(stamps) > sizes[1] THEN "RAW_OFFSET_INVALID"
        ELSE IF n < 2 THEN "COMPLETE_PAIR_UNAVAILABLE"
        ELSE IF ~contiguous(pairs[n - 1], pairs[n])
        THEN "COMPLETE_PAIR_NOT_CONTIGUOUS"
        ELSE IF now > pairs[n].wall + MaxAge THEN "SAMPLE_AGE_OUT_OF_BOUNDS"
        ELSE "PASS"

\* Mutant: a record past the size seen before is not forgiven.
RetryableStrict == {"TIMESTAMP_TAIL_TOO_SHORT", "COMPLETE_PAIR_UNAVAILABLE",
                    "SAMPLE_AGE_OUT_OF_BOUNDS"}

\* The reasons after which source_at_90 polls again.
Retryable == {"TIMESTAMP_TAIL_TOO_SHORT", "RAW_OFFSET_INVALID",
              "COMPLETE_PAIR_UNAVAILABLE", "SAMPLE_AGE_OUT_OF_BOUNDS"}

TailRead ==
    /\ pc = "tail_read"
    /\ LET pairs == TailIntervals(Max(1, Len(stamps) + 1 - TailRows))
           b == pairs[Len(pairs)]
       IN  \/ /\ \/ inspect \in Retryable
                 \/ inspect = "PASS" /\ b.end < Target
              /\ Goto("tail_open")
              /\ UNCHANGED <<sizes, previous, timeline, report, picked, decision,
                             fault>>
           \/ /\ inspect \notin Retryable /\ inspect # "PASS"
              /\ Fail("SOURCE_INVALID")
           \/ /\ inspect = "PASS" /\ b.end > Latest
              /\ Fail("CONTROL_WINDOW_MISSED")
           \/ /\ inspect = "PASS" /\ Target <= b.end /\ b.end <= Latest
              /\ picked' = SubSeq(pairs, Len(pairs) - 1, Len(pairs))
              /\ decision' = now
              /\ Goto("done")
              /\ UNCHANGED <<sizes, previous, timeline, report, fault>>
    /\ UNCHANGED environment

\* MAX_WAIT_SECONDS
TailTimeout ==
    /\ pc = "tail_open"
    /\ Fail("NOT_AVAILABLE")
    /\ UNCHANGED environment

-----------------------------------------------------------------------------
EnvironmentNext ==
    \/ \E shape \in Shapes : CaptureRead(shape)
    \/ CaptureWrite \/ Tick
    \/ Command \/ Acknowledge
    \/ \E ok \in BOOLEAN : Apply(ok)

AdapterNext ==
    \/ AdStart \/ AdTimeline \/ AdTimelineTimeout \/ AdStatRaw \/ AdStatStamps
    \/ AdCheckStamps \/ AdTimeout \/ AdTools
    \/ HandoffExtend \/ HandoffFreshness

TailNext == TailStart \/ TailOpen \/ TailRead \/ TailTimeout

PipelineNext == EnvironmentNext \/ AdapterNext \/ TailNext

PipelineSpec == PipelineInit /\ [][PipelineNext]_pipelineVars

-----------------------------------------------------------------------------
(***************************************************************************)
(* Properties.                                                             *)
(***************************************************************************)
\* Types of the variables.
PipelineTypeOK ==
    /\ now \in Nat
    /\ raw \in Seq(Lines) /\ stamps \in Seq(Lines) /\ held \in Seq(Lines)
    /\ index \in 0..MaxControls
    /\ plant \in [0..index -> Rates]
    /\ commands \in Seq(Nat) /\ acks \in Seq(Nat)
    /\ applied \in Seq([at : Nat, ok : BOOLEAN])
    /\ consumer \in {"adapter", "tail"}
    /\ sizes \in Nat \X Nat /\ previous \in Nat \X Nat
    /\ decision \in Nat
    /\ picked \in Seq(Lines)

\* A pair of files copied while the wrapper appends to both is one the parser
\* accepts: every record has its line, whatever the wrapper was doing.
SnapshotParses ==
    pc = "tools" => ParserAccepts(Snapshot.lines, Snapshot.records)

\* The run the loop returns: the longest block of eligible rows without a gap
\* that ends with the last eligible row.
LatestRun(rows, origin) ==
    LET good == {i \in DOMAIN rows : eligible(rows[i], origin)}
        last == CHOOSE i \in good : \A j \in good : j <= i
        starts == {b \in 1..last :
                     \A j \in b..last :
                        /\ eligible(rows[j], origin)
                        /\ j > b => contiguous(rows[j - 1], rows[j])}
        first == CHOOSE b \in starts : \A c \in starts : b <= c
    IN  IF good = {} THEN <<>> ELSE SubSeq(rows, first, last)

\* latest_eligible_run computes LatestRun.
RunIsLatest ==
    pc = "tools" /\ CanonicalizerAccepts(Rows) =>
        latest_eligible_run(Rows, Origin)
            = LatestRun(Rows, Origin)

AfterLastStep(samples) ==
    samples # <<>> /\ index > 0 =>
        /\ \A i \in 1..index : applied[i].ok
        /\ \A i \in DOMAIN samples : ObservedStart(samples[i]) >= applied[index].at

\* A stationarity report that passes compares samples taken after the last of
\* all controls, every one of which was read back as requested.
WindowsAfterLastStep == report.gate = "PASS" => AfterLastStep(report.windows)

\* So are the samples a control is admitted on, although the freshness tool
\* picks them without knowing of any control.
AdmittedAfterLastStep == consumer = "adapter" => AfterLastStep(picked)

\* The fast trigger, which reads files that grow, gives up on its source only
\* when the receiver did report something else than complete intervals.
TailFailsOnBadSource ==
    fault = "SOURCE_INVALID" =>
        \E i \in DOMAIN raw : raw[i].shape # "complete_0p2"

\* Does not hold (README, Divergences).
\* docs/12-siso-system-identification-design.md:861: POST_STEP_COMPLETE needs
\* 10 s since the readback besides the gate.  The next control is admitted no
\* earlier.
PostStepMinimum ==
    consumer = "adapter" /\ picked # <<>> /\ index > 0 =>
        decision >= applied[index].at + 2 * W * Period

=============================================================================
