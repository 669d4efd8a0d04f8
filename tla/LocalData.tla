------------------------------ MODULE LocalData ------------------------------
(***************************************************************************)
(* The values promshim's local executor passes from one plan node to the   *)
(* next (internal/promshim/model): label sets, instant vectors, range      *)
(* matrices and scalars, and the regrouping of a matrix by timestamp that  *)
(* most range-mode operators are built from.                               *)
(*                                                                         *)
(* Labels are numbered in the order of their names, __name__ first, and a  *)
(* label set is a function from the labels to values with 0 for a label    *)
(* that is not there.  Sample values are integers, NaN one that no query   *)
(* reaches by arithmetic; times are milliseconds.  A vector is a sequence  *)
(* of samples and not a set, because nothing in the Go types keeps it free *)
(* of two samples with one label set.                                      *)
(***************************************************************************)
EXTENDS Integers, SequencesExt

CONSTANTS
    Labels,         \* the labels, 1 .. n
    NaN,            \* the value standing for a float's NaN
    Lookback,       \* how long a sample answers for its series
    EvalInterval    \* the step of a subquery that names none

Absent == 0
MetricName == 1     \* __name__

ASSUME LabelsAssumption == IsFiniteSet(Labels) /\ Labels # {} /\ Labels = 1 .. Cardinality(Labels)
ASSUME NaNAssumption == NaN \in Int
ASSUME LookbackAssumption == {Lookback, EvalInterval} \subseteq Nat

----------------------------------------------------------------------------
(* Label sets. *)

Keep(metric, names) ==
    [l \in Labels |-> IF l \in names THEN metric[l] ELSE Absent]

NoLabels == [l \in Labels |-> Absent]

DropMetricName(metric) == Keep(metric, Labels \ {MetricName})

AggregationMetric(metric, grouping, without) ==
    IF without THEN Keep(metric, Labels \ (grouping \cup {MetricName}))
               ELSE Keep(metric, grouping)

\* The order of two label sets' LabelsKey strings: names and values of the
\* labels that are there, so a label set that ends first sorts first.
KeyLess(a, b) ==
    \E l \in Labels :
        /\ \A k \in 1 .. l - 1 : a[k] = b[k]
        /\ a[l] # b[l]
        /\ IF Absent \in {a[l], b[l]}
           THEN LET shorter == IF a[l] = Absent THEN a ELSE b
                    ended == \A k \in Labels : k > l => shorter[k] = Absent
                IN  (shorter = a) <=> ended
           ELSE a[l] < b[l]

----------------------------------------------------------------------------
(* Runtime values. *)

Sample(metric, t, v) == [metric |-> metric, t |-> t, v |-> v]
Series(metric, points) == [metric |-> metric, points |-> points]

Scalar(t, v) == [kind |-> "scalar", t |-> t, v |-> v]
Vector(samples) == [kind |-> "vector", samples |-> samples]
Matrix(series) == [kind |-> "matrix", series |-> series]
Error(class) == [kind |-> "error", class |-> class]

Failed(value) == value.kind = "error"

Metrics(items) == {items[i].metric : i \in DOMAIN items}

\* The order most operators leave their results in.
InKeyOrder(samples) ==
    SortSeq(samples, LAMBDA a, b : KeyLess(a.metric, b.metric) \/
                                   (a.metric = b.metric /\ a.t < b.t))

----------------------------------------------------------------------------
(* A matrix by timestamp, and back. *)

TimesOf(series) == {p.t : p \in UNION {ToSet(s.points) : s \in ToSet(series)}}

\* A set in a strict order of its members.
Ordered(S, Less(_, _)) ==
    [i \in 1 .. Cardinality(S) |-> CHOOSE x \in S : Cardinality({y \in S : Less(y, x)}) = i - 1]

Ascending(times) == Ordered(times, <)

\* rangeSeriesSamplesByTimestamp, at one timestamp.
SamplesAt(series, t) ==
    FlattenSeq([i \in DOMAIN series |->
        LET here == SelectSeq(series[i].points, LAMBDA p : p.t = t)
        IN  [j \in DOMAIN here |-> Sample(series[i].metric, t, here[j].v)]])

\* Samples gathered into one series per label set, in the order they came,
\* the series in the order of their keys.
SeriesOf(samples) ==
    LET keys == Ordered(Metrics(samples), KeyLess)
        pointsOf(m) == LET own == SelectSeq(samples, LAMBDA s : s.metric = m)
                       IN  [i \in DOMAIN own |-> [t |-> own[i].t, v |-> own[i].v]]
    IN  [i \in DOMAIN keys |-> Series(keys[i], pointsOf(keys[i]))]

\* The vectors of a set of timestamps, brought together.
AtEachTimestamp(at) ==
    LET order == Ascending(DOMAIN at)
        steps == [i \in DOMAIN order |-> at[order[i]]]
    IN  IF \E i \in DOMAIN steps : Failed(steps[i])
        THEN steps[CHOOSE i \in DOMAIN steps :
                       /\ Failed(steps[i])
                       /\ \A j \in 1 .. i - 1 : ~Failed(steps[j])]
        ELSE Matrix(SeriesOf(FlattenSeq([i \in DOMAIN steps |-> steps[i].samples])))

\* Points of several series with one label set brought together: sorted, and
\* refused when two of them are at one time (SortAndValidateRangePoints).
Merged(series, duplicate) ==
    LET all == FlattenSeq([i \in DOMAIN series |->
                   [j \in DOMAIN series[i].points |->
                       Sample(series[i].metric, series[i].points[j].t,
                              series[i].points[j].v)]])
        sorted == SortSeq(all, LAMBDA a, b : a.t < b.t)
        collide(i, j) == i # j /\ all[i].metric = all[j].metric /\ all[i].t = all[j].t
    IN  IF Len(series) <= 1 THEN Matrix(series)
        ELSE IF \E i, j \in DOMAIN all : collide(i, j) THEN Error(duplicate)
        ELSE Matrix(SeriesOf(sorted))

HasTwins(samples) ==
    \E i, j \in DOMAIN samples : i # j /\ samples[i].metric = samples[j].metric

----------------------------------------------------------------------------
(* Requests, and the series and points of ClickHouse that selectors select. *)

Instant(t) == [mode |-> "instant", t |-> t]
OverRange(start, end, step) ==
    [mode |-> "range", start |-> start, end |-> end, step |-> step]

Steps(params) ==
    {params.start + k * params.step : k \in 0 .. (params.end - params.start) \div params.step}

Matches(matcher, metric) ==
    IF matcher.type = "!=" THEN metric[matcher.label] \notin matcher.values
                           ELSE metric[matcher.label] \in matcher.values

SelectedSeries(store, matchers) ==
    SelectSeq(store, LAMBDA s : \A i \in DOMAIN matchers : Matches(matchers[i], s.metric))

\* The points of a series in (from, to].
PointsIn(s, from, to) == SelectSeq(s.points, LAMBDA p : from < p.t /\ p.t <= to)

\* resolveStartEndMillis: where an @ modifier pins the evaluation at t.
Anchor(at, t, params) ==
    CASE at.kind = "none" -> t
      [] at.kind = "fixed" -> at.t
      [] at.kind = "start" -> IF params.mode = "range" THEN params.start ELSE params.t
      [] at.kind = "end" -> IF params.mode = "range" THEN params.end ELSE params.t

----------------------------------------------------------------------------
(* The times a subquery is evaluated at. *)

\* Mutant: the window's start belongs to it.
ClosedStart(windowStart, step) == ((windowStart + step - 1) \div step) * step

\* alignLocalSubqueryStepStart: the first multiple of the step after the
\* window's start.
AlignedStart(windowStart, step) == (windowStart \div step) * step + step

\* The step of a subquery, and the end of the window it looks back from.
Resolution(plan) == IF plan.step > 0 THEN plan.step ELSE EvalInterval
WindowEnd(plan, params) == Anchor(plan.at, params.t, params) - plan.offset

SubqueryTimes(plan, params) ==
    LET end == WindowEnd(plan, params)
        start == AlignedStart(end - plan.range, Resolution(plan))
    IN  IF end < start THEN {} ELSE Steps(OverRange(start, end, Resolution(plan)))
=============================================================================
