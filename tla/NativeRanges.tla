---------------------------- MODULE NativeRanges ----------------------------
(***************************************************************************)
(* The parts of the native renderer's statements that read ranges: the     *)
(* grids of timestamps, the raw samples between two times, the steps of a  *)
(* subquery, and the functions of a range (internal/promshim/native/       *)
(* renderer, storage and emit).                                            *)
(*                                                                         *)
(* A range function is written in one of several ways, chosen by function, *)
(* range and step (native/physical): samples joined with the grid, samples *)
(* given to their timestamps by arithmetic, or an array of each series     *)
(* filtered for every timestamp.  All of them have to agree.  Left out are *)
(* the ways of avg_over_time and rate and those that are off by default    *)
(* (native grid functions, cumulative averages).                           *)
(***************************************************************************)
EXTENDS LocalExec

\* The timestamps of a range, made by range(start, end + step, step).
Grid(params) ==
    {params.start + k * params.step :
        k \in 0 .. (params.end + params.step - 1 - params.start) \div params.step}

EvaluationTimes(params) == IF params.mode = "instant" THEN {params.t} ELSE Grid(params)

----------------------------------------------------------------------------
(* Raw samples. *)

\* The raw samples of a series in a window; both of its ends belong to it.
RawPoints(s, bounds) ==
    SelectSeq(s.points, LAMBDA p : bounds.from <= p.t /\ p.t <= bounds.to)

\* The labels a selector's rows carry: all, or those that the aggregation over
\* it asks for (applyRenderParamsNarrowing, selectorTagsExpr).
Tags(metric, params) ==
    IF "tags" \in DOMAIN params THEN Keep(metric, params.tags) ELSE metric

\* The samples of each series, without the NaN ones; by the series itself and
\* not by its labels, which may have been narrowed.
RawSeries(store, selector, params, bounds) ==
    LET series == SelectedSeries(store, selector.matchers)
        numbers(s) == SelectSeq(RawPoints(s, bounds), LAMBDA p : p.v # NaN)
        answers == [i \in DOMAIN series |-> Series(Tags(series[i].metric, params), numbers(series[i]))]
    IN  Matrix(SelectSeq(answers, LAMBDA s : s.points # <<>>))

----------------------------------------------------------------------------
(* Subqueries. *)

\* subqueryRenderEnvelopeLogical: the range a subquery's child is rendered
\* over, on multiples of the step, after the start of the first window up to
\* the end of the last.
Envelope(plan, params) ==
    LET step == IF plan.step > 0 THEN plan.step ELSE EvalInterval
        first == IF params.mode = "range" THEN params.start ELSE params.t
        last == IF params.mode = "range" THEN params.end ELSE params.t
        from == Anchor(plan.at, first, params) - plan.offset - plan.range
        to == Anchor(plan.at, last, params) - plan.offset
    IN  OverRange((from \div step) * step + step, (to \div step) * step, step)

----------------------------------------------------------------------------
(* Functions of a range. *)

\* rangeFunctionValueExpr, with the least number of points a function takes.
WindowValue(func, points) ==
    IF points = <<>> THEN <<>>
    ELSE IF func = "changes" /\ \E p \in ToSet(points) : p.v = NaN THEN <<NaN>>
    ELSE RangeValue(func, points)

RangeResultMetric(func, metric) == IF KeepsName(func) THEN metric ELSE DropMetricName(metric)

\* canUseRangeFunctionRowsFastPath, canUseInstantRangeFunctionRowsFastPath
HasRowsPath(func) == func \in {"sum_over_time", "max_over_time"}

\* canFuseRangeAggregationLogicalDirect, but for the mode: an aggregation that
\* is written together with the range function under it.
IsFusible(plan) ==
    /\ plan.node = "aggregate" /\ plan.agg.op \in {"sum", "avg", "min", "max", "count"}
    /\ plan.child.node = "over_time"

\* tryRenderSubqueryRowsSourceLogical: the subqueries whose samples are rendered
\* as rows; those of a selector always can be.
HasRows(child) == child.node = "window" \/ IsFusible(child.child)

\* The instant statements: one row for each series, at the evaluation time.
InstantOverRows(func, series, params) ==
    [i \in DOMAIN series |->
        LET vs == WindowValue(func, series[i].points)
        IN  [j \in DOMAIN vs |->
                Sample(RangeResultMetric(func, series[i].metric), params.t, vs[j])]]

\* buildInstantRangeFunctionSQL: at the time of the series' last sample.
InstantOverArrays(func, series) ==
    [i \in DOMAIN series |->
        LET vs == WindowValue(func, series[i].points)
        IN  [j \in DOMAIN vs |->
                Sample(RangeResultMetric(func, series[i].metric),
                       Last(series[i].points).t, vs[j])]]

\* renderRangeFunctionLogicalBody in instant mode: samples that can be had as
\* rows are added up as such.
OverTimeInstant(plan, value, params) ==
    Vector(FlattenSeq(IF HasRowsPath(plan.func) /\ HasRows(plan.child)
                      THEN InstantOverRows(plan.func, value.series, params)
                      ELSE InstantOverArrays(plan.func, value.series)))

\* ChooseRangeWindowAggregate: how samples read directly and timestamps are
\* brought together.
WindowStrategy(func, window, params) ==
    LET overlapping == (window.range + params.step - 1) \div params.step + 1
    IN  IF func = "max_over_time" /\ window.range <= params.step
        THEN IF window.offset = 0 THEN "sparse" ELSE "joined"
        ELSE IF overlapping <= 4 THEN "joined" ELSE "filtered"

\* A window is closed when it is made of raw samples and open at its start
\* when it is a subquery's.
InWindow(p, t, child) ==
    /\ p.t <= t - child.offset
    /\ IF child.node = "subquery" THEN p.t > t - child.offset - child.range
                                  ELSE p.t >= t - child.offset - child.range

\* The timestamps a sample is given to when ranges do not overlap: the next
\* one, and the one after for a sample that is on a boundary.
SparseTimes(p, range, params) ==
    LET late == Max({p.t - params.start, 0})
        next == params.start + ((late + params.step - 1) \div params.step) * params.step
        onBoundary == /\ range = params.step /\ p.t >= params.start
                      /\ (p.t - params.start) % params.step = 0
        candidates == {next} \cup {t \in {next + params.step} : onBoundary}
    IN  {t \in candidates : /\ params.start <= t /\ t <= params.end
                            /\ t - range <= p.t /\ p.t <= t}

\* A function of each window of a range, for a value that holds their samples:
\* of arrays filtered for every step, or of rows joined with the grid.
OverWindows(func, value, child, params, strategy) ==
    LET order == Ascending(IF strategy = "filtered" THEN Steps(params) ELSE Grid(params))
        belongs(p, t) == IF strategy = "sparse" THEN t \in SparseTimes(p, child.range, params)
                         ELSE InWindow(p, t, child)
        valueAt(s, t) == WindowValue(func, SelectSeq(s.points, LAMBDA p : belongs(p, t)))
        points(s) == FlattenSeq([i \in DOMAIN order |->
                         LET vs == valueAt(s, order[i])
                         IN  [j \in DOMAIN vs |-> [t |-> order[i], v |-> vs[j]]]])
        answers == [i \in DOMAIN value.series |->
                       LET s == value.series[i]
                       IN  Series(RangeResultMetric(func, s.metric), points(s))]
    IN  Matrix(SelectSeq(answers, LAMBDA s : s.points # <<>>))

\* buildRangeFunctionOverRowsSQL: rows joined with the grid.
OverRows(func, value, child, params) == OverWindows(func, value, child, params, "joined")

\* renderRangeFunctionLogicalBody in range mode.
OverTimeRange(plan, value, params) ==
    IF HasRowsPath(plan.func) /\ HasRows(plan.child)
    THEN OverRows(plan.func, value, plan.child, params)
    ELSE OverWindows(plan.func, value, plan.child, params,
                     IF plan.child.node = "subquery" THEN "filtered"
                     ELSE WindowStrategy(plan.func, plan.child, params))

OverTimeRows(plan, value, params) ==
    IF Failed(value) THEN value
    ELSE IF params.mode = "instant" THEN OverTimeInstant(plan, value, params)
    ELSE OverTimeRange(plan, value, params)

\* renderRangeFunctionRowsLogicalSQL: the rows for an aggregation that is written
\* together with the function, which never takes the samples as they are.
FusedRows(plan, value, params) ==
    IF Failed(value) THEN value
    ELSE OverWindows(plan.func, value, plan.child, params,
                     IF plan.child.node = "subquery" THEN "filtered"
                     ELSE WindowStrategy(plan.func, plan.child, params))
=============================================================================
