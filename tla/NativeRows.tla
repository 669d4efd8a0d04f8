----------------------------- MODULE NativeRows -----------------------------
(***************************************************************************)
(* The rows the native renderer's statements answer with, operator by      *)
(* operator (the builders of internal/promshim/storage): the samples a     *)
(* selector has at the timestamps of a request, the rows of a join, of an  *)
(* aggregation, and their order.  No plan is walked here: NativeRender     *)
(* puts these together along one.  Nothing here is recursive, so that      *)
(* these operators can be proved about.                                    *)
(***************************************************************************)
EXTENDS NativeRanges

----------------------------------------------------------------------------
(* Selectors. *)

\* The last sample of each series, without the NaN ones (argMax by time).
LatestSamples(store, selector, params, bounds) ==
    LET latest(s) == LET ps == RawPoints(s, bounds)
                     IN  IF ps = <<>> \/ Last(ps).v = NaN THEN <<>>
                         ELSE <<Sample(Tags(s.metric, params), params.t, Last(ps).v)>>
        series == SelectedSeries(store, selector.matchers)
    IN  FlattenSeq([i \in DOMAIN series |-> latest(series[i])])

\* Mutant: the phase of a sample is taken without the selector's offset.
IsNearUnshifted(p, offset, params) ==
    LET phase == (p.t - params.start) % params.step
    IN  phase = 0 \/ phase >= params.step - Lookback

\* sparseStepPhasePredicate: the samples that are before a timestamp by little
\* enough to count there.
IsNearGrid(p, offset, params) ==
    LET phase == (p.t + offset - params.start) % params.step
    IN  phase = 0 \/ phase >= params.step - Lookback

\* With steps longer than the lookback, the others are not read at all.
SparsePoints(points, offset, params) ==
    IF params.step <= Lookback THEN points
    ELSE SelectSeq(points, LAMBDA p : IsNearGrid(p, offset, params))

\* ASOF JOIN with the grid: the latest sample at or before each timestamp,
\* unless it is older than the lookback.
AsofPoints(points, offset, params) ==
    LET order == Ascending(Grid(params))
        at(t) == LET before == SelectSeq(points, LAMBDA p : p.t <= t - offset)
                 IN  IF \/ before = <<>>
                        \/ Last(before).t < t - offset - Lookback
                        \/ Last(before).v = NaN
                     THEN <<>> ELSE <<[t |-> t, v |-> Last(before).v]>>
    IN  FlattenSeq([i \in DOMAIN order |-> at(order[i])])

\* The first timestamp at which a sample may count.
NextTimestamp(p, offset, params) ==
    LET late == p.t + offset - params.start + params.step - 1
    IN  params.start + (late \div params.step) * params.step

\* bucketed_argmax, for long steps: each sample is given to the timestamp
\* after it, and the last one of a timestamp answers.
BucketedPoints(points, offset, params) ==
    LET next(p) == NextTimestamp(p, offset, params)
        order == Ascending({next(p) : p \in ToSet(points)} \cap params.start .. params.end)
        at(t) == LET own == SelectSeq(points, LAMBDA p : next(p) = t)
                 IN  IF Last(own).v = NaN THEN <<>> ELSE <<[t |-> t, v |-> Last(own).v]>>
    IN  FlattenSeq([i \in DOMAIN order |-> at(order[i])])

\* BuildRawSelectorRangeSQL, by one of its two strategies.
LatestOnGrid(store, selector, params, bounds, strategy) ==
    LET series == SelectedSeries(store, selector.matchers)
        points(s) ==
            LET read == SparsePoints(RawPoints(s, bounds), selector.offset, params)
            IN  IF strategy = "bucketed" /\ params.step > Lookback
                THEN BucketedPoints(read, selector.offset, params)
                ELSE AsofPoints(read, selector.offset, params)
        answers == [i \in DOMAIN series |-> Series(Tags(series[i].metric, params), points(series[i]))]
    IN  SelectSeq(answers, LAMBDA s : s.points # <<>>)

----------------------------------------------------------------------------
(* Joins. *)

\* buildJoinGroupExpr: the labels a row is matched by.
JoinGroup(tags, m) ==
    IF m.on THEN Keep(tags, m.labels) ELSE Keep(tags, Labels \ (m.labels \cup {MetricName}))

\* buildPreparedJoinSideSelect, for a side that must have one row for each
\* match group and has two; whether they would be joined with anything or not.
Ambiguous(rows, m) ==
    \E i, j \in DOMAIN rows : i # j /\ JoinGroup(rows[i].metric, m) = JoinGroup(rows[j].metric, m)

\* By the shape of the join, the sides that must.
AmbiguousSides(lhs, rhs, m) ==
    \/ m.card # "many-to-one" /\ Ambiguous(lhs, m)
    \/ m.card # "one-to-many" /\ Ambiguous(rhs, m)

\* buildBinaryResultTagsExpr: the labels of the many side, for one to one those
\* that are matched by; the name stays only on what a comparison lets through.
JoinResultTags(many, one, op, m, bool) ==
    LET matched == IF m.card # "one-to-one" THEN many
                   ELSE IF m.on THEN Keep(many, m.labels)
                   ELSE Keep(many, Labels \ m.labels)
        named == IF IsComparison(op) /\ ~bool THEN matched ELSE DropMetricName(matched)
    IN  [l \in Labels |-> IF l \in m.include THEN one[l] ELSE named[l]]

\* buildBinaryValueExpr: the value of two rows that were joined, or none.
JoinedValue(op, left, right, bool) ==
    LET value == ApplyScalarBinary(op, left, right)
    IN  IF ~IsComparison(op) \/ bool THEN <<value>>
        ELSE IF value = 1 THEN <<left>> ELSE <<>>

\* Mutant: two results of one match group are refused, whatever their labels.
OneResultPerGroup(op, lhs, rhs, m, bool, t) ==
    LET partners(l) == SelectSeq(rhs, LAMBDA r : JoinGroup(r.metric, m) = JoinGroup(l.metric, m))
        matched == SelectSeq(lhs, LAMBDA l : partners(l) # <<>>)
        groups == [i \in DOMAIN matched |-> Sample(JoinGroup(matched[i].metric, m), t, 0)]
    IN  IF HasTwins(groups) THEN Error("execution")
        ELSE Vector([i \in DOMAIN matched |->
                 Sample(JoinResultTags(matched[i].metric, partners(matched[i])[1].metric, op, m, bool),
                        t, ScalarResult(op, matched[i].v, partners(matched[i])[1].v, FALSE, bool))])

\* BuildInstantVectorJoinSQL: an inner join, the results grouped by their
\* labels and refused when two of them have the same.  A fill modifier does
\* not reach the statement.
JoinRows(op, lhs, rhs, m, bool, t) ==
    LET partners(l) == SelectSeq(rhs, LAMBDA r : JoinGroup(r.metric, m) = JoinGroup(l.metric, m))
        tags(l, r) == IF m.card = "one-to-many"
                      THEN JoinResultTags(r.metric, l.metric, op, m, bool)
                      ELSE JoinResultTags(l.metric, r.metric, op, m, bool)
        joined(l, r) == LET values == JoinedValue(op, l.v, r.v, bool)
                        IN  [k \in DOMAIN values |-> Sample(tags(l, r), t, values[k])]
        answers(l) == FlattenSeq([j \in DOMAIN partners(l) |-> joined(l, partners(l)[j])])
        results == FlattenSeq([i \in DOMAIN lhs |-> answers(lhs[i])])
    IN  IF AmbiguousSides(lhs, rhs, m) \/ HasTwins(results) THEN Error("execution")
        ELSE Vector(results)

\* BuildInstantBinaryVectorSelfJoinSQL: each row is its own partner.
SelfJoinRows(op, rows, m, bool, t) ==
    LET joined(l) == LET values == JoinedValue(op, l.v, l.v, bool)
                     IN  [k \in DOMAIN values |->
                             Sample(JoinResultTags(l.metric, l.metric, op, m, bool), t, values[k])]
        results == FlattenSeq([i \in DOMAIN rows |-> joined(rows[i])])
    IN  IF Ambiguous(rows, m) \/ HasTwins(results) THEN Error("execution") ELSE Vector(results)

\* BuildInstantVectorSetSQL
SetRows(op, lhs, rhs, m) ==
    LET groups(rows) == {JoinGroup(metric, m) : metric \in Metrics(rows)}
        within(rows, S) == SelectSeq(rows, LAMBDA s : JoinGroup(s.metric, m) \in S)
        outside(rows, S) == SelectSeq(rows, LAMBDA s : JoinGroup(s.metric, m) \notin S)
    IN  Vector(CASE op = "and" -> within(lhs, groups(rhs))
                 [] op = "unless" -> outside(lhs, groups(rhs))
                 [] op = "or" -> lhs \o outside(rhs, groups(lhs)))

\* buildJoinSource, flattenRangeSourceSelect: the rows of a statement for a time.
RowsAt(value, t, params) ==
    IF params.mode = "instant" THEN value.samples ELSE SamplesAt(value.series, t)

\* The join of two instant statements, or of two range statements at each
\* timestamp (BuildRangeVectorJoinSQL, BuildRangeVectorSetSQL).
Join2(plan, lhs, rhs, params) ==
    LET m == plan.matching[1]
        at(t) == LET left == RowsAt(lhs, t, params)
                     right == RowsAt(rhs, t, params)
                 IN  IF IsSetOperator(plan.op) THEN SetRows(plan.op, left, right, m)
                     ELSE JoinRows(plan.op, left, right, m, plan.bool, t)
    IN  IF Failed(lhs) THEN lhs ELSE IF Failed(rhs) THEN rhs
        ELSE IF params.mode = "instant" THEN at(params.t)
        ELSE AtEachTimestamp([t \in TimesOf(lhs.series) \cup TimesOf(rhs.series) |-> at(t)])

\* buildSelfReuseDecision: a function of a range against itself is read once,
\* when it is matched by all of its labels.
JoinsItself(plan) ==
    LET m == plan.matching[1]
    IN  /\ plan.lhs.node = "over_time" /\ plan.rhs.node = "over_time"
        /\ plan.lhs = plan.rhs
        /\ ~IsSetOperator(plan.op)
        /\ m.card = "one-to-one" /\ ~m.on /\ m.labels = {} /\ m.include = {}

\* That join: of the one statement, at each of its times.
SelfJoin(plan, rows, params) ==
    LET at(t) == SelfJoinRows(plan.op, RowsAt(rows, t, params), plan.matching[1], plan.bool, t)
    IN  IF Failed(rows) THEN rows
        ELSE IF params.mode = "instant" THEN at(params.t)
        ELSE AtEachTimestamp([t \in TimesOf(rows.series) |-> at(t)])

----------------------------------------------------------------------------
(* Aggregations. *)

\* buildAggregationTagsExpr: the labels of the group a row is in.
AggregationTags(tags, agg) ==
    IF agg.without THEN Keep(tags, Labels \ (agg.grouping \cup {MetricName}))
    ELSE Keep(tags, agg.grouping)

\* buildAggregationValueExpr: NULL, which is read as NaN, for a sum with a NaN
\* in it and for a minimum or maximum of nothing else.
AggregationValue(op, values) ==
    LET numbers == SelectSeq(values, LAMBDA v : v # NaN)
    IN  CASE op = "count" -> Len(values)
          [] op = "group" -> 1
          [] op = "sum" -> IF numbers # values THEN NaN
                           ELSE FoldLeft(LAMBDA acc, v : acc + v, 0, values)
          [] op = "min" -> IF numbers = <<>> THEN NaN ELSE Min(ToSet(numbers))
          [] op = "max" -> IF numbers = <<>> THEN NaN ELSE Max(ToSet(numbers))

\* The rows of one time, by the group they are in.
Grouped(rows, agg) ==
    LET groups == Ordered({AggregationTags(metric, agg) : metric \in Metrics(rows)}, KeyLess)
    IN  [i \in DOMAIN groups |->
            [tags |-> groups[i],
             rows |-> SelectSeq(rows, LAMBDA r : AggregationTags(r.metric, agg) = groups[i])]]

\* GROUP BY tags, and the time.
GroupedRows(rows, agg, t) ==
    LET groups == Grouped(rows, agg)
    IN  Vector([i \in DOMAIN groups |->
            Sample(groups[i].tags, t, AggregationValue(agg.op, Values(groups[i].rows)))])

\* selectionAggregationOrder: NaN last, equal values by their labels.
SelectionOrder(op, a, b) ==
    IF op = "limitk" \/ a.v = b.v THEN KeyLess(a.metric, b.metric)
    ELSE IF NaN \in {a.v, b.v} THEN b.v = NaN
    ELSE IF op = "topk" THEN a.v > b.v ELSE a.v < b.v

\* LIMIT k BY the group, and the time; no row for a k below one.
LimitedRows(rows, agg) ==
    LET groups == Grouped(rows, agg)
        first(g) == LET sorted == SortSeq(g.rows, LAMBDA a, b : SelectionOrder(agg.op, a, b))
                    IN  SubSeq(sorted, 1, Min({agg.param, Len(sorted)}))
    IN  Vector(IF agg.param < 1 THEN <<>>
               ELSE FlattenSeq([i \in DOMAIN groups |-> first(groups[i])]))

\* buildCountValuesMutatedTagsExpr: the value as one more label, and the name
\* off, even where it is grouped by.
WithValueLabel(tags, v, label) == [DropMetricName(tags) EXCEPT ![label] = FormatValue(v)]

\* count_values: the rows that have a label for their value are counted.
CountedRows(rows, agg, t) ==
    LET label == agg.param
        labelled == [i \in DOMAIN rows |->
                        [rows[i] EXCEPT !.metric = WithValueLabel(@, rows[i].v, label)]]
        counted == [agg EXCEPT !.op = "count",
                               !.grouping = IF agg.without THEN @ ELSE @ \cup {label}]
    IN  GroupedRows(labelled, counted, t)

\* selectionAggregationKValue: a k that is NaN is refused as the statement is
\* written.
RefusesParameter(agg) == IsSelecting(agg.op) /\ agg.param = NaN

\* BuildInstantAggregationOverSubquerySQL, BuildRangeAggregationOverSubquerySQL
AggregateRows(value, agg, params) ==
    LET at(t) == LET rows == RowsAt(value, t, params)
                 IN  IF IsSelecting(agg.op) THEN LimitedRows(rows, agg)
                     ELSE IF agg.op = "count_values" THEN CountedRows(rows, agg, t)
                     ELSE GroupedRows(rows, agg, t)
    IN  IF Failed(value) THEN value
        ELSE IF RefusesParameter(agg) THEN Error("execution")
        ELSE IF params.mode = "instant" THEN at(params.t)
        ELSE AtEachTimestamp([t \in TimesOf(value.series) |-> at(t)])

----------------------------------------------------------------------------
(* Sorting. *)

\* buildSortOrderBy: NaN last, and equal values by their labels, in the
\* direction of the sort.
RowsBefore(func, labels, a, b) ==
    LET descending == func \in {"sort_desc", "sort_by_label_desc"}
        byTags == IF descending THEN KeyLess(b.metric, a.metric) ELSE KeyLess(a.metric, b.metric)
        differing == {i \in DOMAIN labels : a.metric[labels[i]] # b.metric[labels[i]]}
        first == labels[Min(differing)]
    IN  IF SortsByValue(func)
        THEN IF a.v = b.v THEN byTags
             ELSE IF NaN \in {a.v, b.v} THEN b.v = NaN
             ELSE IF descending THEN a.v > b.v ELSE a.v < b.v
        ELSE IF differing = {} THEN byTags
             ELSE IF descending THEN a.metric[first] > b.metric[first]
                                ELSE a.metric[first] < b.metric[first]
=============================================================================
