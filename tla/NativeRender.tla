---------------------------- MODULE NativeRender ----------------------------
(***************************************************************************)
(* The answers of the statements the native renderer writes (internal/     *)
(* promshim/native/renderer, with the builders of internal/promshim/       *)
(* storage): a subtree of a plan becomes one SQL statement over the raw    *)
(* samples, and ClickHouse does all of the arithmetic.  Modelled is what   *)
(* the statement answers, not its text.                                    *)
(*                                                                         *)
(* Instant and range mode are rendered by code of their own at nearly      *)
(* every node.  A statement that throws is an error.  The reducers and the *)
(* rules for the labels of a result are those of the local executor, whose *)
(* operators are used for them.                                            *)
(***************************************************************************)
EXTENDS NativeAnalysis, NativeRows

----------------------------------------------------------------------------
(* Selectors. *)

\* lowerLeaf.  An @ modifier shows in the window and nowhere else.
RenderLeaf(store, selector, params, bounds, strategy) ==
    IF params.mode = "instant"
    THEN Vector(LatestSamples(store, selector, params, bounds))
    ELSE Matrix(LatestOnGrid(store, selector, params, bounds, strategy))

----------------------------------------------------------------------------
(* Values without samples, and values transformed. *)

\* renderScalarLiteralFragment, and time(): one row, or one series over the
\* grid, without labels.
Synthetic(params, at) ==
    LET order == Ascending(DOMAIN at)
    IN  IF params.mode = "instant"
        THEN Vector(<<Sample(NoLabels, params.t, at[params.t])>>)
        ELSE Matrix(<<Series(NoLabels, [i \in DOMAIN order |->
                                           [t |-> order[i], v |-> at[order[i]]]])>>)

LowerScalarLiteral(v, params) == Synthetic(params, [t \in EvaluationTimes(params) |-> v])

\* lowerScalarBuiltin: time().
LowerScalarBuiltin(params) == Synthetic(params, [t \in EvaluationTimes(params) |-> t])

\* The rows of a value, without their labels.
RowsOf(value) ==
    IF Failed(value) THEN {}
    ELSE IF value.kind = "vector" THEN {[t |-> s.t, v |-> s.v] : s \in ToSet(value.samples)}
    ELSE UNION {ToSet(s.points) : s \in ToSet(value.series)}

\* CompileSourceTagsTemplate: the labels of a row, their name perhaps taken off.
SourceTags(tags, drops) == IF drops THEN DropMetricName(tags) ELSE tags

\* renderValueTransformFromSource: rows given another value, or none and taken
\* out, their name perhaps taken off.  What becomes of label sets that were told apart by
\* it is nobody's concern.
WithValues(value, new, drops) ==
    LET metric(m) == SourceTags(m, drops)
        values(p) == new[[t |-> p.t, v |-> p.v]]
        samples == [i \in DOMAIN value.samples |->
                       LET s == value.samples[i]
                       IN  [j \in DOMAIN values(s) |->
                               Sample(metric(s.metric), s.t, values(s)[j])]]
        points(s) == FlattenSeq([i \in DOMAIN s.points |->
                         [j \in DOMAIN values(s.points[i]) |->
                             [t |-> s.points[i].t, v |-> values(s.points[i])[j]]]])
        series == [i \in DOMAIN value.series |->
                      Series(metric(value.series[i].metric), points(value.series[i]))]
    IN  IF Failed(value) THEN value
        ELSE IF value.kind = "vector" THEN Vector(FlattenSeq(samples))
        ELSE Matrix(SelectSeq(series, LAMBDA s : s.points # <<>>))

\* CompileSourceValueTemplate: what a source's arithmetic makes of each row.
SourceValues(source, rows) == [p \in rows |-> <<source.value[p.v]>>]

\* renderSourceExprView: the selector with the arithmetic on top of it.
RenderSource(store, source, params, bounds, strategy) ==
    LET leaf == RenderLeaf(store, source.selector, params, bounds, strategy)
    IN  WithValues(leaf, SourceValues(source, RowsOf(leaf)), source.drops)

\* wrapInstantAsAnchoredRange: what the rows of one time are, at every time.
OverTheGrid(samples, params) ==
    LET order == Ascending(Grid(params))
    IN  Matrix([i \in DOMAIN samples |->
            Series(samples[i].metric,
                   [j \in DOMAIN order |-> [t |-> order[j], v |-> samples[i].v]])])

\* renderAnchoredRangeSourceExprView: pinned is the request for the one time
\* the @ modifier names.
RenderAnchored(store, plan, source, params, bounds, strategy) ==
    LET anchor == ResolvedAnchor(plan, params.start, params)
        pinned == [x \in {"mode", "t"} \cup (DOMAIN params \cap {"tags"}) |->
                      CASE x = "mode" -> "instant" [] x = "t" -> anchor
                        [] x = "tags" -> params.tags]
        instant == RenderSource(store, source, pinned, bounds, strategy)
    IN  OverTheGrid(instant.samples, params)

\* A source expression that is a statement of its own: pinned, it is rendered
\* for the time it is pinned to, and for its window otherwise.
LowerSource(store, plan, source, params, bounds, strategy) ==
    IF params.mode = "range" /\ HasFixedAnchor(plan)
    THEN RenderAnchored(store, plan, source, params, bounds, strategy)
    ELSE RenderSource(store, source, params, bounds, strategy)

\* lowerUnary: a sign before a number, or before rows.
LowerUnary(plan, child, params) ==
    IF plan.child.node = "literal"
    THEN LowerScalarLiteral(Signed(plan.op, plan.child.v), params)
    ELSE IF plan.op = "+" THEN child
    ELSE WithValues(child, [p \in RowsOf(child) |-> <<Negated(p.v)>>], TRUE)

\* The rows of a child, transformed as the analysis says.
WithTransform(transform, rows) ==
    WithValues(rows, [p \in RowsOf(rows) |-> transform.rows[p.t, p.v]], transform.drops)

\* lowerBinaryScalarInvolvingDirect: an operation with a number, as a source, as
\* the number it folds to or as a transform of the side that is none.
LowerBinaryScalar(store, plan, info, lhs, rhs, params, bounds, strategy) ==
    IF info.source # <<>>
    THEN LowerSource(store, plan, info.source[1], params, bounds, strategy)
    ELSE IF info.synthetic # <<>>
    THEN LowerScalarLiteral(info.synthetic[1].v, params)
    ELSE WithTransform(info.transform[1], IF info.transform[1].onLeft THEN lhs ELSE rhs)

----------------------------------------------------------------------------
(* Functions of a whole vector. *)

\* renderScalarConvertFromSource
ScalarOfRows(value, params) ==
    LET only(samples) == IF Len(samples) = 1 THEN samples[1].v ELSE NaN
        at == [t \in EvaluationTimes(params) |->
                  only(RowsAt(value, t, params))]
    IN  IF Failed(value) THEN value ELSE Synthetic(params, at)

\* renderAbsentFromNamespacedChild
AbsentOfRows(value, metric, params) ==
    LET missing == Ascending(Grid(params) \ TimesOf(value.series))
    IN  IF Failed(value) THEN value
        ELSE IF params.mode = "instant" THEN ApplyAbsent(value, metric, params.t)
        ELSE IF missing = <<>> THEN Matrix(<<>>)
        ELSE Matrix(<<Series(metric, [i \in DOMAIN missing |->
                                         [t |-> missing[i], v |-> 1]])>>)

\* lowerAbsentOverTimePlanDirect
AbsentOfRange(value, child, metric, params) ==
    IF Failed(value) THEN value
    ELSE IF params.mode = "instant" THEN ApplyAbsentOverTime(value, metric, params.t)
    ELSE AbsentOfRows(OverWindows("present_over_time", value, child, params, "filtered"),
                      metric, params)

\* lowerAbsent: of a vector, or of a range of samples.
LowerAbsent(plan, value, params) ==
    IF plan.node = "absent" THEN AbsentOfRows(value, plan.metric, params)
    ELSE AbsentOfRange(value, plan.child, plan.metric, params)

\* wrapZeroOnEmptyAggregationInstantSQL, wrapZeroOnEmptyAggregationRangeSQL: a
\* zero without labels where the sum has no row.
WithZeros(value, params) ==
    LET orZero(samples, t) == Vector(IF samples = <<>> THEN <<Sample(NoLabels, t, 0)>> ELSE samples)
    IN  IF Failed(value) THEN value
        ELSE IF params.mode = "instant" THEN orZero(value.samples, params.t)
        ELSE AtEachTimestamp([t \in Grid(params) |-> orZero(SamplesAt(value.series, t), t)])

RECURSIVE NarrowsTo(_, _)

\* aggregationChildAllowsLabelProjection: a selector, or for one time a range
\* of one, under nothing but functions of single samples.
NarrowsTo(plan, mode) ==
    \/ plan.node = "selector"
    \/ plan.node = "over_time" /\ plan.func # "changes"
       /\ plan.child.node = "window" /\ mode = "instant"
    \/ plan.node \in {"unary", "scalar", "pointwise"} /\ NarrowsTo(plan.child, mode)

\* aggregationChildRenderParams: only the labels an aggregation groups by are
\* asked for of a child that narrows to them; of any other child whatever was
\* asked of the aggregation.
ChildParams(plan, params) ==
    LET all == [x \in DOMAIN params \ {"tags"} |-> params[x]]
        agg == plan.agg
    IN  IF ~NarrowsTo(plan.child, params.mode) THEN params
        ELSE IF agg.without \/ IsSelecting(agg.op) \/ agg.op = "count_values" THEN all
        ELSE IF agg.grouping = {} THEN params
        ELSE all @@ [tags |-> agg.grouping]

\* lowerRound
RoundedRows(value, to) ==
    WithValues(value, [p \in RowsOf(value) |-> <<RoundedTo(p.v, to)>>], TRUE)

\* renderInstantScalarBindingFromLogical, renderRangeScalarBindingFromLogical: the
\* one value a clamp's bound has at a time, or NaN.
BoundAt(bound, t, params) ==
    LET rows == RowsAt(bound, t, params)
    IN  IF Len(rows) = 1 THEN rows[1].v ELSE NaN

\* clampValueExpr and clampInvalidBoundsWhere, for the rows of one time.
ClampedRows(func, samples, bounds) == ApplyPointwise(func, Vector(samples), bounds)

\* assembleClampSQL: the bounds joined by their time.
AssembledClamp(func, value, bounds, params) ==
    LET boundsAt(t) == [i \in DOMAIN bounds |-> BoundAt(bounds[i], t, params)]
    IN  IF params.mode = "instant"
        THEN ClampedRows(func, value.samples, boundsAt(params.t))
        ELSE AtEachTimestamp([t \in TimesOf(value.series) |->
                                  ClampedRows(func, SamplesAt(value.series, t), boundsAt(t))])

\* lowerClamp: the child and the bounds are parts of one statement, which
\* throws when one of them does.
LowerClamp(func, value, bounds, params) ==
    LET failed == {i \in DOMAIN bounds : Failed(bounds[i])}
    IN  IF Failed(value) THEN value
        ELSE IF failed # {} THEN bounds[Min(failed)]
        ELSE AssembledClamp(func, value, bounds, params)

\* renderLabelTransformFromSource: results with the same labels are refused, in
\* range mode when they meet at one time.
LowerLabelTransform(plan, child) ==
    IF Failed(child) THEN child ELSE ApplyRelabelling(child, plan.node, plan.config)

\* lowerSortTransform: of the rows for one time; a matrix is left alone.
LowerSort(plan, child, params) ==
    IF Failed(child) \/ params.mode = "range" THEN child
    ELSE Vector(SortSeq(child.samples,
                        LAMBDA a, b : RowsBefore(plan.func, plan.labels, a, b)))

----------------------------------------------------------------------------
(* Lower. *)

\* The window a side of a join reads: one of its own in range mode, the one
\* of the whole statement in instant mode.
SideBounds(side, params, bounds) ==
    IF params.mode = "range" THEN RequiredBounds(side, params) ELSE bounds

\* lowerBinary, by what the logical analysis says of the sides.
InvolvesScalar(plan) == "scalar" \in {NodeInfo(plan.lhs).domain, NodeInfo(plan.rhs).domain}

\* renderAggregationLogicalBody's first branch: over a child with a source
\* expression the aggregation is written on the raw samples, whatever is
\* between them.
AggregatedSource(store, plan, info, params, bounds, strategy) ==
    RenderSource(store, info.source[1], ChildParams(plan, params), bounds, strategy)

\* renderAggregationLogicalDirect: together with the range function under it, on
\* the raw samples, or over the rows of the child's statement.
AggregationForm(plan, params) ==
    IF params.mode = "range" /\ IsFusible(plan) THEN "fused"
    ELSE IF InfoFor(plan.child).source # <<>> THEN "source"
    ELSE "subquery"

\* renderAggregationLogicalBody: the aggregation over the rows it is made of.
LowerAggregation(plan, rows, params) ==
    LET aggregated == AggregateRows(rows, plan.agg, params)
    IN  IF InfoFor(plan).zeroFill THEN WithZeros(aggregated, params) ELSE aggregated

\* The window a range under a function of one reads.
RangedBounds(child, params, bounds) ==
    IF params.mode = "instant" THEN bounds
    ELSE RangeBounds(child, params.start, params.end)

\* lowerSubquery: what its child is rendered with, for all of its steps.
SubqueryBounds(plan, params) ==
    LET envelope == Envelope(plan, params)
    IN  RangeBounds(plan.child, envelope.start, envelope.end)

\* The strategy for what is under a range function.
RangedStrategy(params, strategy) == IF params.mode = "instant" THEN strategy ELSE "bucketed"

\* leafReference: a selector met more than once is put in a common table and read
\* from it, in a statement for one time by the columns of a vector, which the
\* table of a range of samples does not have.  Whose rendering the table holds is
\* left out: without an @ all of a statement's come to the same rows.
LowerRange(store, selector, params, bounds, shared) ==
    IF params.mode = "instant" /\ Fingerprint(selector) \in shared THEN Error("execution")
    ELSE RawSeries(store, selector, params, bounds)

\* Functions with a path of their own to a selector's rows do not read its table.
SharedUnder(plan, shared) ==
    IF plan.node = "over_time" /\ HasRowsPath(plan.func) /\ plan.child.node = "window" THEN {}
    ELSE shared

RECURSIVE Render(_, _, _, _, _, _)

\* Lower.  shared are the selectors the whole statement has more than once.  A
\* function of a range met more than once is put in a table too, by whose columns
\* it can be read.
Render(store, plan, params, bounds, strategy, shared) ==
    LET rendered(p) == Render(store, p, params, bounds, strategy, shared)
        child == rendered(plan.child)
        side(p) == Render(store, p, params, SideBounds(p, params, bounds), strategy, shared)
        ranged(p, way) ==
            Render(store, p.child, params, RangedBounds(p.child, params, bounds), way,
                   SharedUnder(p, shared))
        windows(p) == ranged(p, RangedStrategy(params, strategy))
        form == AggregationForm(plan, params)
        aggregated ==
            CASE form = "fused" -> FusedRows(plan.child, windows(plan.child), params)
              [] form = "source" ->
                   AggregatedSource(store, plan, InfoFor(plan.child), params, bounds, strategy)
              [] form = "subquery" ->
                   Render(store, plan.child, ChildParams(plan, params), bounds, strategy, shared)
    IN  CASE plan.node = "selector" -> RenderLeaf(store, plan, params, bounds, strategy)
          [] plan.node = "window" -> LowerRange(store, plan, params, bounds, shared)
          [] plan.node = "literal" -> LowerScalarLiteral(plan.v, params)
          [] plan.node = "time" -> LowerScalarBuiltin(params)
          [] plan.node = "unary" -> LowerUnary(plan, child, params)
          [] plan.node = "binary" ->
               IF InvolvesScalar(plan)
               THEN LowerBinaryScalar(store, plan, InfoFor(plan), rendered(plan.lhs),
                                      rendered(plan.rhs), params, bounds, strategy)
               ELSE IF JoinsItself(plan) THEN SelfJoin(plan, side(plan.lhs), params)
               ELSE Join2(plan, side(plan.lhs), side(plan.rhs), params)
          [] plan.node = "aggregate" -> LowerAggregation(plan, aggregated, params)
          [] plan.node = "subquery" ->
               Render(store, plan.child, Envelope(plan, params), SubqueryBounds(plan, params),
                      strategy, shared)
          [] plan.node = "over_time" -> OverTimeRows(plan, windows(plan), params)
          [] plan.node = "absent_over_time" -> LowerAbsent(plan, ranged(plan, strategy), params)
          [] plan.node = "vector" -> child
          [] plan.node = "sort" -> LowerSort(plan, child, params)
          [] plan.node = "scalar" -> ScalarOfRows(child, params)
          [] plan.node = "absent" -> LowerAbsent(plan, child, params)
          [] plan.node \in {"label_replace", "label_join"} -> LowerLabelTransform(plan, child)
          [] plan.node = "pointwise" ->
               IF plan.func \in Clamps
               THEN LowerClamp(plan.func, child,
                               [i \in DOMAIN plan.bounds |-> rendered(plan.bounds[i])], params)
               ELSE IF plan.func = "round" THEN RoundedRows(child, plan.bounds[1].v)
               ELSE LowerSource(store, plan, InfoFor(plan).source[1], params, bounds, strategy)

\* The rows of an instant statement as a value: a scalar, a subquery's samples
\* at their own times, or a vector at the evaluation time.
RuntimeValue(value, scalar, params) ==
    IF Failed(value) \/ params.mode = "range" \/ value.kind = "matrix" THEN value
    ELSE IF ~scalar
    THEN Vector([i \in DOMAIN value.samples |-> [value.samples[i] EXCEPT !.t = params.t]])
    ELSE IF Len(value.samples) # 1 THEN Error("execution")
    ELSE Scalar(value.samples[1].t, value.samples[1].v)

\* nativeSubtreePlan.execute: the window of the whole subtree, the statement,
\* and its rows as the value of the subtree.
ExecuteNative(store, plan, params, strategy) ==
    RuntimeValue(Render(store, plan, params, RequiredBounds(plan, params), strategy,
                        SharedSelectors(plan)),
                 InfoFor(plan).kind = "scalar", params)
=============================================================================
