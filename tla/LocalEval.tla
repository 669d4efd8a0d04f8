------------------------------ MODULE LocalEval ------------------------------
(***************************************************************************)
(* The evaluation of a query plan in the process (internal/promshim/local: *)
(* planner.go, planner_*.go): a tree of nodes, each evaluated at one time  *)
(* (instant mode) or over the steps of a range (range mode).  Only the     *)
(* leaves, selectors, go to ClickHouse.  Some nodes hand the mode on to    *)
(* their children and combine whole matrices; others run themselves at     *)
(* every step in instant mode and gather the answers.  Both ways have to   *)
(* come to the same thing.                                                 *)
(*                                                                         *)
(* A plan is a record whose field "node" says which Go plan it stands for. *)
(* The parameters of an evaluation are instant (a time t) or range (start, *)
(* end and step).                                                          *)
(***************************************************************************)
EXTENDS NativeRender

CONSTANTS
    RangePadding,   \* clickHouseRangePadding
    MaxPoints       \* the evaluations of a subquery allowed, 0 for any number

ASSUME TimesAssumption == {RangePadding, MaxPoints} \subseteq Nat

----------------------------------------------------------------------------
(* Selectors, and what ClickHouse answers them with.                       *)

\* The last sample of every selected series, stamped with the evaluation
\* time, without the NaN ones (dropNaNInstantSamples).
SelectorSamples(store, plan, t, params) ==
    LET to == Anchor(plan.at, t, params) - plan.offset
        last(s) == LET ps == PointsIn(s, to - Lookback, to)
                   IN  IF ps = <<>> \/ Last(ps).v = NaN THEN <<>>
                       ELSE <<Sample(s.metric, t, Last(ps).v)>>
        series == SelectedSeries(store, plan.matchers)
    IN  FlattenSeq([i \in DOMAIN series |-> last(series[i])])

\* executeDelegated, of a vector selector.
DelegatedSelector(store, plan, params) ==
    IF params.mode = "instant" THEN Vector(SelectorSamples(store, plan, params.t, params))
    ELSE AtEachTimestamp([t \in Steps(params) |->
                              Vector(SelectorSamples(store, plan, t, params))])

\* executeDelegated, of a matrix selector in instant mode: its range is
\* padded and ClickHouse leaves the left end out.
DelegatedWindow(store, plan, params) ==
    LET to == Anchor(plan.at, params.t, params) - plan.offset
        from == to - (plan.range + RangePadding)
        numbers(s) == SelectSeq(PointsIn(s, from, to), LAMBDA p : p.v # NaN)
        series == SelectedSeries(store, plan.matchers)
        windows == [i \in DOMAIN series |-> Series(series[i].metric, numbers(series[i]))]
    IN  IF params.mode = "range" THEN Error("execution")
        ELSE Matrix(SelectSeq(windows, LAMBDA s : s.points # <<>>))

----------------------------------------------------------------------------
(* Subqueries. *)

\* localSubqueryPlan: the child at every time of the window, its samples kept
\* at the times they carry.
EvalSubquery(at) ==
    LET times == Ascending(DOMAIN at)
        steps == [i \in DOMAIN times |-> at[times[i]]]
        samples == FlattenSeq([i \in DOMAIN steps |-> steps[i].samples])
        inOrder == SortSeq(samples, LAMBDA a, b : a.t < b.t)
    IN  IF MaxPoints > 0 /\ Len(times) > MaxPoints THEN Error("bad_data")
        ELSE IF \E i \in DOMAIN steps : steps[i].kind # "vector" THEN Error("execution")
        ELSE Matrix(SeriesOf(inOrder))

----------------------------------------------------------------------------
(* Range mode by instant evaluations. *)

Stamped(value, t) ==
    IF value.kind # "vector" THEN value
    ELSE Vector([i \in DOMAIN value.samples |-> [value.samples[i] EXCEPT !.t = t]])

\* executeRangeVectorPlan
RangeOfVectors(at) ==
    AtEachTimestamp([t \in DOMAIN at |->
        IF at[t].kind = "vector" \/ Failed(at[t]) THEN Stamped(at[t], t)
        ELSE Error("execution")])

\* executeRangeScalarPlan
RangeOfScalars(at) ==
    AtEachTimestamp([t \in DOMAIN at |->
        IF Failed(at[t]) THEN at[t]
        ELSE IF at[t].kind # "scalar" THEN Error("execution")
        ELSE Vector(<<Sample(NoLabels, t, at[t].v)>>)])

----------------------------------------------------------------------------
(* The plans: what each makes of what its parts were evaluated to.         *)

ExecuteLiteral(plan, t) == Scalar(t, plan.v)
ExecuteScalarBuiltin(t) == Scalar(t, t)
ExecuteScalarConvert(child, t) == ApplyScalarFunction(child, t)
ExecuteVector(child) == ApplyVectorFunction(child)
ExecuteAbsent(plan, child, t) == ApplyAbsent(child, plan.metric, t)

\* evalScalarParamNumbers
AreScalars(bounds) == \A i \in DOMAIN bounds : bounds[i].kind = "scalar"

ExecutePointwise(plan, child, bounds) ==
    IF ~AreScalars(bounds) THEN Error("execution")
    ELSE ApplyPointwise(plan.func, child, [i \in DOMAIN bounds |-> bounds[i].v])

ExecuteRound(plan, child) == ApplyPointwise("round", child, <<plan.bounds[1].v>>)

\* localRangeFunctionPlan stamps its samples with the evaluation time;
\* localChangesPlan and localDeltaPlan leave them at their last point's.
ExecuteRangeFunction(plan, child, t) == Stamped(ApplyRangeFunction(plan.func, child), t)
ExecuteChanges(child) == ApplyRangeFunction("changes", child)
ExecuteDelta(plan, child) == ApplyRangeFunction(plan.func, child)

\* What an absence over a range selector is checked with once more: the
\* millisecond up to the start of the range, padded like it.
BoundaryProbe(store, plan, t) ==
    LET leaf == IF plan.child.node = "native" THEN plan.child.child ELSE plan.child
    IN  IF leaf.node # "window" THEN Matrix(<<>>)
        ELSE DelegatedWindow(store, [leaf EXCEPT !.range = 1], Instant(t - leaf.range))

ExecuteAbsentOverTime(plan, child, probe, t) ==
    LET value == ApplyAbsentOverTime(child, plan.metric, t)
    IN  IF Failed(value) \/ probe.series = <<>> THEN value ELSE Vector(<<>>)

ExecuteUnary(plan, child) == ApplyUnary(plan.op, child)
ExecuteBinary(plan, lhs, rhs, now) ==
    IF Failed(lhs) THEN lhs ELSE IF Failed(rhs) THEN rhs
    ELSE ApplyBinary(plan.op, lhs, rhs, plan.matching, plan.bool, now)
ExecuteAggregation(plan, child, now) == Aggregate(child, plan.agg, now)
ExecuteSort(plan, child, params) ==
    IF params.mode = "range" THEN child ELSE ApplySortFunction(plan.func, child, plan.labels)
ExecuteLabelReplace(plan, child) == ApplyRelabelling(child, "label_replace", plan.config)
ExecuteLabelJoin(plan, child) == ApplyRelabelling(child, "label_join", plan.config)

\* The plans that run themselves at every step of a range, by what they
\* answer with in instant mode; the others pass the mode on.
ScalarPlans == {"literal", "time", "scalar"}
SteppedPlans == {"vector", "pointwise", "absent", "absent_over_time", "over_time"}

RECURSIVE Eval(_, _, _)

\* A stepped or scalar plan at one time.
EvalStep(store, plan, params) ==
    LET t == params.t
        child == Eval(store, plan.child, params)
        bounds == [i \in DOMAIN plan.bounds |-> Eval(store, plan.bounds[i], params)]
    IN  CASE plan.node = "literal" -> ExecuteLiteral(plan, t)
          [] plan.node = "time" -> ExecuteScalarBuiltin(t)
          [] Failed(child) -> child
          [] plan.node = "scalar" -> ExecuteScalarConvert(child, t)
          [] plan.node = "vector" -> ExecuteVector(child)
          [] plan.node = "absent" -> ExecuteAbsent(plan, child, t)
          [] plan.node = "absent_over_time" ->
               ExecuteAbsentOverTime(plan, child, BoundaryProbe(store, plan, t), t)
          [] plan.node = "pointwise" /\ plan.func = "round" -> ExecuteRound(plan, child)
          [] plan.node = "pointwise" -> ExecutePointwise(plan, child, bounds)
          [] plan.node = "over_time" /\ plan.func = "changes" -> ExecuteChanges(child)
          [] plan.node = "over_time" /\ plan.func = "idelta" -> ExecuteDelta(plan, child)
          [] OTHER -> ExecuteRangeFunction(plan, child, t)

\* Plan.execute
Eval(store, plan, params) ==
    LET at == [t \in Steps(params) |-> EvalStep(store, plan, Instant(t))]
        childAt == [t \in SubqueryTimes(plan, params) |-> Eval(store, plan.child, Instant(t))]
        child == Eval(store, plan.child, params)
        lhs == Eval(store, plan.lhs, params)
        rhs == Eval(store, plan.rhs, params)
        now == IF params.mode = "instant" THEN params.t ELSE 0
    IN  CASE plan.node = "selector" -> DelegatedSelector(store, plan, params)
          [] plan.node = "window" -> DelegatedWindow(store, plan, params)
          [] plan.node = "subquery" -> EvalSubquery(childAt)
          [] plan.node = "native" -> ExecuteNative(store, plan.child, params, plan.strategy)
          [] plan.node \in ScalarPlans \cup SteppedPlans ->
               IF params.mode = "instant" THEN EvalStep(store, plan, params)
               ELSE IF plan.node \in ScalarPlans THEN RangeOfScalars(at)
               ELSE RangeOfVectors(at)
          [] plan.node = "binary" -> ExecuteBinary(plan, lhs, rhs, now)
          [] Failed(child) -> child
          [] plan.node = "sort" -> ExecuteSort(plan, child, params)
          [] plan.node = "unary" -> ExecuteUnary(plan, child)
          [] plan.node = "aggregate" -> ExecuteAggregation(plan, child, now)
          [] plan.node = "label_replace" -> ExecuteLabelReplace(plan, child)
          [] plan.node = "label_join" -> ExecuteLabelJoin(plan, child)

----------------------------------------------------------------------------
(* Answers compared. *)

\* The samples a value holds at a time, with how often each is there.
At(value, t) ==
    LET samples == CASE value.kind = "scalar" ->
                          <<Sample(NoLabels, t, value.v)>>
                     [] value.kind = "vector" -> value.samples
                     [] value.kind = "matrix" -> SamplesAt(value.series, t)
        pairs == [i \in DOMAIN samples |-> <<samples[i].metric, samples[i].v>>]
    IN  [p \in ToSet(pairs) |-> Cardinality({i \in DOMAIN pairs : pairs[i] = p})]

AnswerTimes(params) == IF params.mode = "instant" THEN {params.t} ELSE Steps(params)

Same(a, b, times) ==
    IF Failed(a) \/ Failed(b) THEN Failed(a) /\ Failed(b)
    ELSE \A t \in times : At(a, t) = At(b, t)
=============================================================================
