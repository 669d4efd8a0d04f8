----------------------------- MODULE CostClasses -----------------------------
(***************************************************************************)
(* The class of a query (internal/promshim/query_cost_class.go) and what   *)
(* the selector statistics add to it (selector_estimates.go).  An          *)
(* expression is a tree of records; of a matcher, a modifier or a constant *)
(* only what tells two expressions apart is kept.  Times are in seconds.   *)
(***************************************************************************)
EXTENDS CostRouting, Sequences

LOCAL INSTANCE SequencesExt
LOCAL INSTANCE FiniteSetsExt

DefaultLookback == 300     \* logical.DefaultInstantSelectorLookback
ScrapeInterval == 15       \* assumed where a probe did not count samples

-----------------------------------------------------------------------------
(* Walks over an expression                                                 *)

Operands(e) ==
    CASE e.node = "call" -> e.args
      [] e.node = "binary" -> <<e.lhs, e.rhs>>
      [] e.node \in {"aggregate", "subquery", "paren", "unary"} -> <<e.child>>
      [] OTHER -> <<>>

(* An aggregation's parameter is only searched for range functions.         *)
Parameters(e) == IF e.node = "aggregate" THEN e.params ELSE <<>>

(* Every node in the order of the walk, with the lookback of the subqueries *)
(* around it.                                                               *)
RECURSIVE WalkFrom(_, _, _)
WalkFrom(e, params, lookback) ==
    LET below == (IF params THEN Parameters(e) ELSE <<>>) \o Operands(e)
        around == lookback + IF e.node = "subquery" THEN e.range ELSE 0
    IN  <<[expr |-> e, lookback |-> lookback]>>
            \o FlattenSeq([i \in DOMAIN below |-> WalkFrom(below[i], params, around)])
Walk(e, params) == WalkFrom(e, params, 0)
Nodes(e) == {n.expr : n \in ToSet(Walk(e, FALSE))}

SelectionAggregations == {"topk", "bottomk", "limitk", "limit_ratio"}
LabelMutations == {"label_replace", "label_join", "info"}
Rates == {"rate", "irate"}
RangeFunctions == {"avg_over_time", "min_over_time", "max_over_time", "sum_over_time",
    "count_over_time", "last_over_time", "present_over_time", "quantile_over_time",
    "stddev_over_time", "stdvar_over_time", "delta", "idelta", "deriv",
    "predict_linear", "changes", "resets"}
Histograms == {"histogram_quantile", "histogram_fraction", "histogram_count",
    "histogram_sum", "histogram_avg", "histogram_stddev", "histogram_stdvar"}

Calls(e, names) == {n \in Nodes(e) : n.node = "call" /\ n.func \in names}
OfKind(e, kind) == {n \in Nodes(e) : n.node = kind}

(* hasExplicitVectorJoin: any matching but the plain one of one to one.     *)
ExplicitJoin(e) == e.node = "binary" /\ e.matching # "plain"

RepeatedRangeFunction(e) ==
    LET walked == Walk(e, TRUE) IN
    \E i, j \in DOMAIN walked :
        /\ i < j /\ walked[i].expr = walked[j].expr
        /\ walked[i].expr.node = "call"
        /\ walked[i].expr.func \in Rates \cup {"increase"} \cup RangeFunctions

-----------------------------------------------------------------------------
(* queryFamily                                                              *)

RECURSIVE Unwrapped(_)
Unwrapped(e) == IF e.node \in {"paren", "unary"} THEN Unwrapped(e.child) ELSE e
FamilyBase(e) ==
    CASE e.node = "selector" -> "selector"
      [] e.node = "window" -> "range_selector"
      [] e.node = "call" ->
            (CASE e.func = "histogram_quantile" -> "histogram_quantile"
               [] e.func \in LabelMutations -> "label_mutation"
               [] e.func \in Rates -> "rate"
               [] e.func = "increase" -> "increase"
               [] e.func \in RangeFunctions -> "range_function"
               [] OTHER -> "function")
      [] e.node = "aggregate" -> IF e.op \in SelectionAggregations
                                 THEN "selection_aggregation" ELSE "aggregation"
      [] e.node = "binary" -> IF ExplicitJoin(e) THEN "vector_match" ELSE "binary"
      [] e.node = "subquery" -> "subquery"
      [] e.node = "number" -> "scalar"
      [] e.node = "string" -> "string"
      [] OTHER -> "unknown"

Family(e, endpoint) ==
    LET base == FamilyBase(Unwrapped(e)) IN
    IF endpoint = "query" THEN base
    ELSE CASE base = "selector" -> "range_selector"
           [] base = "rate" -> "range_rate"
           [] base = "increase" -> "range_increase"
           [] base = "range_function" -> "range_range_function"
           [] OTHER -> base

-----------------------------------------------------------------------------
(* classifyQueryCost                                                        *)

SelectorsOf(e) ==
    SelectSeq(Walk(e, FALSE), LAMBDA n : n.expr.node \in {"selector", "window"})
Selectors(e) == Len(SelectorsOf(e))

Largest(numbers) == Max(numbers \cup {0})
AtLeastOne(n) == IF n = 0 THEN 1 ELSE n

PointsPerSeries(timing) ==
    IF timing.endpoint = "query_range" /\ timing.step > 0 /\ timing.end >= timing.start
    THEN (timing.end - timing.start) \div timing.step + 1
    ELSE 0

(* classifySubqueryComplexityBand: without a step of its own a subquery has *)
(* no band.                                                                 *)
LightSubquery(e, timing) ==
    LET range == Largest({s.range : s \in OfKind(e, "subquery")})
        step == Largest({s.step : s \in OfKind(e, "subquery")})
        points == range \div step + 1
    IN  /\ range > 0 /\ step > 0
        /\ Max({points * AtLeastOne(Selectors(e)),
                points * AtLeastOne(PointsPerSeries(timing))}) < 50

FlagsOf(e, timing) ==
    {flag \in Flags :
        CASE flag = "aggregation" -> OfKind(e, "aggregate") # {}
          [] flag = "histogram" -> Calls(e, Histograms) # {}
          [] flag = "selection" ->
                \E n \in OfKind(e, "aggregate") : n.op \in SelectionAggregations
          [] flag = "mutation" -> Calls(e, LabelMutations) # {}
          [] flag = "range function" -> OfKind(e, "window") # {}
          [] flag = "subquery" -> OfKind(e, "subquery") # {}
          [] flag = "light subquery" -> LightSubquery(e, timing)
          [] flag = "join" -> \E n \in Nodes(e) : ExplicitJoin(n)
          [] flag = "repeated range function" -> RepeatedRangeFunction(e)}

(* The output of a range is reckoned as one series for each selector.       *)
Classify(e, timing) ==
    [endpoint |-> timing.endpoint, family |-> Family(e, timing.endpoint),
     flags |-> FlagsOf(e, timing), selectors |-> Selectors(e),
     perSeries |-> PointsPerSeries(timing), estimates |-> "missing",
     series |-> 0, samples |-> 0,
     points |-> AtLeastOne(Selectors(e)) * PointsPerSeries(timing)]

-----------------------------------------------------------------------------
(* applyCachedSelectorEstimates                                             *)

(* The time each selector reads, in the order of the walk.  An offset moves *)
(* both ends.                                                               *)
Spans(e, timing) ==
    LET selectors == SelectorsOf(e)
        own(x) == IF x.node = "window" THEN x.range ELSE DefaultLookback
    IN  [i \in DOMAIN selectors |->
            timing.end - timing.start + selectors[i].lookback + own(selectors[i].expr)]

(* A look into the cache: a hit has the matched series and the samples of   *)
(* each, 0 when they were not probed.                                       *)
SamplesEach(look, span) ==
    IF look.samples > 0 THEN look.samples
    ELSE IF span <= 0 THEN 1 ELSE span \div ScrapeInterval + 1

(* One selector that is missing or stale leaves the whole query without an  *)
(* estimate.                                                                *)
Estimated(class, spans, looks) ==
    LET add(a, b) == a + b
        series == FoldLeft(add, 0, [i \in DOMAIN looks |-> looks[i].series])
        samples == FoldLeft(add, 0, [i \in DOMAIN looks |->
                       looks[i].series * SamplesEach(looks[i], spans[i])])
        states == {looks[i].state : i \in DOMAIN looks}
    IN  IF states \subseteq {"hit"}
        THEN [class EXCEPT !.estimates = "fresh", !.series = series, !.samples = samples,
                 !.points = IF looks = <<>> \/ @ # 0 THEN @
                            ELSE series * AtLeastOne(class.perSeries)]
        ELSE [class EXCEPT !.estimates = IF "stale" \in states THEN "stale" ELSE "missing"]

(* queryCostClass                                                           *)
QueryCostClass(e, timing, looks) ==
    Estimated(Classify(e, timing), Spans(e, timing), looks)
==============================================================================
