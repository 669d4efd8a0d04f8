----------------------------- MODULE QueryBuild -----------------------------
(***************************************************************************)
(* From a parsed query to a plan (internal/promshim/logical: promql.go,    *)
(* promql_calls_*.go, build.go, build_helpers.go).  Each operator and each *)
(* function of PromQL is supported in some shapes only, and the shapes are *)
(* stated twice: by an analysis that goes down the whole query, and by the *)
(* builder, which asks that analysis at most nodes, and then reads the     *)
(* arguments by itself.                                                    *)
(*                                                                         *)
(* A parsed query is a record whose field "node" says which type of the    *)
(* parser it stands for; selectors and numbers are their own plans.  The   *)
(* regular expression of label_replace is the set of the values it does    *)
(* not match.  How difficult the analysis finds a query is only reported.  *)
(***************************************************************************)
EXTENDS LocalEval

Number(v) == [node |-> "literal", v |-> v]
String(v) == [node |-> "string", v |-> v]
Pattern(except) == [node |-> "pattern", except |-> except]
Call(func, args) == [node |-> "call", func |-> func, args |-> args]

\* What a node's own fields hand on; not the parameter of an aggregation.
Subexpressions(e) ==
    CASE e.node = "binary" -> <<e.lhs, e.rhs>>
      [] e.node = "call" -> e.args
      [] e.node \in {"paren", "unary", "subquery", "aggregate"} -> <<e.child>>
      [] OTHER -> <<>>

RECURSIVE TypeOf(_)

\* parser.Expr.Type
TypeOf(e) ==
    CASE e.node \in {"selector", "aggregate"} -> "vector"
      [] e.node \in {"window", "subquery"} -> "matrix"
      [] e.node = "literal" -> "scalar"
      [] e.node \in {"string", "pattern"} -> "string"
      [] e.node \in {"paren", "unary"} -> TypeOf(e.child)
      [] e.node = "binary" ->
           IF {TypeOf(e.lhs), TypeOf(e.rhs)} = {"scalar"} THEN "scalar" ELSE "vector"
      [] e.node = "call" -> IF e.func \in {"time", "scalar"} THEN "scalar" ELSE "vector"

RECURSIVE Unwrapped(_)

\* UnwrapTransparentExpr
Unwrapped(e) == IF e.node = "paren" THEN Unwrapped(e.child) ELSE e

----------------------------------------------------------------------------
(* Why there is no plan of a query: an error of a class, which the          *)
(* builder's errors keep when they are wrapped (withBuildContext).         *)

Refusal(class) == [node |-> "refused", class |-> class]
IsRefused(plan) == plan.node = "refused"

\* The plan, if all its parts were built, and else what the first of them was
\* refused for.
Given(parts, plan) ==
    LET refused == SelectSeq(parts, IsRefused)
    IN  IF refused = <<>> THEN plan ELSE Head(refused)

----------------------------------------------------------------------------
(* What is supported: the conditions on a node, its parts apart.           *)

\* isSupportedLocalAggregation
LocalAggregations ==
    {"sum", "count", "min", "max", "avg", "topk", "bottomk", "count_values", "stddev",
     "stdvar", "quantile", "group", "limitk", "limit_ratio"}

\* analyzeAggregationParameter
AllowedParameter(e) ==
    LET is(node) == e.params # <<>> /\ Unwrapped(e.params[1]).node = node
    IN  CASE e.op \in {"topk", "bottomk", "quantile", "limitk", "limit_ratio"} -> is("literal")
          [] e.op = "count_values" -> is("string")
          [] OTHER -> e.params = <<>>

\* AnalyzeAggregateExpression
AllowedAggregation(e) == e.op \in LocalAggregations /\ AllowedParameter(e)

AllowedSetOperation(e) ==
    /\ TypeOf(e.lhs) = "vector" /\ TypeOf(e.rhs) = "vector"
    /\ e.matching # <<>> => e.matching[1].card = "many-to-many"

\* isSupportedLocalBinaryOperator
IsLocalOperator(op) == op \in {"+", "-", "*", "/", "%", "^"} \/ IsComparison(op)

AllowedOperation(e) ==
    /\ IsLocalOperator(e.op)
    /\ {TypeOf(e.lhs), TypeOf(e.rhs)} \subseteq {"scalar", "vector"}
    /\ {TypeOf(e.lhs), TypeOf(e.rhs)} = {"vector"} /\ e.matching # <<>> =>
           e.matching[1].card # "many-to-many"

\* AnalyzeBinaryExpression
AllowedBinary(e) ==
    IF IsSetOperator(e.op) THEN AllowedSetOperation(e) ELSE AllowedOperation(e)

\* AnalyzeUnaryExpression
AllowedUnary(e) == e.op \in {"+", "-"} /\ TypeOf(e.child) \in {"scalar", "vector"}

\* AnalyzeSubqueryExpression
AllowedSubquery(e) == TypeOf(e.child) = "vector"

----------------------------------------------------------------------------
(* The same of the functions. *)

\* Exactly the arguments of some types.
Takes(e, types) == [i \in DOMAIN e.args |-> TypeOf(e.args[i])] = types

\* A vector and then strings.
TakesLabels(e, least) ==
    /\ Len(e.args) > least
    /\ TypeOf(e.args[1]) = "vector"
    /\ \A i \in 2 .. Len(e.args) : TypeOf(e.args[i]) = "string"

AllowedLabelReplace(e) == TakesLabels(e, 4) /\ Len(e.args) = 5      \* AnalyzeLabelReplaceCall
AllowedLabelJoin(e) == TakesLabels(e, 3)                            \* AnalyzeLabelJoinCall
AllowedVector(e) == Takes(e, <<"scalar">>)                          \* AnalyzeVectorCall
AllowedScalar(e) == Takes(e, <<"vector">>)                          \* AnalyzeScalarCall
AllowedAbsent(e) == Takes(e, <<"vector">>)                          \* AnalyzeAbsentCall
AllowedAbsentOverTime(e) == Takes(e, <<"matrix">>)                  \* AnalyzeAbsentOverTimeCall
AllowedRangeFunction(e) == Takes(e, <<"matrix">>)                   \* AnalyzeRangeFunctionCall
AllowedChanges(e) == Takes(e, <<"matrix">>)                         \* AnalyzeChangesCall
AllowedIDelta(e) == Takes(e, <<"matrix">>)                          \* AnalyzeIDeltaCall

\* AnalyzeRoundCall: any scalar is allowed as the second argument.
AllowedRound(e) == Takes(e, <<"vector">>) \/ Takes(e, <<"vector", "scalar">>)

\* AnalyzeClampCall
AllowedClamp(e) ==
    IF e.func = "clamp" THEN Takes(e, <<"vector", "scalar", "scalar">>)
    ELSE Takes(e, <<"vector", "scalar">>)

\* AnalyzeSortCall
AllowedSort(e) ==
    IF SortsByValue(e.func) THEN Takes(e, <<"vector">>) ELSE TakesLabels(e, 1)

Clamping == {"clamp", "clamp_min", "clamp_max"}
Sorting == {"sort", "sort_desc", "sort_by_label", "sort_by_label_desc"}
Ranging ==
    {"last_over_time", "first_over_time", "sum_over_time", "max_over_time", "min_over_time",
     "count_over_time", "present_over_time", "resets", "ts_of_first_over_time",
     "ts_of_last_over_time", "ts_of_max_over_time", "ts_of_min_over_time"}

\* isSupportedLeafFunction, of the functions modelled: a function of single
\* samples is supported with whatever it is given.
IsLeafFunction(func) == func \in {"abs", "sgn", "timestamp", "time"}

\* analyzeCallExpression
AllowedCall(e) ==
    CASE e.func = "label_replace" -> AllowedLabelReplace(e)
      [] e.func = "label_join" -> AllowedLabelJoin(e)
      [] e.func = "vector" -> AllowedVector(e)
      [] e.func = "scalar" -> AllowedScalar(e)
      [] e.func = "round" -> AllowedRound(e)
      [] e.func \in Clamping -> AllowedClamp(e)
      [] e.func \in Sorting -> AllowedSort(e)
      [] e.func = "idelta" -> AllowedIDelta(e)
      [] e.func = "changes" -> AllowedChanges(e)
      [] e.func \in Ranging -> AllowedRangeFunction(e)
      [] e.func = "absent" -> AllowedAbsent(e)
      [] e.func = "absent_over_time" -> AllowedAbsentOverTime(e)
      [] OTHER -> IsLeafFunction(e.func)

\* The arguments a function's analysis goes on to: not the strings.
AnalysedParts(e) ==
    IF e.node # "call" THEN Subexpressions(e)
    ELSE SelectSeq(e.args, LAMBDA arg : TypeOf(arg) # "string")

RECURSIVE Supported(_)

\* AnalyzeExpression, and AnalyzeDelegatableExpression, which answers as it
\* does where a function's types are right.
Supported(e) ==
    LET parts == AnalysedParts(e)
    IN  /\ CASE e.node \in {"selector", "window", "literal", "paren"} -> TRUE
             [] e.node = "call" -> AllowedCall(e)
             [] e.node = "aggregate" -> AllowedAggregation(e)
             [] e.node = "binary" -> AllowedBinary(e)
             [] e.node = "subquery" -> AllowedSubquery(e)
             [] e.node = "unary" -> AllowedUnary(e)
             [] OTHER -> FALSE
        /\ \A i \in DOMAIN parts : Supported(parts[i])

----------------------------------------------------------------------------
(* Arguments read by the builder. *)

\* stringLiteralArgument
StringArgument(e) ==
    IF Unwrapped(e).node \in {"string", "pattern"} THEN Unwrapped(e) ELSE Refusal("bad_data")

Combines(op) == op \in {"+", "-", "*"}

RECURSIVE ConstantArgument(_)

\* numberLiteralArgument, scalarConstantValue: a number, or what can be reckoned
\* from numbers (fractions, remainders and powers are left out).
ConstantArgument(e) ==
    LET x == Unwrapped(e)
        child == ConstantArgument(x.child)
        lhs == ConstantArgument(x.lhs)
        rhs == ConstantArgument(x.rhs)
    IN  CASE x.node = "literal" -> x
          [] x.node = "unary" ->
               Given(<<child>>, IF x.op = "-" THEN Number(Negated(child.v)) ELSE child)
          [] x.node = "binary" /\ Combines(x.op) ->
               Given(<<lhs, rhs>>, Number(ApplyScalarBinary(x.op, lhs.v, rhs.v)))
          [] OTHER -> Refusal("bad_data")

\* No label has the empty name (UTF8Validation.IsValidLabelName).
IsLabelName(label) == label # Absent

\* deriveAbsentOutputMetric: the value an absent selector's equality matcher
\* gives a label, when no other matcher follows it; the metric's name apart.
AbsentMetric(e) ==
    LET x == Unwrapped(e)
        own(l) == IF x.node \notin {"selector", "window"} THEN <<>>
                  ELSE SelectSeq(x.matchers, LAMBDA m : m.label = l)
        given(l) == /\ l # MetricName
                    /\ own(l) # <<>>
                    /\ Last(own(l)).type = "="
                    /\ \A i \in 1 .. Len(own(l)) - 1 : own(l)[i].type # "="
    IN  [l \in Labels |-> IF given(l) THEN CHOOSE v \in Last(own(l)).values : TRUE
                          ELSE Absent]

----------------------------------------------------------------------------
(* The plans of logicaltypes.go, from an expression and the plans of its   *)
(* parts.                                                                  *)

UnaryPlan(e, child) == [node |-> "unary", op |-> e.op, child |-> child]

BinaryPlan(e, lhs, rhs) ==
    [node |-> "binary", op |-> e.op, lhs |-> lhs, rhs |-> rhs, matching |-> e.matching,
     bool |-> e.bool]

SubqueryPlan(e, child) == [e EXCEPT !.child = child]

\* aggregatePlanParam: 0 for an operator that has none.
AggregateParam(e) ==
    LET label == StringArgument(e.params[1])
    IN  IF e.params = <<>> THEN Number(0)
        ELSE IF e.op = "count_values"
        THEN Given(<<label>>, IF IsLabelName(label.v) THEN label ELSE Refusal("bad_data"))
        ELSE Unwrapped(e.params[1])

AggregationPlan(e, child) ==
    LET param == AggregateParam(e)
    IN  Given(<<child, param>>,
              [node |-> "aggregate", child |-> child,
               agg |-> [op |-> e.op, grouping |-> e.grouping, without |-> e.without,
                        param |-> param.v]])

\* BuildLabelReplaceConfig
LabelReplacePlan(e, child) ==
    LET strings == [i \in 1 .. 4 |-> StringArgument(e.args[i + 1])]
        config == [dst |-> strings[1].v, to |-> strings[2].v, src |-> strings[3].v,
                   except |-> strings[4].except]
    IN  Given(<<child>> \o strings,
              IF ~IsLabelName(strings[1].v) THEN Refusal("bad_data")
              ELSE [node |-> "label_replace", child |-> child, config |-> config])

\* BuildLabelJoinConfig; the separator is the same in all of them.
LabelJoinPlan(e, child) ==
    LET strings == [i \in 1 .. Len(e.args) - 1 |-> StringArgument(e.args[i + 1])]
        srcs == [i \in 1 .. Len(strings) - 2 |-> strings[i + 2].v]
    IN  Given(<<child>> \o strings,
              IF ~IsLabelName(strings[1].v) \/ \E i \in DOMAIN srcs : ~IsLabelName(srcs[i])
              THEN Refusal("bad_data")
              ELSE [node |-> "label_join", child |-> child,
                    config |-> [dst |-> strings[1].v, srcs |-> srcs]])

SortPlan(e, child) ==
    LET labels == [i \in 1 .. Len(e.args) - 1 |-> StringArgument(e.args[i + 1])]
    IN  Given(<<child>> \o labels,
              [node |-> "sort", func |-> e.func, child |-> child,
               labels |-> [i \in DOMAIN labels |-> labels[i].v]])

\* To the nearest whole number, or multiple of the second argument.
RoundPlan(e, child) ==
    LET to == IF Len(e.args) = 1 THEN Number(1) ELSE ConstantArgument(e.args[2])
    IN  Given(<<child, to>>,
              [node |-> "pointwise", func |-> "round", child |-> child, bounds |-> <<to>>])

\* buildLogicalPointwiseFunctionPlan
PointwiseFunctionPlan(e, parts) ==
    Given(parts, [node |-> "pointwise", func |-> e.func, child |-> parts[1],
                  bounds |-> IF e.func \in Clamping THEN Tail(parts) ELSE <<>>])

VectorPlan(child) == [node |-> "vector", child |-> child]
ScalarConvertPlan(child) == [node |-> "scalar", child |-> child]
ScalarBuiltinPlan(e) == [node |-> e.func]
RangeFunctionPlan(e, child) == [node |-> "over_time", func |-> e.func, child |-> child]
ChangesPlan(e, child) == [node |-> "over_time", func |-> e.func, child |-> child]
DeltaPlan(e, child) == [node |-> "over_time", func |-> e.func, child |-> child]

AbsentPlan(e, child) ==
    [node |-> "absent", metric |-> AbsentMetric(e.args[1]), child |-> child]
AbsentOverTimePlan(e, child) ==
    [node |-> "absent_over_time", metric |-> AbsentMetric(e.args[1]), child |-> child]

----------------------------------------------------------------------------
(* The builder. *)

RECURSIVE LogicalPlan(_)

\* The functions built without being analysed first; their arguments are.
BuiltUnasked == {"time", "abs", "sgn", "timestamp"} \cup Clamping

\* buildLogicalCallPlan
CallPlan(e) ==
    LET child == LogicalPlan(e.args[1])
        parts == [i \in DOMAIN e.args |-> LogicalPlan(e.args[i])]
        with(plan) == Given(<<child>>, plan)
    IN  CASE e.func \notin BuiltUnasked /\ ~Supported(e) -> Refusal("unsupported")
          [] e.func = "time" -> ScalarBuiltinPlan(e)
          [] e.func \in BuiltUnasked -> PointwiseFunctionPlan(e, parts)
          [] e.func = "label_replace" -> LabelReplacePlan(e, child)
          [] e.func = "label_join" -> LabelJoinPlan(e, child)
          [] e.func = "vector" -> with(VectorPlan(child))
          [] e.func = "scalar" -> with(ScalarConvertPlan(child))
          [] e.func = "round" -> RoundPlan(e, child)
          [] e.func \in Sorting -> SortPlan(e, child)
          [] e.func = "idelta" -> with(DeltaPlan(e, child))
          [] e.func = "changes" -> with(ChangesPlan(e, child))
          [] e.func \in Ranging -> with(RangeFunctionPlan(e, child))
          [] e.func = "absent" -> with(AbsentPlan(e, child))
          [] e.func = "absent_over_time" -> with(AbsentOverTimePlan(e, child))

\* buildLogicalDelegatedLeaf
DelegatedLeaf(e) == IF Supported(e) THEN e ELSE Refusal("unsupported")

\* buildLogicalPlan
LogicalPlan(e) ==
    LET x == Unwrapped(e)
        child == LogicalPlan(x.child)
        lhs == LogicalPlan(x.lhs)
        rhs == LogicalPlan(x.rhs)
    IN  CASE x.node = "literal" -> x
          [] x.node = "call" -> CallPlan(x)
          [] x.node \in {"unary", "binary", "subquery", "aggregate"} /\ ~Supported(x) ->
               Refusal("unsupported")
          [] x.node = "unary" -> Given(<<child>>, UnaryPlan(x, child))
          [] x.node = "binary" -> Given(<<lhs, rhs>>, BinaryPlan(x, lhs, rhs))
          [] x.node = "subquery" -> Given(<<child>>, SubqueryPlan(x, child))
          [] x.node = "aggregate" -> AggregationPlan(x, child)
          [] OTHER -> DelegatedLeaf(x)
=============================================================================
