--------------------------- MODULE NativeAnalysis ---------------------------
(***************************************************************************)
(* What the native planner knows of a plan before a statement is written   *)
(* (internal/promshim/native): from the leaves up, whether each subtree    *)
(* can be lowered to SQL and by which kind of statement, what it folds to  *)
(* when it is a number, the selector it reads when it is one with          *)
(* arithmetic on top, and what an operation with a number does to the rows *)
(* of its other side; and the window of raw samples a subtree reads.       *)
(*                                                                         *)
(* Modelled for selectors, constants, time(), scalar(), vector(), minus    *)
(* signs, binary operations, aggregations, clamps, round, abs, sgn,        *)
(* label_replace, label_join, sort, absent, subqueries and the functions   *)
(* of ranges that LocalExec has.  The other functions the code lowers (of  *)
(* histograms, info, and those that differ from one here in their formula  *)
(* only) are not: their plans are not lowered here and no query of the     *)
(* checked instances has one natively.  Nor has one timestamp(), which     *)
(* ClickHouse answers with the sample's own time and the local executor    *)
(* with the evaluation's.                                                  *)
(***************************************************************************)
EXTENDS LogicalAnalysis

IsArithmetic(op) == op \in {"+", "-", "*", "/"}

----------------------------------------------------------------------------
(* LoweringInfo.  kind is what a node answers with, shape how its          *)
(* statement is made; the others are there, as sequences of one, only for  *)
(* some shapes: the synthetic series of a number or of time(), the source  *)
(* expression of a selector with arithmetic on top (a value for each raw   *)
(* value), and the value transform of the rows of a child (the values a    *)
(* row is given: one, or none when it is filtered out).                    *)

Unsupported(kind) ==
    [lowerable |-> FALSE, kind |-> kind, shape |-> "none", drops |-> FALSE,
     synthetic |-> <<>>, source |-> <<>>, transform |-> <<>>, zeroFill |-> FALSE]

Lowered(kind, shape, drops) ==
    [Unsupported(kind) EXCEPT !.lowerable = TRUE, !.shape = shape, !.drops = drops]

LowerableIf(condition, info) == IF condition THEN info ELSE Unsupported(info.kind)

\* LoweringInfo of a synthetic series: "literal" with its value, or "time".
Literal(kind, v) ==
    [Lowered(kind, "synthetic", TRUE) EXCEPT !.synthetic = <<[func |-> "literal", v |-> v]>>]

\* syntheticLiteralValue: the number a scalar is whatever the store holds.
IsLiteral(info) ==
    /\ info.shape = "synthetic" /\ info.kind = "scalar"
    /\ info.synthetic[1].func = "literal"

LiteralValue(info) == info.synthetic[1].v

\* isSyntheticScalarInfo
IsSyntheticScalar(info) ==
    /\ info.shape = "synthetic" /\ info.kind = "scalar"
    /\ info.synthetic[1].func = "time"

IsVector(info) == info.lowerable /\ info.kind = "vector"

----------------------------------------------------------------------------
(* Leaves, numbers and signs. *)

RawSource(selector) ==
    [selector |-> selector, value |-> [v \in Int |-> v], drops |-> FALSE]

\* A vector or range selector.
AnalyzeLeaf(selector) ==
    [Lowered(IF selector.node = "window" THEN "matrix" ELSE "vector", "leaf_source", FALSE)
        EXCEPT !.source = <<RawSource(selector)>>]

AnalyzeTime ==
    [Lowered("scalar", "synthetic", TRUE) EXCEPT !.synthetic = <<[func |-> "time"]>>]

\* A selector with one thing more done to its values (applyUnarySourceTransform,
\* applyBinarySourceTransform, composePointwiseSourceTemplate).
OnTopOf(source, f) ==
    [source EXCEPT !.value = [v \in Int |-> f[source.value[v]]], !.drops = TRUE]

\* applyUnarySourceTransform: a plus sign drops no name of its own.
SignedSource(op, child) ==
    IF op = "+" THEN [child.source[1] EXCEPT !.drops = child.drops]
    ELSE OnTopOf(child.source[1], [v \in Int |-> Negated(v)])

\* applyUnaryValueTransform
SignedRows(op, drops) == [drops |-> drops, onLeft |-> FALSE,
                          rows |-> [t \in Int, v \in Int |-> <<Signed(op, v)>>]]

AnalyzeUnary(op, child) ==
    LET drops == op = "-" \/ child.drops
    IN  IF IsLiteral(child) THEN Literal("scalar", Signed(op, LiteralValue(child)))
        ELSE IF ~child.lowerable THEN Unsupported(child.kind)
        ELSE IF child.source # <<>>
        THEN [Lowered(child.kind, "unary_source", drops) EXCEPT
                 !.source = <<SignedSource(op, child)>>]
        ELSE [Lowered(child.kind, "value_transform", drops) EXCEPT
                 !.transform = <<SignedRows(op, drops)>>]

----------------------------------------------------------------------------
(* Operations with a number. *)

\* foldBinaryScalarLiteral: with bool only comparisons fold, without it only
\* arithmetic.
Folds(op, bool) == IF bool THEN IsComparison(op) ELSE IsArithmetic(op)

\* applyScalarValueTransform: arm is the number at each time.
ArithmeticRows(op, arm, armOnLeft) ==
    [drops |-> TRUE, onLeft |-> ~armOnLeft,
     rows |-> [t \in Int, v \in Int |-> <<Compared(op, v, arm[t], armOnLeft)>>]]

\* applyComparisonBoolTransform
BoolRows(op, arm, armOnLeft) ==
    [drops |-> TRUE, onLeft |-> ~armOnLeft,
     rows |-> [t \in Int, v \in Int |-> <<Compared(op, v, arm[t], armOnLeft)>>]]

\* applyComparisonFilterTransform: the name stays on what is let through.
FilterRows(op, arm, armOnLeft) ==
    [drops |-> FALSE, onLeft |-> ~armOnLeft,
     rows |-> [t \in Int, v \in Int |->
                  IF FilteredOut(op, v, arm[t], armOnLeft, FALSE) THEN <<>> ELSE <<v>>]]

\* The transform of rows, or of a scalar, by an operation with a number, as a
\* sequence of at most one: a comparison that filters is not made of a scalar.
ArmTransform(op, bool, arm, kind, armOnLeft) ==
    IF IsArithmetic(op) THEN <<ArithmeticRows(op, arm, armOnLeft)>>
    ELSE IF ~IsComparison(op) THEN <<>>
    ELSE IF bool THEN <<BoolRows(op, arm, armOnLeft)>>
    ELSE IF kind = "vector" THEN <<FilterRows(op, arm, armOnLeft)>> ELSE <<>>

\* populateValueTransform
TransformedBy(transform, child) ==
    IF transform = <<>> THEN Unsupported(child.kind)
    ELSE [Lowered(child.kind, "value_transform", transform[1].drops) EXCEPT !.transform = transform]

Always(v) == [t \in Int |-> v]

\* An operation between a vector and an expression that folds to a number.
WithFolded(plan, literal, child, armOnLeft) ==
    TransformedBy(ArmTransform(plan.op, plan.bool, Always(literal), child.kind, armOnLeft), child)

\* One with a number as it was written: it goes into the source expression
\* where there is one.
WithLiteral(plan, literal, child, armOnLeft) ==
    IF IsArithmetic(plan.op) /\ child.source # <<>>
    THEN [Lowered(child.kind, "binary_source", TRUE) EXCEPT
             !.source = <<OnTopOf(child.source[1],
                                  [v \in Int |-> Compared(plan.op, v, literal, armOnLeft)])>>]
    ELSE TransformedBy(ArmTransform(plan.op, plan.bool, Always(literal), child.kind, armOnLeft),
                       child)

\* One with time() (applySyntheticScalarChildTransform).
WithTime(plan, child, armOnLeft) ==
    TransformedBy(ArmTransform(plan.op, plan.bool, [t \in Int |-> t], child.kind, armOnLeft), child)

----------------------------------------------------------------------------
(* Joins, and the choice between them and the operations with a number. *)

\* isSupportedNativeVectorJoinOp
JoinsNatively(plan) == IsSetOperator(plan.op) = (plan.matching[1].card = "many-to-many")

AnalyzeJoin(plan) ==
    LowerableIf(JoinsNatively(plan),
                Lowered("vector", "join", ~IsSetOperator(plan.op) /\ (IsArithmetic(plan.op) \/ plan.bool)))

\* The cases in the order the code tries them; the first that applies decides,
\* even when it comes to nothing.
AnalyzeBinary(plan, lhs, rhs) ==
    LET folded(info, p) == IsLiteral(info) /\ p.node # "literal"
        kind == IF lhs.kind = "scalar" /\ rhs.kind = "scalar" THEN "scalar" ELSE "vector"
    IN  IF IsLiteral(lhs) /\ IsLiteral(rhs) /\ Folds(plan.op, plan.bool)
        THEN Literal("scalar", ApplyScalarBinary(plan.op, LiteralValue(lhs), LiteralValue(rhs)))
        ELSE IF folded(lhs, plan.lhs) /\ IsVector(rhs)
        THEN WithFolded(plan, LiteralValue(lhs), rhs, TRUE)
        ELSE IF folded(rhs, plan.rhs) /\ IsVector(lhs)
        THEN WithFolded(plan, LiteralValue(rhs), lhs, FALSE)
        ELSE IF plan.lhs.node = "literal" /\ rhs.lowerable
        THEN WithLiteral(plan, plan.lhs.v, rhs, TRUE)
        ELSE IF plan.rhs.node = "literal" /\ lhs.lowerable
        THEN WithLiteral(plan, plan.rhs.v, lhs, FALSE)
        ELSE IF IsSyntheticScalar(lhs) /\ rhs.lowerable THEN WithTime(plan, rhs, TRUE)
        ELSE IF IsSyntheticScalar(rhs) /\ lhs.lowerable THEN WithTime(plan, lhs, FALSE)
        ELSE IF IsVector(lhs) /\ IsVector(rhs) THEN AnalyzeJoin(plan)
        ELSE Unsupported(kind)

----------------------------------------------------------------------------
(* Aggregations. *)

\* isSupportedNativeAggregation, of the aggregations modelled.
NativeAggregations ==
    {"sum", "count", "min", "max", "group", "topk", "bottomk", "limitk", "count_values"}

IsVectorZero(plan) == plan.node = "vector" /\ plan.child.node = "literal" /\ plan.child.v = 0

\* zeroFillAggregationSource: sum(x or vector(0)), of which x alone must be
\* lowerable; the zeros are then added to an answer that has no row.
IsZeroFilled(plan, lhs, rhs) ==
    /\ plan.agg.op = "sum" /\ ~plan.agg.without /\ plan.agg.grouping = {}
    /\ plan.child.node = "binary" /\ plan.child.op = "or"
    /\ IF IsVectorZero(plan.child.lhs) THEN IsVector(rhs)
       ELSE IsVectorZero(plan.child.rhs) /\ IsVector(lhs)

AnalyzeAggregation(plan, child, zeroFilled) ==
    LowerableIf(plan.agg.op \in NativeAggregations /\ (zeroFilled \/ IsVector(child)),
                [Lowered("vector", "aggregation", FALSE) EXCEPT !.zeroFill = zeroFilled])

----------------------------------------------------------------------------
(* Functions. *)

Clamps == {"clamp", "clamp_min", "clamp_max"}

\* isSupportedNativeRangeChild: a range selector, or a subquery.
IsRangeChild(child) ==
    child.lowerable /\ child.kind = "matrix" /\ child.shape \in {"leaf_source", "subquery"}

\* RangeFunctionPreservesMetricName, of the functions modelled.
AnalyzeRangeFunction(plan, child) ==
    LowerableIf(IsRangeChild(child),
                Lowered("vector", "range_function",
                        plan.func \notin {"last_over_time", "first_over_time"}))

\* A scalar lowered as it is, shape and all.
AnalyzeVector(child) ==
    IF child.lowerable /\ child.kind = "scalar" THEN [child EXCEPT !.kind = "vector"]
    ELSE Unsupported("vector")

AnalyzeSort(child) == LowerableIf(IsVector(child), Lowered("vector", "sort_transform", FALSE))

AnalyzeScalarConvert(child) ==
    LowerableIf(IsVector(child), Lowered("scalar", "scalar_convert", TRUE))

\* applyNativeClamp
AnalyzeClamp(child, bounds) ==
    LowerableIf(/\ IsVector(child)
                /\ \A i \in DOMAIN bounds : bounds[i].lowerable /\ bounds[i].kind = "scalar",
                Lowered("vector", "clamp_transform", TRUE))

\* NativePointwiseSourceTemplate: the functions written into the expression of
\* a source; nothing else of them is lowered, and nothing of a relabelling,
\* which hands the source of its child on.
SourceFunctions == {"abs", "sgn"}

AnalyzePointwise(plan, child) ==
    IF /\ plan.func \in SourceFunctions
       /\ child.source # <<>>
       /\ child.shape \in {"leaf_source", "unary_source", "binary_source", "aggregation"}
    THEN [Lowered(child.kind, "unary_source", TRUE) EXCEPT
             !.source = <<OnTopOf(child.source[1],
                                  [v \in Int |-> PointwiseValue(plan.func, [v |-> v], plan.bounds)])>>]
    ELSE Unsupported(child.kind)

\* applyRoundValueTransform: halves up, away from zero below it.
RoundedTo(v, to) ==
    IF v = NaN THEN NaN
    ELSE IF v >= 0 THEN ((2 * v + to) \div (2 * to)) * to
    ELSE -(((to - 2 * v) \div (2 * to)) * to)

AnalyzeRound(to, child) ==
    LET rounded == [drops |-> TRUE, onLeft |-> FALSE,
                    rows |-> [t \in Int, v \in Int |-> <<RoundedTo(v, to)>>]]
    IN  TransformedBy(IF IsVector(child) /\ to \notin {0, NaN} THEN <<rounded>> ELSE <<>>, child)

AnalyzeAbsent(child) == LowerableIf(IsVector(child), Lowered("vector", "absent", TRUE))

AnalyzeAbsentOverTime(child) ==
    LowerableIf(IsRangeChild(child), Lowered("vector", "absent", TRUE))

\* isSupportedNativeSubqueryChild
SubqueryShapes ==
    {"leaf_source", "unary_source", "binary_source", "aggregation", "join", "range_function",
     "sort_transform", "label_transform", "clamp_transform", "value_transform"}

AnalyzeSubquery(child) ==
    LowerableIf(IsVector(child) /\ child.shape \in SubqueryShapes,
                Lowered("matrix", "subquery", FALSE))

\* label_replace and label_join; the source of the child is handed on without
\* a trace of the relabelling.
AnalyzeRelabelling(child) ==
    LowerableIf(IsVector(child),
                [Lowered("vector", "label_transform", FALSE) EXCEPT !.source = child.source])

----------------------------------------------------------------------------
(* The walk. *)

RECURSIVE InfoFor(_)

\* Analysis.walkInner
InfoFor(plan) ==
    LET child == InfoFor(plan.child)
        zeroFilled == /\ plan.child.node = "binary"
                      /\ IsZeroFilled(plan, InfoFor(plan.child.lhs), InfoFor(plan.child.rhs))
        bounds == [i \in DOMAIN plan.bounds |-> InfoFor(plan.bounds[i])]
    IN  CASE plan.node \in {"selector", "window"} -> AnalyzeLeaf(plan)
          [] plan.node = "literal" -> Literal("scalar", plan.v)
          [] plan.node = "time" -> AnalyzeTime
          [] plan.node = "unary" -> AnalyzeUnary(plan.op, child)
          [] plan.node = "binary" -> AnalyzeBinary(plan, InfoFor(plan.lhs), InfoFor(plan.rhs))
          [] plan.node = "aggregate" -> AnalyzeAggregation(plan, child, zeroFilled)
          [] plan.node = "over_time" -> AnalyzeRangeFunction(plan, child)
          [] plan.node = "vector" -> AnalyzeVector(child)
          [] plan.node = "sort" -> AnalyzeSort(child)
          [] plan.node = "scalar" -> AnalyzeScalarConvert(child)
          [] plan.node = "pointwise" ->
               IF plan.func \in Clamps THEN AnalyzeClamp(child, bounds)
               ELSE IF plan.func = "round" THEN AnalyzeRound(plan.bounds[1].v, child)
               ELSE AnalyzePointwise(plan, child)
          [] plan.node = "absent" -> AnalyzeAbsent(child)
          [] plan.node = "absent_over_time" -> AnalyzeAbsentOverTime(child)
          [] plan.node = "subquery" -> AnalyzeSubquery(child)
          [] plan.node \in {"label_replace", "label_join"} -> AnalyzeRelabelling(child)

----------------------------------------------------------------------------
(* The raw samples a subtree reads. *)

RECURSIVE Timed(_)

\* The selectors and subqueries of a plan, from left to right and a subquery
\* before what is under it, without those of a clamp's bounds.
Timed(plan) ==
    CASE plan.node \in {"selector", "window"} -> <<plan>>
      [] plan.node = "subquery" -> <<plan>> \o Timed(plan.child)
      [] plan.node \in {"literal", "time"} -> <<>>
      [] plan.node = "binary" -> Timed(plan.lhs) \o Timed(plan.rhs)
      [] OTHER -> Timed(plan.child)

Leaves(plan) == SelectSeq(Timed(plan), LAMBDA p : p.node # "subquery")

\* How far back a selector reads: its range, or the lookback.
Reach(selector) == IF selector.node = "window" THEN selector.range ELSE Lookback

IsAnchored(selector) == selector.at.kind # "none"

\* computeSelectorShape's HasFixedTemporalAnchor: something under a node is
\* pinned by an @ modifier.
HasFixedAnchor(plan) == \E i \in DOMAIN Timed(plan) : IsAnchored(Timed(plan)[i])

\* logicalResolvedAnchorTimeMS: where the first @ modifier pins it, and t when
\* there is none.
ResolvedAnchor(plan, t, params) ==
    LET anchored == SelectSeq(Timed(plan), IsAnchored)
    IN  IF anchored = <<>> THEN t ELSE Anchor(anchored[1].at, t, params)

\* LogicalRequiredInputBounds: one window for a whole subtree, made of the
\* first selector's offset and the first anchor.
RequiredBounds(plan, params) ==
    LET leaves == Leaves(plan)
        offset == leaves[1].offset
        start == IF params.mode = "range" THEN params.start ELSE params.t
        end == IF params.mode = "range" THEN params.end ELSE params.t
    IN  IF leaves = <<>> THEN [from |-> 0, to |-> 0]
        ELSE [from |-> ResolvedAnchor(plan, start, params) - offset - Reach(leaves[1]),
              to |-> ResolvedAnchor(plan, end, params) - offset]

\* logicalRangeRequiredBoundsForChild: the window for the times of a range,
\* whatever an @ modifier says.
RangeBounds(plan, start, end) ==
    LET leaves == Leaves(plan)
    IN  IF leaves = <<>> THEN [from |-> start, to |-> end]
        ELSE [from |-> start - leaves[1].offset - Reach(leaves[1]),
              to |-> end - leaves[1].offset]
=============================================================================
