----------------------------- MODULE NativePlan -----------------------------
(***************************************************************************)
(* The planner of the execution (internal/promshim/local/planner.go and    *)
(* native_subtree*.go): going down a plan, the first node of each branch   *)
(* that can be lowered is handed to ClickHouse with all that is under it,  *)
(* and what is above is evaluated by the local executor around the         *)
(* answers.  How much is handed over depends on the lowering mode of the   *)
(* request; the modes shadow and explain plan as prefer does.  Aggregation *)
(* pushdown is taken to be preferred, as it is by default.                 *)
(***************************************************************************)
EXTENDS PlanRewrite

Modes == {"off", "prefer", "force_supported", "local_pushdown"}

\* PlanContext.AllowsNativePlanning, for a node that many levels down.
AllowsNativePlanning(mode, depth) == mode # "off" /\ (mode = "local_pushdown" => depth > 1)

ForcesNativeRoot(mode) == mode = "force_supported"

----------------------------------------------------------------------------
(* maybeBuildNative*Plan: what is handed over of a node is known from what *)
(* the analysis found of it.                                               *)

\* maybeBuildNativeGenericPlan
HasShape(info, shapes) == info.lowerable /\ info.shape \in shapes

\* A bare selector is not worth a statement of another kind than its own.
IsNativeLeaf(info, mode) == ForcesNativeRoot(mode) /\ HasShape(info, {"leaf_source"})

IsNativeLiteral(info, mode) == ForcesNativeRoot(mode) /\ HasShape(info, {"synthetic"})

IsNativeBuiltin(info) == HasShape(info, {"synthetic"})

\* Nor is arithmetic on scalars.
IsNativeUnary(info, mode) ==
    /\ info.kind = "scalar" => ForcesNativeRoot(mode)
    /\ HasShape(info, {"unary_source", "value_transform", "synthetic"})

IsNativeBinary(info, mode) ==
    /\ info.kind = "scalar" => ForcesNativeRoot(mode)
    /\ HasShape(info, {"join", "binary_source", "value_transform", "synthetic"})

IsNativeAggregation(info) == HasShape(info, {"aggregation"})

\* maybeBuildNativeSourcePlan; a synthetic series is never a function's.
IsNativePointwise(info) ==
    HasShape(info, {"leaf_source", "unary_source", "binary_source", "clamp_transform"})

IsNativeRound(info) == HasShape(info, {"value_transform"})

IsNativeSort(info) == HasShape(info, {"sort_transform"})

IsNativeScalarConvert(info) == HasShape(info, {"scalar_convert"})

\* A constant or a converted vector, but no arithmetic.
IsNativeVector(info) == HasShape(info, {"synthetic", "scalar_convert"})

IsNativeRelabelling(info) == HasShape(info, {"label_transform"})

\* maybeBuildNativeRangeFunctionPlan, maybeBuildNativeChangesPlan and
\* maybeBuildNativeDeltaPlan: in range mode over samples read directly or over
\* a subquery (analysis_support.go).
IsNativeRangeFunction(info, child, evaluation) ==
    /\ HasShape(info, {"range_function"})
    /\ evaluation = "range" =>
         \/ child.shape = "leaf_source" /\ child.kind = "matrix"
         \/ child.shape = "subquery"

IsNativeAbsent(info) == HasShape(info, {"absent"})

IsNativeSubquery(info) == HasShape(info, {"subquery"})

----------------------------------------------------------------------------
(* buildExecPlanWithAnalysis, by the kind of node. *)

HandsOverLeaf(p, info, mode) ==
    \/ p.node \in {"selector", "window"} /\ IsNativeLeaf(info, mode)
    \/ p.node = "literal" /\ IsNativeLiteral(info, mode)

HandsOverOperator(p, info, mode) ==
    \/ p.node = "unary" /\ IsNativeUnary(info, mode)
    \/ p.node = "binary" /\ IsNativeBinary(info, mode)
    \/ p.node = "aggregate" /\ IsNativeAggregation(info)

HandsOverFunction(p, info) ==
    \/ p.node = "vector" /\ IsNativeVector(info)
    \/ p.node = "sort" /\ IsNativeSort(info)
    \/ p.node = "scalar" /\ IsNativeScalarConvert(info)
    \/ p.node = "time" /\ IsNativeBuiltin(info)
    \/ /\ p.node = "pointwise"
       /\ IF p.func = "round" THEN IsNativeRound(info) ELSE IsNativePointwise(info)

HandsOverRange(p, info, evaluation) ==
    \/ p.node = "over_time" /\ IsNativeRangeFunction(info, InfoFor(p.child), evaluation)
    \/ p.node \in {"absent", "absent_over_time"} /\ IsNativeAbsent(info)
    \/ p.node = "subquery" /\ IsNativeSubquery(info)
    \/ p.node \in {"label_replace", "label_join"} /\ IsNativeRelabelling(info)

IsHandedOver(p, info, mode, evaluation) ==
    \/ HandsOverLeaf(p, info, mode)
    \/ HandsOverOperator(p, info, mode)
    \/ HandsOverFunction(p, info)
    \/ HandsOverRange(p, info, evaluation)

\* nativeSubtreePlan: the strategy is ClickHouse's choice for a selector.
NativeSubtree(p, strategy) == [node |-> "native", child |-> p, strategy |-> strategy]

RECURSIVE Planned(_, _, _, _, _)

\* buildExecPlanWithAnalysis: one node, and what is under it unless it goes too.
Planned(p, mode, evaluation, depth, strategy) ==
    LET below(child) == Planned(child, mode, evaluation, depth + 1, strategy)
    IN  IF AllowsNativePlanning(mode, depth) /\ IsHandedOver(p, InfoFor(p), mode, evaluation)
        THEN NativeSubtree(p, strategy)
        ELSE WithChildren(p, below)

\* BuildPlanWithContextAndAnalysis, after the optimizer.
ExecutionPlan(root, mode, evaluation, strategy) == Planned(root, mode, evaluation, 1, strategy)
=============================================================================
