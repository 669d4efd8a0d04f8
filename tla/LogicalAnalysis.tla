--------------------------- MODULE LogicalAnalysis ---------------------------
(***************************************************************************)
(* What the logical analysis (internal/promshim/logical/analyze.go) says   *)
(* of every node of a plan, from the leaves up: whether its value is a     *)
(* scalar, a vector or a range of samples, and whether its series are      *)
(* known to have no metric name.  The optimizer's passes and the native    *)
(* renderer go by it.  The labels it tracks besides are only reported.     *)
(* Its metadata tell which selectors a plan has more than once.            *)
(***************************************************************************)
EXTENDS LocalExec

Known(domain, drops) == [domain |-> domain, drops |-> drops]

FillLeaf(plan) == Known(IF plan.node = "window" THEN "range" ELSE "instant", FALSE)

\* A number, time() and scalar().
FillScalar == Known("scalar", TRUE)

\* A sign is taken to pass the metric's name on, which a minus does not.
FillUnary(child) == child

\* A scalar takes the domain of the other side, and a range wins.
BinaryDomain(lhs, rhs) ==
    IF lhs.domain = "scalar" THEN rhs.domain
    ELSE IF rhs.domain = "scalar" THEN lhs.domain
    ELSE IF "range" \in {lhs.domain, rhs.domain} THEN "range" ELSE "instant"

FillBinary(plan, lhs, rhs) ==
    Known(BinaryDomain(lhs, rhs), ~plan.bool /\ plan.op \in {"+", "-", "*", "/"})

\* Every aggregation is taken to drop the name, which topk, bottomk, limitk
\* and one by __name__ do not.
FillAggregation(child) == Known(child.domain, TRUE)

\* rangeFunctionPreservesMetricName, of the functions modelled.
AnalysedAsKeepingName(func) ==
    func \in {"min_over_time", "max_over_time", "sum_over_time", "last_over_time",
              "count_over_time", "first_over_time", "ts_of_min_over_time",
              "ts_of_max_over_time", "ts_of_first_over_time", "ts_of_last_over_time"}

FillRangeFunction(func) == Known("instant", ~AnalysedAsKeepingName(func))

FillVector == Known("instant", TRUE)

\* The sorts and the label functions.
FillPassthrough(child) == child

\* round()
FillPassthroughDrop(child) == Known(child.domain, TRUE)

FillPointwise(child) == Known(child.domain, TRUE)

FillAbsent == Known("instant", TRUE)

FillSubquery(child) == Known("range", child.drops)

RECURSIVE NodeInfo(_)

\* Analysis.walk
NodeInfo(plan) ==
    LET child == NodeInfo(plan.child)
    IN  CASE plan.node \in {"selector", "window"} -> FillLeaf(plan)
          [] plan.node \in {"literal", "time", "scalar"} -> FillScalar
          [] plan.node = "unary" -> FillUnary(child)
          [] plan.node = "binary" -> FillBinary(plan, NodeInfo(plan.lhs), NodeInfo(plan.rhs))
          [] plan.node = "aggregate" -> FillAggregation(child)
          [] plan.node = "over_time" -> FillRangeFunction(plan.func)
          [] plan.node = "vector" -> FillVector
          [] plan.node \in {"sort", "label_replace", "label_join"} -> FillPassthrough(child)
          [] plan.node = "pointwise" ->
               IF plan.func = "round" THEN FillPassthroughDrop(child) ELSE FillPointwise(child)
          [] plan.node \in {"absent", "absent_over_time"} -> FillAbsent
          [] plan.node = "subquery" -> FillSubquery(child)

----------------------------------------------------------------------------
(* metadata.go: selectors met more than once. *)

\* The plans right under one, those of a clamp's bounds first.
Under(plan) ==
    CASE plan.node \in {"selector", "window", "literal", "time"} -> <<>>
      [] plan.node = "binary" -> <<plan.lhs, plan.rhs>>
      [] plan.node = "pointwise" -> plan.bounds \o <<plan.child>>
      [] OTHER -> <<plan.child>>

\* SelectorFingerprint.  Where an @ modifier pins a selector is not in it.
Fingerprint(selector) ==
    [matchers |-> ToSet(selector.matchers), offset |-> selector.offset,
     range |-> IF selector.node = "window" THEN selector.range ELSE 0]

RECURSIVE SelectorsIn(_)

SelectorsIn(plan) ==
    IF plan.node \in {"selector", "window"} THEN <<plan>>
    ELSE FlattenSeq([i \in DOMAIN Under(plan) |-> SelectorsIn(Under(plan)[i])])

\* FinalizeMetadata: the fingerprints that make a reuse group.
SharedSelectors(plan) ==
    LET all == SelectorsIn(plan)
        print(i) == Fingerprint(all[i])
    IN  {print(i) : i \in {j \in DOMAIN all : \E k \in DOMAIN all \ {j} : print(k) = print(j)}}
=============================================================================
