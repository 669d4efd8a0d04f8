----------------------------- MODULE CostRouting -----------------------------
(***************************************************************************)
(* The cost model of promshim (internal/promshim/routing_policy.go): from  *)
(* the class of a query, which estimates are missing, which hard caps a    *)
(* local run would break, what the two sides are predicted to cost, and    *)
(* which local runs may be served.  A class is a record of what            *)
(* query_cost_class.go reads off the expression and of what the selector   *)
(* statistics say; CostClasses builds it.                                  *)
(***************************************************************************)
EXTENDS Integers

CONSTANT CostFamilies      \* PROM_SHIM_COST_ROUTING_LOCAL_FAMILIES

Families == {"selector", "range_selector", "rate", "range_rate", "increase",
             "range_increase", "range_function", "range_range_function",
             "histogram_quantile", "aggregation", "selection_aggregation", "binary",
             "vector_match", "subquery", "label_mutation", "scalar", "string",
             "function", "unknown"}
Flags == {"aggregation", "histogram", "selection", "mutation", "range function",
          "subquery", "light subquery", "join", "repeated range function"}
ClassType == [endpoint : {"query", "query_range"}, family : Families,
              flags : SUBSET Flags, selectors : Nat, perSeries : Nat,
              estimates : {"fresh", "stale", "missing"},
              series : Nat, samples : Nat, points : Nat]

Has(c, flag) == flag \in c.flags
Lacks(c, flags) == c.flags \cap flags = {}

(* missingEstimateFields                                                    *)
MissingEstimate(c) ==
    c.selectors # 0 /\ c.series = 0 /\ c.estimates # "fresh"

-----------------------------------------------------------------------------
(* Hard caps                                                                *)

(* An aggregation of one plain selector over a range may read more.         *)
RangeAggregation(c) ==
    /\ c.endpoint = "query_range" /\ c.family = "aggregation" /\ c.selectors = 1
    /\ Has(c, "aggregation")
    /\ Lacks(c, {"range function", "histogram", "selection", "join", "subquery"})
SampleCap(c) == IF RangeAggregation(c) THEN 1500000 ELSE 50000

(* A local run asks ClickHouse once for each selector.                      *)
Caps == {"maxLocalInputSamples", "maxLocalOutputPoints", "maxLocalOutputSeries",
         "maxLocalRoundTrips", "subquery", "highCardinalityVectorJoin",
         "rangePointsPerSeries"}
Exceeds(c, cap) ==
    \/ cap = "maxLocalInputSamples" /\ c.samples > SampleCap(c)
    \/ cap = "maxLocalOutputPoints" /\ c.points > 10000
    \/ cap = "maxLocalOutputSeries" /\ c.series > 5000
    \/ cap = "maxLocalRoundTrips" /\ c.selectors > 2
    \/ cap = "subquery" /\ Has(c, "subquery")
    \/ cap = "highCardinalityVectorJoin" /\ Has(c, "join") /\ c.series > 1000
    \/ cap = "rangePointsPerSeries" /\ c.family # "range_selector" /\ c.perSeries > 240
CapHits(c) == {cap \in Caps : Exceeds(c, cap)}

(* A light subquery breaks no cap but the one on subqueries: it may be run  *)
(* for comparison.                                                          *)
ShadowBypass(c) ==
    /\ c.family = "subquery"
    /\ Has(c, "subquery") /\ Has(c, "light subquery")
    /\ c.estimates = "fresh"
    /\ CapHits(c) = {"subquery"}

-----------------------------------------------------------------------------
(* Predicted costs, in hundred thousandths of a millisecond                 *)

Bases(family) ==
    CASE family \in {"selector", "range_selector"} -> [native |-> 24, local |-> 7]
      [] family \in {"rate", "range_rate", "increase"} -> [native |-> 30, local |-> 20]
      [] family = "binary" -> [native |-> 45, local |-> 25]
      [] family = "histogram_quantile" -> [native |-> 150, local |-> 35]
      [] family = "aggregation" -> [native |-> 40, local |-> 25]
      [] family = "subquery" -> [native |-> 55, local |-> 24]
      [] OTHER -> [native |-> 0, local |-> 0]

NativeRoundTrips(strict) == IF strict \in {"native_sql", "delegated_promql"} THEN 1 ELSE 0
NativeCost(c, strict) ==
    100000 * Bases(c.family).native + 10 * c.samples + 5 * c.points
        + 200000 * NativeRoundTrips(strict)
LocalCost(c) ==
    100000 * Bases(c.family).local + 2 * c.samples + 2 * c.points + 200000 * c.selectors

(* At most 70 % of the native cost, and 3 ms less.                          *)
PredictedWin(c, strict) ==
    /\ 10 * LocalCost(c) <= 7 * NativeCost(c, strict)
    /\ NativeCost(c, strict) - LocalCost(c) >= 300000

-----------------------------------------------------------------------------
(* Families                                                                 *)

(* localCandidateFamily: what may be predicted to run better locally.       *)
LocalCandidate(c) ==
    \/ c.endpoint = "query" /\
          \/ c.family = "selector"
          \/ c.family \in {"rate", "increase"} /\ c.selectors = 1
          \/ c.family = "binary" /\ c.selectors = 2
                /\ Has(c, "repeated range function") /\ ~Has(c, "join")
          \/ c.family = "histogram_quantile" /\ ~Has(c, "join")
          \/ c.family = "aggregation" /\ Lacks(c, {"histogram", "selection", "join"})
          \/ c.family = "subquery" /\ c.selectors = 1
                /\ Has(c, "subquery") /\ ~Has(c, "join")
    \/ RangeAggregation(c)
    \/ c.family = "range_selector" /\ c.perSeries \in 1..60

FamilyGate(c) ==
    CASE c.family = "selector" -> "selector_instant"
      [] c.family \in {"rate", "increase"} -> "rate_instant"
      [] c.family = "binary" -> IF Has(c, "repeated range function")
                                THEN "binary_repeated_rate_instant" ELSE "binary_instant"
      [] c.family = "histogram_quantile" -> "histogram_instant"
      [] c.family = "aggregation" ->
            IF c.endpoint = "query_range" THEN "aggregation_range"
            ELSE IF Has(c, "range function") THEN "range_aggregation_instant"
            ELSE "aggregation_instant"
      [] c.family = "range_selector" -> "range_selector_tiny"
      [] OTHER -> c.family
FamilyEnabled(c) == FamilyGate(c) \in CostFamilies

(* costPreferServingCandidateAllowed: what may also be served so.           *)
ServesLocally(c) ==
    /\ c.selectors # 0 /\ Lacks(c, {"join", "subquery"})
    /\ \/ c.endpoint = "query" /\
             \/ c.family \in {"rate", "increase"} /\ ~Has(c, "histogram")
             \/ c.family = "binary"
                   /\ {"repeated range function", "range function"} \subseteq c.flags
                   /\ Lacks(c, {"histogram", "aggregation", "selection", "mutation"})
             \/ c.family = "histogram_quantile"
                   /\ {"histogram", "aggregation", "range function"} \subseteq c.flags
             \/ c.family = "aggregation" /\ Has(c, "aggregation")
                   /\ Lacks(c, {"histogram", "selection"})
       \/ RangeAggregation(c) /\ ~Has(c, "mutation")

(* histogramLocalPushdownCandidate                                          *)
HistogramPushdown(c) ==
    /\ c.endpoint = "query" /\ c.family = "histogram_quantile" /\ c.selectors = 1
    /\ {"histogram", "aggregation", "range function"} \subseteq c.flags
    /\ Lacks(c, {"join", "subquery"})
==============================================================================
