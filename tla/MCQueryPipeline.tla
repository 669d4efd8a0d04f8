--------------------------- MODULE MCQueryPipeline ---------------------------
(* Small sets of requests, query shapes and cost classes.                   *)
EXTENDS QueryPipeline, CostClasses

Shape(d, n, h, l) == [delegable |-> d, native |-> n, hybrid |-> h, local |-> l]
\* selector; aggregation; a function without SQL; a shape that only SQL knows
AllShapes == {Shape(TRUE, TRUE, FALSE, TRUE), Shape(FALSE, TRUE, TRUE, TRUE),
              Shape(FALSE, FALSE, TRUE, TRUE), Shape(FALSE, FALSE, FALSE, TRUE),
              Shape(FALSE, TRUE, FALSE, FALSE)}

----------------------------------------------------------------------------
(* Expressions *)

Selector(name) == [node |-> "selector", name |-> name]
Rate(name) == [node |-> "call", func |-> "rate",
               args |-> <<[node |-> "window", name |-> name, range |-> 300]>>]
SumOf(child) == [node |-> "aggregate", op |-> "sum", child |-> child, params |-> <<>>]
Quantile(child) ==
    [node |-> "call", func |-> "histogram_quantile",
     args |-> <<[node |-> "number"], [node |-> "paren", child |-> child]>>]
Binary(lhs, rhs, matching) ==
    [node |-> "binary", lhs |-> lhs, rhs |-> rhs, matching |-> matching]
Subquery(child, range, step) ==
    [node |-> "subquery", child |-> child, range |-> range, step |-> step]

At == [endpoint |-> "query", start |-> 0, end |-> 0, step |-> 0]
Range(end, step) == [endpoint |-> "query_range", start |-> 0, end |-> end, step |-> step]

Hit(series, samples) == [state |-> "hit", series |-> series, samples |-> samples]
Stale == [state |-> "stale", series |-> 1, samples |-> 1]
Missing == [state |-> "missing", series |-> 0, samples |-> 0]

\* The gates that are open.  A sum over a range, a plain aggregation, a join
\* and a subquery have none.
OpenFamilies == {"rate_instant", "histogram_instant", "binary_repeated_rate_instant"}

(* The queries the classes are of, with what the cache knows of each        *)
(* selector.                                                                *)
Asked == {
    QueryCostClass(Rate("x"), At, <<Missing>>),
    QueryCostClass(Binary(Rate("x"), Rate("x"), "plain"), At, <<Hit(1, 20), Stale>>),
    QueryCostClass(Binary(Rate("x"), Rate("x"), "plain"), At, <<Hit(0, 0), Hit(1, 20)>>),
    QueryCostClass(Rate("x"), At, <<Hit(1, 0)>>),
    QueryCostClass(Rate("x"), At, <<Hit(2, 0)>>),
    QueryCostClass(SumOf(Rate("x")), At, <<Hit(1, 20)>>),
    QueryCostClass(SumOf(Selector("x")), Range(3600, 10), <<Hit(1, 60)>>),
    QueryCostClass(Subquery(Selector("x"), 60, 10), At, <<Hit(1, 6)>>),
    QueryCostClass(Quantile(SumOf(Rate("x"))), At, <<Hit(1, 20)>>),
    QueryCostClass(Quantile(SumOf(Rate("x"))), At, <<Hit(1, 60000)>>)}

Class(family, flags, selectors, estimates, series, samples) ==
    [endpoint |-> "query", family |-> family, flags |-> flags, selectors |-> selectors,
     perSeries |-> 0, estimates |-> estimates, series |-> series, samples |-> samples,
     points |-> series]
Single == {"range function"}
Twice == {"range function", "repeated range function"}
Buckets == {"histogram", "aggregation", "range function"}
AllClasses == {
    Class("rate", Single, 1, "missing", 0, 0),
    Class("binary", Twice, 2, "stale", 0, 0),
    Class("binary", Twice, 2, "fresh", 1, 20),
    Class("rate", Single, 1, "fresh", 1, 21),
    Class("rate", Single, 1, "fresh", 2, 42),
    Class("aggregation", {"aggregation", "range function"}, 1, "fresh", 1, 20),
    [Class("aggregation", {"aggregation"}, 1, "fresh", 1, 60)
        EXCEPT !.endpoint = "query_range", !.perSeries = 361, !.points = 361],
    Class("subquery", {"subquery", "light subquery"}, 1, "fresh", 1, 6),
    Class("histogram_quantile", Buckets, 1, "fresh", 1, 20),
    Class("histogram_quantile", Buckets, 1, "fresh", 1, 60000)}

\* Written out, for TLC evaluates a recursive operator again in every state.
ASSUME ClassesAsClassified == AllClasses = Asked
==============================================================================
