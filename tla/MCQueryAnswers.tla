--------------------------- MODULE MCQueryAnswers ---------------------------
(***************************************************************************)
(* Rules and queries for TLC, over the stores of QueryForms.  Metrics 3 and *)
(* 4 are the names of recording rules.                                     *)
(***************************************************************************)
EXTENDS QueryAnswers, QueryForms

Selections ==
    { X, Select(<<Eq(1, 1), Eq(2, 1)>>), Select(<<Eq(1, 2), NotEq(2, 1)>>),
      Select(<<Eq(1, 1), In(3, {1, 2}), NotEq(2, 2)>>),
      Back(X, 1000), AtTime(X, "fixed", 2000), AtTime(X, "start", 0),
      Sorted("sort", Y, <<>>) }

WithScalars ==
    { Bin("+", X, Lit(1), <<>>, FALSE), Bin(">", X, Lit(2), <<>>, FALSE),
      Bin("<", Lit(3), X, <<>>, FALSE), Bin(">=", Lit(3), X, <<>>, TRUE),
      Bin("*", Lit(2), Lit(3), <<>>, FALSE), Bin("-", X, ScalarOf(Y), <<>>, FALSE),
      Bin("!=", Y, ScalarOf(Select(<<Eq(1, 2), Eq(2, 1)>>)), <<>>, FALSE),
      Bin("-", Lit(9), ScalarOf(SumBy(X, {})), <<>>, FALSE),
      Neg(X), Neg(TwoNames), Bin("+", TwoNames, Lit(1), <<>>, FALSE),
      Bin(">", TwoNames, Lit(2), <<>>, TRUE), Bin(">", TwoNames, Lit(2), <<>>, FALSE), Time,
      VectorOf(ScalarOf(Y)), Bin("<", X, Time, <<>>, FALSE) }

WithVectors ==
    { Bin("+", X, X, Plain, FALSE), Bin(">", X, Back(X, 1000), Plain, FALSE),
      Bin("*", SumBy(X, {2}), Y, OnJob, FALSE), Bin("-", X, Y, Left, FALSE),
      Bin("+", X, Y, Match("one-to-one", TRUE, {2}, {}), FALSE),
      Bin("+", Y, X, Right, FALSE), Bin("*", Y, X, RightWith, FALSE),
      Bin(">", Y, X, Right, TRUE), Bin("<=", Y, X, RightWith, TRUE),
      Bin("+", X, Y, Right, FALSE), Bin("*", Y, X, Match("one-to-many", TRUE, {2}, {3}), FALSE),
      Bin("<", Y, X, Right, FALSE),
      Bin("+", SumBy(X, {2}), Y, Filled(OnJob, <<7>>, <<8>>), FALSE),
      Bin("+", X, Y, Filled(Left, <<>>, <<5>>), FALSE),
      Bin("and", X, Y, Many(TRUE, {2}), FALSE), Bin("or", X, Y, Many(FALSE, {3}), FALSE),
      Bin("or", Y, SumBy(X, {2}), Many(TRUE, {2}), FALSE),
      Bin("unless", X, Bin(">", Y, Lit(3), <<>>, FALSE), Many(TRUE, {2}), FALSE) }

Aggregations ==
    { SumBy(X, {2}), SumBy(X, {}), Agg("sum", X, {3}, TRUE, 0), Agg("min", X, {2}, FALSE, 0),
      Agg("max", Bin("-", X, ScalarOf(Y), <<>>, FALSE), {2}, FALSE, 0),
      Agg("count", Select(<<In(1, {1, 2})>>), {2}, FALSE, 0), Agg("group", X, {3}, FALSE, 0),
      Agg("topk", X, {2}, FALSE, 1), Agg("topk", X, {}, FALSE, 2), Agg("bottomk", X, {}, FALSE, 2),
      Agg("topk", X, {}, FALSE, 0), Agg("topk", X, {}, FALSE, N), Agg("limitk", X, {2}, FALSE, 1),
      Agg("count_values", X, {}, FALSE, 4), Agg("count_values", X, {2}, FALSE, 4),
      Agg("count_values", X, {3}, TRUE, 2) }

Relabellings ==
    { Replace(X, 4, 2, {0, 2}, 5), Replace(X, 2, 2, {0}, 1), Replace(X, 3, 3, {}, 0),
      Replace(X, 4, 3, {0, 2}, -1), Join(X, 4, <<2, 3>>), Join(X, 3, <<2>>),
      Join(X, 2, <<3>>) }

Functions1 ==
    { Func("abs", Bin("-", X, Lit(3), <<>>, FALSE), <<>>), Func("sgn", X, <<>>),
      Func("timestamp", X, <<>>), Func("round", Neg(X), <<Lit(2)>>), Func("round", X, <<Lit(4)>>),
      Func("clamp", X, <<Lit(2), Lit(4)>>),
      Func("clamp", X, <<Lit(4), Lit(2)>>), Func("clamp_max", X, <<ScalarOf(Y)>>),
      Func("clamp_min", X, <<ScalarOf(SumBy(X, {}))>>),
      AbsentOf(Select(<<Eq(1, 1), Eq(2, 2)>>)), AbsentOf(Select(<<Eq(1, 5), Eq(2, 3), NotEq(2, 4)>>)),
      AbsentOver(Window(<<Eq(1, 1), Eq(2, 2), Eq(3, 1)>>, 1000)) }

OverRanges ==
    { Over(f, Window(<<Eq(1, 1)>>, 2000)) :
        f \in {"sum_over_time", "max_over_time", "min_over_time", "last_over_time",
               "first_over_time", "resets", "changes", "idelta", "ts_of_max_over_time",
               "ts_of_min_over_time", "present_over_time"} }
    \cup { Over("count_over_time", Sub(X, r, s)) : r \in {2000, 4000}, s \in {0, 1000, 500} }
    \cup { Over("sum_over_time", Sub(Over("count_over_time", Window(<<Eq(1, 1)>>, 1000)), 2000, 1000)),
           Over("count_over_time", Sub(Bin(">", X, Lit(2), <<>>, FALSE), 2000, 1000)),
           Over("max_over_time", [Sub(SumBy(X, {2}), 2000, 1000) EXCEPT !.offset = 1000]),
           Over("last_over_time", AtTime(Sub(Y, 2000, 500), "fixed", 3000)) }

OverRules ==
    { R, Select(<<Eq(1, 3), Eq(2, 1)>>), Select(<<Eq(1, 3), Eq(4, 6)>>),
      Select(<<Eq(1, 3), Eq(4, 5), Eq(2, 2)>>), Select(<<Eq(1, 3), NotEq(4, 5)>>),
      Select(<<Eq(1, 3), NotEq(2, 1)>>), Select(<<Eq(1, 3), Eq(3, 0)>>),
      Bin("*", R, Y, OnJob, FALSE), SumBy(R, {2}), Bin(">", R, Lit(4), <<>>, FALSE),
      Bin("or", R, Of(4), Many(FALSE, {}), FALSE), Func("clamp_min", X, <<ScalarOf(R)>>),
      Over("sum_over_time", Window(<<Eq(1, 3)>>, 2000)),
      Over("sum_over_time", Sub(R, 2000, 1000)) }

\* Every kind of operator over every kind of operand.
Operands ==
    { Back(Y, 1000), Neg(X), Bin(">", X, Lit(2), <<>>, FALSE), Bin("<", Y, X, Right, FALSE),
      Bin("*", SumBy(X, {2}), Y, OnJob, FALSE), SumBy(X, {2}), Agg("topk", X, {}, FALSE, 2),
      Agg("count_values", X, {2}, FALSE, 4), Replace(X, 4, 2, {0, 2}, 5),
      Replace(Y, 2, 2, {0}, 1), Func("timestamp", X, <<>>), VectorOf(ScalarOf(Y)),
      AbsentOf(Select(<<Eq(1, 1), Eq(2, 2)>>)), R,
      Over("changes", Window(<<Eq(1, 1)>>, 2000)),
      Over("last_over_time", Sub(X, 2000, 1000)) }
Composed ==
    UNION { { Neg(q), SumBy(q, {2}), Agg("bottomk", q, {2}, FALSE, 1), Func("sgn", q, <<>>),
              Bin("+", q, Lit(1), <<>>, FALSE), Bin(">", q, ScalarOf(Y), <<>>, FALSE),
              Bin("+", q, Y, OnJob, FALSE), Bin("unless", X, q, Many(TRUE, {2}), FALSE),
              Bin("+", Y, q, Right, FALSE), Join(q, 4, <<2, 3>>), ScalarOf(q), AbsentOf(q),
              Over("count_over_time", Sub(q, 2000, 1000)) } : q \in Operands }
    \ {Neg(Neg(X))}         \* optimized to X, whose name then stays

Twice(q) == Bin("+", q, q, Plain, FALSE)
Average2(q) == Bin("/", Twice(q), Lit(2), <<>>, FALSE)
Average3(q) == Bin("/", Bin("+", Twice(q), q, Plain, FALSE), Lit(3), <<>>, FALSE)
Nameless == { SumBy(X, {2}), Bin("*", X, X, Plain, FALSE), Bin("-", X, Lit(3), <<>>, FALSE),
              Over("changes", Window(<<Eq(1, 1)>>, 2000)) }

\* What the optimizer looks for, and what it must leave alone: averages of
\* what keeps its name, of too few terms, and of one average in another.
Optimizable ==
    UNION { { Neg(Neg(q)), Average2(q), Average3(q), Average2(Neg(Neg(q))),
              SumBy(Average2(Average2(q)), {}) } : q \in Nameless }
    \cup { Average2(X), Average3(Y), Average2(Neg(X)), Average2(Bin(">", X, Lit(2), <<>>, FALSE)),
           Bin("/", Twice(SumBy(X, {2})), Lit(3), <<>>, FALSE) }

\* Queries the parser lets through and the analysis or the builder refuses, and
\* some next to them that are built.
NoLabel == 0
Shapes ==
    { String(1), Paren(X), Pos(X), Neg(Paren(Lit(3))), Neg(Paren(Pos(Lit(3)))), Pos(ScalarOf(Y)),
      Pos(Neg(SumBy(X, {2}))), Neg(Pos(Neg(X))), Bin("atan2", X, Y, Left, FALSE),
      [Agg("topk", X, {}, FALSE, 1) EXCEPT !.params = <<ScalarOf(Y)>>],
      [Agg("topk", X, {}, FALSE, 1) EXCEPT !.params = <<Paren(Lit(1))>>],
      Agg("count_values", X, {2}, FALSE, NoLabel),
      Func("round", X, <<ScalarOf(Y)>>), Func("round", X, <<Bin("+", Lit(1), Lit(1), <<>>, FALSE)>>),
      Func("round", Neg(X), <<Neg(Paren(Neg(Lit(2))))>>),
      Func("clamp_max", X, <<Pos(Lit(3))>>),
      Replace(X, NoLabel, 2, {0, 2}, 5), Replace(X, 4, NoLabel, {0}, 5),
      Replace(X, 4, NoLabel, {}, 5), Join(X, 4, <<NoLabel>>), Join(X, NoLabel, <<2>>),
      Join(X, 4, <<>>), Sorted("sort_by_label", Y, <<>>), AbsentOf(Paren(Of(5))),
      SumBy(Bin("atan2", X, Y, Left, FALSE), {2}), Func("abs", Replace(X, NoLabel, 2, {0}, 5), <<>>) }

Evaluated == Selections \cup WithScalars \cup WithVectors \cup Aggregations
             \cup Relabellings \cup Functions1 \cup OverRanges \cup OverRules
             \cup Composed \cup Optimizable \cup Shapes

\* What can stand under an operator, with one metric in it.
Inner ==
    { X, Back(X, 1000), Select(<<Eq(1, 1), NotEq(2, 2)>>), Neg(X), Bin("*", X, Lit(2), <<>>, FALSE),
      Bin(">", X, Lit(2), <<>>, FALSE), Bin(">=", Lit(3), X, <<>>, TRUE),
      SumBy(X, {2}), Bin("-", X, Y, Left, FALSE), Bin("+", Y, X, RightWith, FALSE),
      Bin("*", SumBy(X, {2}), Y, OnJob, FALSE), Bin("or", X, Y, Many(TRUE, {2}), FALSE),
      Bin("unless", X, Bin(">", Y, Lit(3), <<>>, FALSE), Many(TRUE, {2}), FALSE),
      Replace(SumBy(X, {2, 3}), 4, 2, {0, 2}, 5), Replace(SumBy(Y, {1, 2}), 2, 2, {0}, 1), Join(SumBy(Y, {1, 2}), 4, <<2, 3>>),
      AbsentOf(Select(<<Eq(1, 1), Eq(2, 2)>>)) }

Unlabelled == { VectorOf(ScalarOf(Y)), VectorOf(Lit(4)) }

LoweredForms ==
    UNION { { q, Neg(q), SumBy(q, {}), Agg("max", q, {3}, TRUE, 0), Agg("count", q, {2}, FALSE, 0),
              ScalarOf(q), AbsentOf(q), Sorted("sort", q, <<>>),
              Bin("+", Lit(1), q, <<>>, FALSE),
              Bin("==", q, Lit(2), <<>>, TRUE), Bin("<", q, Time, <<>>, FALSE),
              Bin("+", q, ScalarOf(SumBy(Y, {})), <<>>, FALSE) } : q \in Inner \cup Unlabelled }
    \cup { Bin("<", Lit(2), q, <<>>, FALSE) : q \in Inner }
    \cup UNION { { Bin("and", q, Y, Many(TRUE, {2}), FALSE), Bin("+", Y, q, Right, FALSE) } :
                  q \in Inner \ {Back(X, 1000)} }
    \cup { Pos(X), Pos(SumBy(X, {2})), Neg(Pos(Bin("-", X, Lit(3), <<>>, FALSE))),
           SumBy(Pos(Replace(SumBy(X, {2, 3}), 4, 2, {0, 2}, 5)), {2}), Pos(Neg(Lit(3))) }
    \cup { Lit(3), Neg(Lit(3)), Bin("*", Lit(2), Lit(3), <<>>, FALSE), Time,
           Bin("-", Time, Lit(1), <<>>, FALSE), Neg(Bin("-", Neg(X), Lit(3), <<>>, FALSE)),
           Bin("-", Lit(9), ScalarOf(SumBy(X, {})), <<>>, FALSE),
           Bin("+", SumBy(X, {2}), SumBy(Y, {2}), Plain, FALSE) }

\* Selections, and functions of single samples, alone and under aggregations.
Clamped ==
    { Func("clamp", X, <<Lit(2), Lit(4)>>), Func("clamp", X, <<Lit(4), ScalarOf(Y)>>),
      Func("clamp_max", Y, <<ScalarOf(SumBy(X, {2}))>>),
      Func("clamp_min", X, <<Bin("-", ScalarOf(SumBy(X, {})), Lit(9), <<>>, FALSE)>>),
      Func("clamp_min", SumBy(X, {2}), <<Time>>),
      Func("round", Neg(X), <<Lit(2)>>), Func("round", SumBy(X, {2}), <<Lit(4)>>),
      Func("abs", Bin("-", X, Lit(3), <<>>, FALSE), <<>>), Func("sgn", Neg(X), <<>>),
      Neg(Func("abs", X, <<>>)) }

LoweredSelections ==
    UNION { { Agg("topk", q, {2}, FALSE, 1), Agg("bottomk", q, {}, FALSE, 2),
              Agg("limitk", q, {}, FALSE, 1), Agg("count_values", q, {2}, FALSE, 4) } :
            q \in Inner \cup Unlabelled \cup Clamped }
    \cup Clamped \cup UNION { { SumBy(q, {2}), Agg("max", q, {3}, TRUE, 0) } : q \in Clamped }
    \cup { Agg("topk", X, {}, FALSE, 0), Agg("topk", X, {}, FALSE, N),
           Agg("count_values", X, {3}, TRUE, 2),
           SumBy(Func("clamp_max", X, <<ScalarOf(SumBy(Y, {3}))>>), {2}),
           SumBy(Bin("or", X, VectorOf(Lit(0)), Many(FALSE, {}), FALSE), {}) }

\* Sorts, of samples with equal values and equal labels among them.
Sorts ==
    { Sorted(f, q, <<>>) : f \in {"sort", "sort_desc"}, q \in {X, Bin("-", X, Y, Left, FALSE)} }
    \cup { Sorted(f, X, labels) : f \in {"sort_by_label", "sort_by_label_desc"},
                                  labels \in {<<2>>, <<4, 3>>} }
    \cup { Sorted("sort_desc", Func("clamp_max", X, <<ScalarOf(Y)>>), <<>>) }

\* Functions of ranges, of raw samples and of other queries, alone and under
\* and over other operators.
XOver(range) == Window(<<Eq(1, 1)>>, range)
RangeFunctions ==
    {"sum_over_time", "max_over_time", "min_over_time", "count_over_time", "present_over_time",
     "last_over_time", "first_over_time", "resets", "changes", "idelta",
     "ts_of_max_over_time", "ts_of_min_over_time", "ts_of_first_over_time"}
Stepped ==
    { Sub(q, 2000, s) : q \in {X, SumBy(X, {2}), Bin("*", X, Lit(2), <<>>, FALSE)}, s \in {0, 500} }
    \cup { Sub(Bin("-", X, Y, Left, FALSE), 2000, 500), Sub(Bin(">", X, Lit(2), <<>>, FALSE), 1000, 500),
           Sub(Replace(SumBy(X, {2, 3}), 4, 2, {0, 2}, 5), 1000, 1000),
           Sub(SumBy(Over("max_over_time", XOver(1000)), {2}), 2000, 1000),
           Sub(SumBy(Over("last_over_time", XOver(500)), {2}), 2000, 500),
           Sub(Over("count_over_time", Sub(X, 1000, 500)), 2000, 1000) }
LoweredOverTime ==
    { Over(f, XOver(2000)) : f \in RangeFunctions }
    \cup { Over(f, XOver(r)) : f \in {"max_over_time", "last_over_time"}, r \in {500, 1000} }
    \cup { Over(f, Back(XOver(1000), 500)) : f \in {"max_over_time", "sum_over_time", "idelta"} }
    \cup { Over(f, q) : f \in {"sum_over_time", "last_over_time"}, q \in Stepped }
    \cup { Over(f, Sub(X, 2000, 500)) : f \in RangeFunctions }
    \cup { Over("max_over_time", Back(Sub(SumBy(X, {2}), 2000, 1000), 1000)) }
AroundOverTime ==
    { Over(f, w) : f \in {"max_over_time", "count_over_time"},
                   w \in {XOver(500), XOver(2000), Back(XOver(1000), 1000), Sub(X, 1000, 500)} }
LoweredWindows ==
    LoweredOverTime
    \cup UNION { { SumBy(q, {2}), Agg("max", q, {3}, TRUE, 0), Agg("topk", q, {2}, FALSE, 1),
                   Agg("group", q, {3}, FALSE, 0), Neg(q), Bin(">", q, Lit(2), <<>>, FALSE),
                   Bin("+", q, q, Plain, FALSE), ScalarOf(SumBy(q, {})), AbsentOf(q) } :
                 q \in AroundOverTime }
    \cup { AbsentOver(Window(<<Eq(1, 1), Eq(2, 2)>>, r)) : r \in {500, 1000} }
    \cup { AbsentOver(Sub(q, 500, 500)) : q \in {X, Select(<<Eq(1, 1), Eq(2, 2)>>)} }
    \cup { Func("clamp_min", Over("sum_over_time", XOver(1000)), <<Lit(4)>>) }

\* With a minute hand put back, or held.
LoweredInstants ==
    { AtTime(X, "fixed", 2000), Neg(AtTime(X, "end", 0)), SumBy(AtTime(X, "start", 0), {2}),
      Bin("-", AtTime(X, "fixed", 2000), AtTime(Y, "fixed", 2000), Left, FALSE) }
LoweredRanges ==
    { Bin(">", X, Back(X, 1000), Plain, FALSE), Bin("+", Back(Y, 500), X, Right, FALSE),
      Bin("unless", X, Back(Y, 1000), Many(TRUE, {2}), FALSE),
      Bin("+", AtTime(X, "fixed", 2000), Lit(1), <<>>, FALSE),
      Bin("*", Lit(2), Back(AtTime(X, "end", 0), 1000), <<>>, FALSE),
      SumBy(Back(X, 500), {2}), Bin("-", Time, Back(X, 1500), <<>>, FALSE) }

----------------------------------------------------------------------------
(* Rules: three definitions of one name, two of which are equal but for their
   labels, and a rule of its own. *)

Rule(name, expr, labels, groupLabels) ==
    [name |-> name, expr |-> expr, labels |-> labels, groupLabels |-> groupLabels]

MCRules ==
    { Rule(3, SumBy(X, {2}), 4 :> 5, <<>>),
      Rule(3, Agg("sum", X, {3}, TRUE, 0), 4 :> 5, 3 :> 6 @@ 4 :> 6),
      Rule(3, SumBy(X, {2}), 4 :> 6, <<>>),
      Rule(4, Bin(">", X, Lit(2), <<>>, FALSE), <<>>, <<>>) }

----------------------------------------------------------------------------
(* Requests. *)

Instants == { Instant(3000), Instant(4000) }
Ranges == { OverRange(1000, 4000, 1000), OverRange(2000, 4000, 500) }
\* Steps longer than the lookback, and a range that starts between samples.
NativeRanges == { OverRange(2000, 4000, 2000), OverRange(1500, 4000, 500) }

Asked(queries, times, modes) ==
    [expr : queries, params : times, mode : modes]

MCRequests ==
    Asked(Evaluated, Instants \cup Ranges, {"off"})
    \cup Asked(LoweredSelections, {Instant(3000)} \cup NativeRanges, {"prefer"})
    \cup Asked(Sorts, {Instant(3000), OverRange(2000, 4000, 2000)}, {"off", "prefer"})
    \cup Asked(LoweredForms, {Instant(3000)} \cup NativeRanges, {"prefer"})
    \cup Asked(LoweredForms, {Instant(4000)} \cup NativeRanges, {"local_pushdown"})
    \cup Asked({X, Back(X, 1000)} \cup OverRules, {Instant(4000)} \cup NativeRanges,
               {"force_supported"})
    \cup Asked(LoweredWindows, {Instant(3000)} \cup NativeRanges, {"prefer"})
    \cup Asked(LoweredWindows, {Instant(4000)} \cup NativeRanges, {"local_pushdown"})
    \cup Asked(LoweredInstants, Instants, Modes)
    \cup Asked(LoweredRanges, Ranges \cup NativeRanges, Modes)

\* A filter with its scalar on the left over a vector without labels.
FilterRequests ==
    Asked({Bin("<", Lit(5), SumBy(X, {}), <<>>, FALSE)}, Ranges, {"off"})

\* A rule's value of a while ago.
OffsetRequests ==
    Asked({Back(R, 1000), AtTime(R, "fixed", 2000)}, Instants, {"off"})

\* What a metric is more than a while ago, asked for one time.
JoinRequests ==
    Asked({Bin("-", X, Back(X, 1000), Plain, FALSE)}, Instants, {"prefer"})

\* A query that names no rule is answered with no rule loaded: the others
\* change nothing of it.
NamesRules(p) == RulesIn(p, MCRules) # {}
RulesMatter == query # <<>> /\ loaded # {} => NamesRules(query[1].expr)

MCLabels == 1 .. 4
MCRuleTimes == {500 * i : i \in 1 .. 8}
MCStrategies == {"asof", "bucketed"}
=============================================================================
