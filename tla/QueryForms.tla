----------------------------- MODULE QueryForms -----------------------------
(***************************************************************************)
(* Short names for the queries and the small stores of the checked         *)
(* instances.  Label 2 is a job, 3 an instance, 4 one no series has;       *)
(* metric 1 has three series, metric 2 two.                                *)
(***************************************************************************)
EXTENDS QueryBuild

Metric(name, job, inst) == <<name, job, inst, 0>>

\* One series from its values at 1 s, 2 s, 3 s and 4 s; 0 for no sample.
FromValues(metric, values) ==
    LET all == [i \in 1 .. 4 |-> [t |-> 1000 * i, v |-> values[i]]]
    IN  Series(metric, SelectSeq(all, LAMBDA p : p.v # 0))

StoreOf(rows) ==
    SelectSeq(<<FromValues(Metric(1, 1, 1), rows[1]), FromValues(Metric(1, 1, 2), rows[2]),
                FromValues(Metric(1, 2, 1), rows[3]), FromValues(Metric(2, 1, 0), rows[4]),
                FromValues(Metric(2, 2, 0), rows[5])>>, LAMBDA s : s.points # <<>>)

N == 99
MCStores ==
    { StoreOf(<< <<1, 2, 3, 5>>, <<4, 1, 2, 2>>, <<2, 2, 0, 7>>, <<2, 3, 1, 4>>, <<1, 0, 5, 6>> >>),
      StoreOf(<< <<3, 0, 1, 4>>, <<N, 2, 2, N>>, <<0, 6, 1, 1>>, <<N, 1, 2, 1>>, <<0, 0, 2, 2>> >>),
      StoreOf(<< <<0, 0, 0, 0>>, <<2, 5, 5, 1>>, <<1, 1, 0, 0>>, <<0, 0, 0, 0>>, <<3, 2, N, 5>> >>),
      StoreOf(<< <<7, 6, 5, 4>>, <<0, 0, 6, 6>>, <<3, N, 3, N>>, <<5, 5, 0, 5>>, <<5, 0, 0, 4>> >>),
      <<>> }

----------------------------------------------------------------------------
(* Queries. *)

NoAt == [kind |-> "none", t |-> 0]
Eq(label, value) == [label |-> label, type |-> "=", values |-> {value}]
NotEq(label, value) == [label |-> label, type |-> "!=", values |-> {value}]
In(label, values) == [label |-> label, type |-> "=~", values |-> values]

Select(matchers) == [node |-> "selector", matchers |-> matchers, offset |-> 0, at |-> NoAt]
Of(name) == Select(<<Eq(1, name)>>)
X == Of(1)
Y == Of(2)
R == Of(3)
Back(sel, offset) == [sel EXCEPT !.offset = offset]
AtTime(sel, kind, t) == [sel EXCEPT !.at = [kind |-> kind, t |-> t]]
Window(matchers, range) ==
    [node |-> "window", matchers |-> matchers, range |-> range, offset |-> 0, at |-> NoAt]
Sub(child, range, step) ==
    [node |-> "subquery", child |-> child, range |-> range, step |-> step,
     offset |-> 0, at |-> NoAt]
Lit(v) == Number(v)
Time == Call("time", <<>>)
VectorOf(child) == Call("vector", <<child>>)
ScalarOf(child) == Call("scalar", <<child>>)
Paren(child) == [node |-> "paren", child |-> child]
Neg(child) == [node |-> "unary", op |-> "-", child |-> child]
Pos(child) == [node |-> "unary", op |-> "+", child |-> child]
Parameterized == {"topk", "bottomk", "limitk"}
Agg(op, child, grouping, without, param) ==
    [node |-> "aggregate", op |-> op, child |-> child, grouping |-> grouping,
     without |-> without,
     params |-> IF op \in Parameterized THEN <<Lit(param)>>
                ELSE IF op = "count_values" THEN <<String(param)>> ELSE <<>>]
SumBy(child, grouping) == Agg("sum", child, grouping, FALSE, 0)
Over(func, child) == Call(func, <<child>>)
Func(func, child, bounds) == Call(func, <<child>> \o bounds)
Replace(child, dst, src, except, to) ==
    Call("label_replace", <<child, String(dst), String(to), String(src), Pattern(except)>>)
Join(child, dst, srcs) ==
    Call("label_join", <<child, String(dst), String(0)>>
                           \o [i \in DOMAIN srcs |-> String(srcs[i])])
Sorted(func, child, labels) ==
    Call(func, <<child>> \o [i \in DOMAIN labels |-> String(labels[i])])
AbsentOf(child) == Call("absent", <<child>>)
AbsentOver(child) == Call("absent_over_time", <<child>>)

Match(card, on, labels, include) ==
    <<[card |-> card, on |-> on, labels |-> labels, include |-> include,
       fillLHS |-> <<>>, fillRHS |-> <<>>]>>
Filled(matching, left, right) ==
    <<[matching[1] EXCEPT !.fillLHS = left, !.fillRHS = right]>>
Bin(op, lhs, rhs, matching, bool) ==
    [node |-> "binary", op |-> op, lhs |-> lhs, rhs |-> rhs, matching |-> matching,
     bool |-> bool]
Plain == Match("one-to-one", FALSE, {}, {})
OnJob == Match("one-to-one", TRUE, {2}, {})
Left == Match("many-to-one", TRUE, {2}, {})
Right == Match("one-to-many", TRUE, {2}, {})
RightWith == Match("one-to-many", FALSE, {3}, {1})
Many(on, labels) == Match("many-to-many", on, labels, {})

\* Two metrics that only their names tell apart.
TwoNames == SumBy(Select(<<In(1, {1, 2})>>), {1, 2})
=============================================================================
