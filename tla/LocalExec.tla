------------------------------ MODULE LocalExec ------------------------------
(***************************************************************************)
(* The operators of promshim's local executor (internal/promshim/local/    *)
(* exec): what the Go code computes from the values of a node's children   *)
(* when a query, or the rest of a query around the parts ClickHouse        *)
(* answers, is evaluated in the process.  Most exist twice in the code,    *)
(* once on instant vectors and once on range matrices, and both are here.  *)
(*                                                                         *)
(* Reducers and functions whose results need fractions (avg, stddev,       *)
(* quantile, rate, increase, delta, deriv, predict_linear, smoothing,      *)
(* division) are left out: they differ from the ones here in the number    *)
(* they compute, not in which series and timestamps they answer with.  So  *)
(* are limit_ratio, info and the histogram functions.                      *)
(***************************************************************************)
EXTENDS LocalData

----------------------------------------------------------------------------
(* Scalars. *)

IsComparison(op) == op \in {"==", "!=", ">", "<", ">=", "<="}

BoolToFloat(b) == IF b THEN 1 ELSE 0

\* applyScalarBinary; comparisons with NaN are false but for "!=".
ApplyScalarBinary(op, a, b) ==
    IF IsComparison(op)
    THEN BoolToFloat(IF NaN \in {a, b} THEN op = "!="
                     ELSE CASE op = "==" -> a = b
                            [] op = "!=" -> a # b
                            [] op = ">"  -> a > b
                            [] op = "<"  -> a < b
                            [] op = ">=" -> a >= b
                            [] op = "<=" -> a <= b)
    ELSE IF NaN \in {a, b} THEN NaN
    ELSE CASE op = "+" -> a + b
           [] op = "-" -> a - b
           [] op = "*" -> a * b
           [] op = "/" -> a \div b     \* asked only where it is exact

\* An operation as it reads with its sides turned round.
Mirrored(op) ==
    CASE op = ">" -> "<" [] op = "<" -> ">" [] op = ">=" -> "<=" [] op = "<=" -> ">="
      [] OTHER -> op

Negated(v) == IF v = NaN THEN NaN ELSE -v

\* applyUnaryScalar
Signed(op, v) == IF op = "-" THEN Negated(v) ELSE v

----------------------------------------------------------------------------
(* Label sets kept unique, or reported. *)

\* Mutant: twins are not looked for.
TwinsLetThrough(samples) == Vector(samples)

EnsureUniqueInstant(samples) ==
    IF HasTwins(samples) THEN Error("bad_data") ELSE Vector(samples)

EnsureUniqueRange(series) == Merged(series, "bad_data")

----------------------------------------------------------------------------
(* Signs, and vectors against scalars. *)

\* A plus sign leaves even the names.
ApplyUnarySamples(op, samples) ==
    IF op = "+" THEN samples
    ELSE [i \in DOMAIN samples |-> Sample(DropMetricName(samples[i].metric),
                                          samples[i].t, Negated(samples[i].v))]

ApplyUnarySeries(op, series) ==
    IF op = "+" THEN series
    ELSE [i \in DOMAIN series |->
             Series(DropMetricName(series[i].metric),
                    [j \in DOMAIN series[i].points |->
                        [series[i].points[j] EXCEPT !.v = Negated(@)]])]

ApplyUnary(op, value) ==
    IF value.kind = "scalar" THEN [value EXCEPT !.v = Signed(op, @)]
    ELSE IF value.kind = "vector"
    THEN EnsureUniqueInstant(ApplyUnarySamples(op, value.samples))
    ELSE EnsureUniqueRange(ApplyUnarySeries(op, value.series))

\* The name stays only on what a filtering comparison lets through.
ScalarResultMetric(metric, op, bool) ==
    IF IsComparison(op) /\ ~bool THEN metric ELSE DropMetricName(metric)

Compared(op, vectorValue, scalar, swap) ==
    IF swap THEN ApplyScalarBinary(op, scalar, vectorValue)
            ELSE ApplyScalarBinary(op, vectorValue, scalar)

\* A filter answers with the vector's value, whichever side it is on.
ScalarResult(op, vectorValue, scalar, swap, bool) ==
    IF IsComparison(op) /\ ~bool THEN vectorValue
                                 ELSE Compared(op, vectorValue, scalar, swap)

FilteredOut(op, vectorValue, scalar, swap, bool) ==
    IsComparison(op) /\ ~bool /\ Compared(op, vectorValue, scalar, swap) = 0

ApplyVectorScalarInstant(op, samples, scalar, swap, bool) ==
    LET kept == SelectSeq(samples, LAMBDA s : ~FilteredOut(op, s.v, scalar, swap, bool))
    IN  [i \in DOMAIN kept |->
            Sample(ScalarResultMetric(kept[i].metric, op, bool), kept[i].t,
                   ScalarResult(op, kept[i].v, scalar, swap, bool))]

\* applyScalarMatrixBinaryRange: the scalar has a value at every step.
ApplyScalarMatrixRange(op, series, scalar, swap, bool) ==
    LET scalarAt(t) == scalar.points[CHOOSE i \in DOMAIN scalar.points :
                                        scalar.points[i].t = t].v
        known == {scalar.points[i].t : i \in DOMAIN scalar.points}
        keeps(p) == /\ p.t \in known
                    /\ ~FilteredOut(op, p.v, scalarAt(p.t), swap, bool)
        result(s) ==
            LET kept == SelectSeq(s.points, keeps)
            IN  Series(ScalarResultMetric(s.metric, op, bool),
                       [i \in DOMAIN kept |->
                           [kept[i] EXCEPT !.v =
                               ScalarResult(op, @, scalarAt(kept[i].t), swap, bool)]])
        results == [i \in DOMAIN series |-> result(series[i])]
    IN  SelectSeq(results, LAMBDA s : s.points # <<>>)

----------------------------------------------------------------------------
(* Vectors against vectors.  A matching is a record: card, on, labels,     *)
(* include, and the fill values as sequences of at most one value.         *)

OneToOne == [card |-> "one-to-one", on |-> FALSE, labels |-> {}, include |-> {},
             fillLHS |-> <<>>, fillRHS |-> <<>>]

GroupLabels(metric, m) ==
    IF m.on THEN Keep(metric, m.labels)
            ELSE Keep(metric, Labels \ (m.labels \cup {MetricName}))

\* buildVectorVectorResultMetric
ResultMetric(left, right, op, m, bool) ==
    LET named == ScalarResultMetric(left, op, bool)
        matched == IF m.card # "one-to-one" THEN named
                   ELSE IF m.on THEN Keep(named, m.labels)
                   ELSE Keep(named, Labels \ m.labels)
    IN  [l \in Labels |-> IF l \in m.include THEN right[l] ELSE matched[l]]

IsSetOperator(op) == op \in {"and", "or", "unless"}

ApplySetOperator(op, lhs, rhs, m) ==
    LET sigs(samples) == {GroupLabels(metric, m) : metric \in Metrics(samples)}
        within(samples, S) == SelectSeq(samples, LAMBDA s : GroupLabels(s.metric, m) \in S)
        outside(samples, S) == SelectSeq(samples, LAMBDA s : GroupLabels(s.metric, m) \notin S)
    IN  IF \/ m.card # "many-to-many"
           \/ m.fillLHS \o m.fillRHS # <<>>
        THEN Error("bad_data")
        ELSE Vector(CASE op = "and" -> within(lhs, sigs(rhs))
                      [] op = "or" -> lhs \o outside(rhs, sigs(lhs))
                      [] op = "unless" -> outside(lhs, sigs(rhs)))

\* The samples of the "many" side each with its partner of the "one" side, or
\* with a filled one; a sample with neither is left out.
MatchedPairs(many, one, m) ==
    LET sig(s) == GroupLabels(s.metric, m)
        partners(l) == SelectSeq(one, LAMBDA r : sig(r) = sig(l))
        filler(l) == [i \in DOMAIN m.fillRHS |-> Sample(sig(l), l.t, m.fillRHS[i])]
        sides(l) == IF partners(l) # <<>> THEN partners(l) ELSE filler(l)
    IN  FlattenSeq([i \in DOMAIN many |->
            [j \in DOMAIN sides(many[i]) |->
                [left |-> many[i], right |-> sides(many[i])[j]]]])

\* The samples of the "one" side no kept result stands for, each with a fill.
FilledPairs(one, answered, m) ==
    LET sig(s) == GroupLabels(s.metric, m)
        missing == IF m.fillLHS = <<>> THEN <<>>
                   ELSE SelectSeq(one, LAMBDA r : sig(r) \notin answered)
    IN  [i \in DOMAIN missing |->
            [left |-> Sample(sig(missing[i]), missing[i].t, Head(m.fillLHS)),
             right |-> missing[i]]]

\* Mutant: the sides of the operation are not swapped back.
UnswappedPairResults(op, pairs, m, bool) ==
    LET kept == SelectSeq(pairs, LAMBDA p :
                    ~FilteredOut(op, p.left.v, p.right.v, FALSE, bool))
    IN  [i \in DOMAIN kept |->
            LET p == kept[i]
            IN  [sig |-> GroupLabels(p.left.metric, m),
                 sample |-> Sample(ResultMetric(p.left.metric, p.right.metric, op, m, bool),
                                   p.left.t,
                                   ScalarResult(op, p.left.v, p.right.v, FALSE, bool))]]

\* The sides of the operation, of which the "one" side may be either.
LeftOperand(p, m) == IF m.card = "one-to-many" THEN p.right ELSE p.left
RightOperand(p, m) == IF m.card = "one-to-many" THEN p.left ELSE p.right

PairFilteredOut(op, p, m, bool) ==
    FilteredOut(op, LeftOperand(p, m).v, RightOperand(p, m).v, FALSE, bool)

\* What an operation makes of a pair, with its match group.
PairResult(op, p, m, bool) ==
    [sig |-> GroupLabels(p.left.metric, m),
     sample |-> Sample(ResultMetric(p.left.metric, p.right.metric, op, m, bool),
                       LeftOperand(p, m).t,
                       ScalarResult(op, LeftOperand(p, m).v, RightOperand(p, m).v, FALSE, bool))]

\* The results of the pairs a comparison does not filter out.
PairResults(op, pairs, m, bool) ==
    LET kept == SelectSeq(pairs, LAMBDA p : ~PairFilteredOut(op, p, m, bool))
    IN  [i \in DOMAIN kept |-> PairResult(op, kept[i], m, bool)]

\* Two results of one match group: never one to one, and otherwise only with
\* different label sets.
Clash(results, m) ==
    \E i, j \in DOMAIN results :
        /\ i # j
        /\ results[i].sig = results[j].sig
        /\ \/ m.card = "one-to-one"
           \/ results[i].sample.metric = results[j].sample.metric

\* The results of the pairs, and of what they left unmatched on the "one" side.
WithFilled(op, results, one, m, bool) ==
    LET answered == {results[i].sig : i \in DOMAIN results}
    IN  results \o PairResults(op, FilledPairs(one, answered, m), m, bool)

VectorOfResults(results, m) ==
    IF Clash(results, m) THEN Error("bad_data")
    ELSE Vector(InKeyOrder([i \in DOMAIN results |-> results[i].sample]))

\* applyVectorVectorBinaryInstant
ApplyVectorVectorInstant(op, lhs, rhs, m, bool) ==
    LET swapped == m.card = "one-to-many"
        many == IF swapped THEN rhs ELSE lhs
        one == IF swapped THEN lhs ELSE rhs
        ambiguous == \E i, j \in DOMAIN one :
                         i # j /\ GroupLabels(one[i].metric, m) = GroupLabels(one[j].metric, m)
        matched == PairResults(op, MatchedPairs(many, one, m), m, bool)
        fills == m.fillLHS \o m.fillRHS # <<>>
    IN  IF IsSetOperator(op) THEN ApplySetOperator(op, lhs, rhs, m)
        ELSE IF m.card = "many-to-many" THEN Error("bad_data")
        ELSE IF lhs \o rhs = <<>> \/ (~fills /\ <<>> \in {lhs, rhs}) THEN Vector(<<>>)
        ELSE IF ambiguous THEN Error("bad_data")
        ELSE VectorOfResults(WithFilled(op, matched, one, m, bool), m)

\* applyVectorVectorBinaryRange
ApplyVectorVectorRange(op, lhs, rhs, m, bool) ==
    AtEachTimestamp([t \in TimesOf(lhs) \cup TimesOf(rhs) |->
        ApplyVectorVectorInstant(op, SamplesAt(lhs, t), SamplesAt(rhs, t), m, bool)])

\* Mutant: labels do not matter.
OneSeries(series) == Len(series) = 1

\* A matrix that could be a scalar's: one series without labels.
IsRangeScalarMatrix(series) ==
    Len(series) = 1 /\ \A l \in Labels : series[1].metric[l] = Absent

\* ApplyBinaryRuntimeValue.  The parser leaves the matching out exactly when
\* a side is a scalar; in range mode the sides come as matrices and the
\* scalar has to be told from them.
ApplyBinary(op, lhs, rhs, matching, bool, t) ==
    LET m == IF matching = <<>> THEN OneToOne ELSE matching[1]
        kinds == <<lhs.kind, rhs.kind>>
        leftScalar == IsRangeScalarMatrix(lhs.series)
        rightScalar == IsRangeScalarMatrix(rhs.series)
    IN  CASE kinds = <<"scalar", "scalar">> ->
               Scalar(t, ApplyScalarBinary(op, lhs.v, rhs.v))
          [] kinds = <<"scalar", "vector">> ->
               EnsureUniqueInstant(ApplyVectorScalarInstant(op, rhs.samples, lhs.v, TRUE, bool))
          [] kinds = <<"vector", "scalar">> ->
               EnsureUniqueInstant(ApplyVectorScalarInstant(op, lhs.samples, rhs.v, FALSE, bool))
          [] kinds = <<"vector", "vector">> ->
               ApplyVectorVectorInstant(op, lhs.samples, rhs.samples, m, bool)
          [] kinds = <<"matrix", "matrix">> ->
               IF matching = <<>> /\ leftScalar /\ ~rightScalar
               THEN EnsureUniqueRange(
                        ApplyScalarMatrixRange(op, rhs.series, lhs.series[1], TRUE, bool))
               ELSE IF matching = <<>> /\ rightScalar /\ ~leftScalar
               THEN EnsureUniqueRange(
                        ApplyScalarMatrixRange(op, lhs.series, rhs.series[1], FALSE, bool))
               ELSE ApplyVectorVectorRange(op, lhs.series, rhs.series, m, bool)
          [] OTHER -> Error("execution")

----------------------------------------------------------------------------
(* Aggregations.  agg is a record: op, grouping, without, param. *)

SumOf(values) ==
    IF NaN \in ToSet(values) THEN NaN ELSE FoldLeft(LAMBDA acc, v : acc + v, 0, values)

\* The reducers, over the values of one bucket; min and max pass over NaN.
Reduce(op, values) ==
    LET numbers == ToSet(values) \ {NaN}
    IN  CASE op = "count" -> Len(values)
          [] op = "group" -> 1
          [] op = "sum" -> SumOf(values)
          [] op = "min" -> IF numbers = {} THEN NaN ELSE Min(numbers)
          [] op = "max" -> IF numbers = {} THEN NaN ELSE Max(numbers)

Values(samples) == [i \in DOMAIN samples |-> samples[i].v]

Bucket(samples, key, agg) ==
    SelectSeq(samples, LAMBDA s : AggregationMetric(s.metric, agg.grouping, agg.without) = key)

BucketKeys(items, agg) ==
    Ordered({AggregationMetric(m, agg.grouping, agg.without) : m \in Metrics(items)},
                 KeyLess)

AggregateInstant(samples, agg, t) ==
    LET keys == BucketKeys(samples, agg)
    IN  [i \in DOMAIN keys |->
            Sample(keys[i], t, Reduce(agg.op, Values(Bucket(samples, keys[i], agg))))]

\* AggregateRangeSeries: a reducer for every bucket and timestamp.
AggregateRange(series, agg) ==
    LET keys == BucketKeys(series, agg)
        own(key) == Bucket(series, key, agg)
        points(key) ==
            LET times == Ascending(TimesOf(own(key)))
            IN  [i \in DOMAIN times |->
                    [t |-> times[i],
                     v |-> Reduce(agg.op, Values(SamplesAt(own(key), times[i])))]]
    IN  [i \in DOMAIN keys |-> Series(keys[i], points(keys[i]))]

\* aggregateSampleLess: NaN last, equal values by their keys.
SampleLess(op, a, b) ==
    IF NaN \in {a.v, b.v} /\ a.v # b.v THEN b.v = NaN
    ELSE IF a.v # b.v THEN IF op = "topk" THEN a.v > b.v ELSE a.v < b.v
    ELSE KeyLess(a.metric, b.metric)

\* topk, bottomk and limitk: the first k samples of every bucket, unchanged.
SelectInstant(samples, agg) ==
    LET keys == BucketKeys(samples, agg)
        less(a, b) == IF agg.op = "limitk" THEN KeyLess(a.metric, b.metric)
                                           ELSE SampleLess(agg.op, a, b)
        first(key) == LET sorted == SortSeq(Bucket(samples, key, agg), less)
                      IN  SubSeq(sorted, 1, Min({agg.param, Len(sorted)}))
    IN  IF agg.param < 1 THEN <<>>
        ELSE FlattenSeq([i \in DOMAIN keys |-> first(keys[i])])

\* A value written as a label's value; different values, different labels.
FormatValue(v) == IF v >= 0 THEN 2 * v + 1 ELSE -2 * v

\* count_values: agg.param is the label the values become.
CountValuesInstant(samples, agg, t) ==
    LET labelled == [i \in DOMAIN samples |->
                        [samples[i] EXCEPT !.metric[agg.param] = FormatValue(samples[i].v)]]
        counted == [agg EXCEPT !.op = "count",
                               !.grouping = IF agg.without THEN @ ELSE @ \cup {agg.param}]
    IN  AggregateInstant(labelled, counted, t)

IsSelecting(op) == op \in {"topk", "bottomk", "limitk"}

\* AggregateRuntimeValue
Aggregate(value, agg, t) ==
    LET perStep(Op(_, _)) ==
            AtEachTimestamp([u \in TimesOf(value.series) |->
                                 Vector(Op(SamplesAt(value.series, u), u))])
        select(samples, u) == SelectInstant(samples, agg)
        count(samples, u) == CountValuesInstant(samples, agg, u)
    IN  CASE value.kind = "scalar" -> Error("execution")
          [] IsSelecting(agg.op) /\ agg.param = NaN -> Error("bad_data")
          [] value.kind = "vector" ->
               Vector(IF IsSelecting(agg.op) THEN SelectInstant(value.samples, agg)
                      ELSE IF agg.op = "count_values"
                      THEN CountValuesInstant(value.samples, agg, t)
                      ELSE AggregateInstant(value.samples, agg, t))
          [] OTHER ->
               IF IsSelecting(agg.op) THEN perStep(select)
               ELSE IF agg.op = "count_values" THEN perStep(count)
               ELSE Matrix(AggregateRange(value.series, agg))

----------------------------------------------------------------------------
(* label_replace and label_join. *)

\* A replacement is a record: dst, src, except (the values of src that the
\* regular expression does not match), to (the value written, 0 when the
\* expansion is empty, -1 for the source's own).
Relabelled(metric, r) ==
    LET source == IF r.src = Absent THEN Absent ELSE metric[r.src]
    IN  IF source \in r.except THEN metric
        ELSE [metric EXCEPT ![r.dst] = IF r.to = -1 THEN source ELSE r.to]

\* label_join of the labels of r.srcs with a separator that is not empty: a
\* value of its own for each combination of theirs, missing ones included.
Joined(metric, r) ==
    LET digits == FoldLeft(LAMBDA acc, l : 8 * acc + metric[l], 0, r.srcs)
    IN  [metric EXCEPT ![r.dst] = digits + 1]

ApplyRelabelling(value, func, r) ==
    LET New(metric) == IF func = "label_replace" THEN Relabelled(metric, r)
                       ELSE Joined(metric, r)
        samples == [i \in DOMAIN value.samples |->
                       [value.samples[i] EXCEPT !.metric = New(@)]]
        series == [i \in DOMAIN value.series |->
                      [value.series[i] EXCEPT !.metric = New(@)]]
    IN  IF value.kind = "vector"
        THEN IF HasTwins(samples) THEN Error("execution") ELSE Vector(InKeyOrder(samples))
        ELSE IF value.kind = "matrix" THEN Merged(series, "execution")
        ELSE Error("execution")

----------------------------------------------------------------------------
(* Functions of an instant vector or a scalar. *)

ApplyVectorFunction(value) ==
    IF value.kind = "scalar"
    THEN Vector(<<Sample(NoLabels, value.t, value.v)>>)
    ELSE Error("unsupported")

ApplyScalarFunction(value, t) ==
    IF value.kind # "vector" THEN Error("unsupported")
    ELSE Scalar(t, IF Len(value.samples) = 1 THEN value.samples[1].v ELSE NaN)

\* To a multiple, halves away from zero.
Rounded(v, to) ==
    LET size == IF v < 0 THEN -v ELSE v
        nearest == ((2 * size + to) \div (2 * to)) * to
    IN  IF v = NaN THEN NaN ELSE IF v < 0 THEN -nearest ELSE nearest

\* applyPointwiseSample and ApplyRound, where a bound that is NaN makes a clamp's result NaN.
PointwiseValue(func, s, bounds) ==
    CASE func = "abs" -> IF s.v = NaN THEN NaN ELSE IF s.v < 0 THEN -s.v ELSE s.v
      [] func = "sgn" -> IF s.v = NaN \/ s.v = 0 THEN s.v ELSE IF s.v < 0 THEN -1 ELSE 1
      [] func = "timestamp" -> s.t
      [] func = "round" -> Rounded(s.v, bounds[1])
      [] func = "clamp_min" -> IF NaN \in {s.v, bounds[1]} THEN NaN ELSE Max({s.v, bounds[1]})
      [] func = "clamp_max" -> IF NaN \in {s.v, bounds[1]} THEN NaN ELSE Min({s.v, bounds[1]})
      [] func = "clamp" -> IF NaN \in {s.v, bounds[1], bounds[2]} THEN NaN
                           ELSE Max({bounds[1], Min({bounds[2], s.v})})

\* ApplyPointwiseFunction: the name goes, and nothing looks whether two label
\* sets became one.
ApplyPointwise(func, value, bounds) ==
    LET none == func = "clamp" /\ NaN \notin ToSet(bounds) /\ bounds[2] < bounds[1]
        kept == IF none THEN <<>> ELSE value.samples
    IN  IF value.kind # "vector" THEN Error("unsupported")
        ELSE Vector(InKeyOrder([i \in DOMAIN kept |->
                 Sample(DropMetricName(kept[i].metric), kept[i].t,
                        PointwiseValue(func, kept[i], bounds))]))

----------------------------------------------------------------------------
(* Sorting. *)

\* compareByValue: NaN last, whichever way it goes, and equal values by their
\* keys.
ByValue(a, b, descending) ==
    IF a.v = b.v THEN KeyLess(a.metric, b.metric)
    ELSE IF NaN \in {a.v, b.v} THEN b.v = NaN
    ELSE IF descending THEN a.v > b.v ELSE a.v < b.v

\* compareByLabels: the first label that tells two samples apart, of those
\* given and then of all.
ByLabels(a, b, labels, descending) ==
    LET differing == {i \in DOMAIN labels : a.metric[labels[i]] # b.metric[labels[i]]}
        first == labels[Min(differing)]
        less == IF differing = {} THEN KeyLess(a.metric, b.metric)
                ELSE a.metric[first] < b.metric[first]
    IN  a.metric # b.metric /\ (less # descending)

SortsByValue(func) == func \in {"sort", "sort_desc"}

ApplySortFunction(func, value, labels) ==
    LET descending == func \in {"sort_desc", "sort_by_label_desc"}
        before(a, b) == IF SortsByValue(func) THEN ByValue(a, b, descending)
                        ELSE ByLabels(a, b, labels, descending)
    IN  IF value.kind # "vector" THEN Error("unsupported")
        ELSE Vector(SortSeq(value.samples, before))

----------------------------------------------------------------------------
(* What is absent. *)

ApplyAbsent(value, metric, t) ==
    IF value.kind # "vector" THEN Error("unsupported")
    ELSE Vector(IF value.samples = <<>> THEN <<Sample(metric, t, 1)>> ELSE <<>>)

ApplyAbsentOverTime(value, metric, t) ==
    IF value.kind # "matrix" THEN Error("unsupported")
    ELSE Vector(IF \A s \in ToSet(value.series) : s.points = <<>>
                THEN <<Sample(metric, t, 1)>> ELSE <<>>)

----------------------------------------------------------------------------
(* Functions of a range. *)

\* How often the values fall from one to the next that is no NaN, or change.
Falls(values) ==
    LET numbers == SelectSeq(values, LAMBDA v : v # NaN)
    IN  Cardinality({i \in 2 .. Len(numbers) : numbers[i] < numbers[i - 1]})

ChangesIn(values) ==
    Cardinality({i \in 2 .. Len(values) : values[i] # values[i - 1]})

\* The position of the extreme point, the last one of equals; NaN is passed
\* over unless there is nothing else.
BestPoint(points, least) ==
    LET better(a, b) == IF least THEN a < b ELSE a > b
        numbers == {i \in DOMAIN points : points[i].v # NaN}
        best == {i \in numbers : \A j \in numbers : ~better(points[j].v, points[i].v)}
    IN  IF numbers = {} THEN Len(points) ELSE Max(best)

\* The value of a range function over one series' points, as a sequence that
\* is empty when the series is passed over.
RangeValue(func, points) ==
    LET values == [i \in DOMAIN points |-> points[i].v]
        hasNaN == NaN \in ToSet(values)
        n == Len(points)
    IN  CASE func = "sum_over_time" -> <<SumOf(values)>>
          [] func = "max_over_time" -> <<IF hasNaN THEN NaN ELSE Reduce("max", values)>>
          [] func = "min_over_time" -> <<IF hasNaN THEN NaN ELSE Reduce("min", values)>>
          [] func = "count_over_time" -> <<n>>
          [] func = "present_over_time" -> <<1>>
          [] func = "last_over_time" -> <<points[n].v>>
          [] func = "first_over_time" -> <<points[1].v>>
          [] func = "resets" -> <<Falls(values)>>
          [] func = "changes" -> <<IF hasNaN /\ n > 1 THEN NaN ELSE ChangesIn(values)>>
          [] func = "idelta" ->
               IF n < 2 THEN <<>>
               ELSE <<ApplyScalarBinary("-", points[n].v, points[n - 1].v)>>
          [] func = "ts_of_last_over_time" -> <<points[n].t>>
          [] func = "ts_of_first_over_time" -> <<points[1].t>>
          [] func = "ts_of_max_over_time" ->
               <<points[BestPoint(points, FALSE)].t>>
          [] func = "ts_of_min_over_time" ->
               <<points[BestPoint(points, TRUE)].t>>

KeepsName(func) == func \in {"last_over_time", "first_over_time"}

\* ApplyRangeFunctionInstant, ApplyChanges, ApplyIDelta: one sample for every
\* series with points, at the time of its last point.  (Some of the first are
\* at another point's time; their plan node replaces it.)
ApplyRangeFunction(func, value) ==
    LET metric(s) == IF KeepsName(func) THEN s.metric ELSE DropMetricName(s.metric)
        last(s) == s.points[Len(s.points)].t
        result(s) == LET vs == IF s.points = <<>> THEN <<>> ELSE RangeValue(func, s.points)
                     IN  [i \in DOMAIN vs |-> Sample(metric(s), last(s), vs[i])]
    IN  IF value.kind # "matrix" THEN Error("unsupported")
        ELSE Vector(InKeyOrder(FlattenSeq([i \in DOMAIN value.series |->
                                              result(value.series[i])])))
=============================================================================
