---------------------------- MODULE QueryAnswers ----------------------------
(***************************************************************************)
(* Queries answered: recording rules are loaded one after another, a query *)
(* is asked for one time or for a range, rewritten by the rules loaded so  *)
(* far and the optimizer, planned in the request's lowering mode, and      *)
(* evaluated, by ClickHouse's statements and the local executor.  The      *)
(* store does not change meanwhile.  Once a request is answered it is read *)
(* again in other ways, each of which has to come to the same.             *)
(***************************************************************************)
EXTENDS NativePlan

CONSTANTS
    Stores,         \* the contents of ClickHouse: sequences of series
    Rules,          \* the recording rules the files may hold
    RuleTimes,      \* when the rules would have been evaluated and recorded
    Requests,       \* what is asked: a query as parsed, its times, its mode
    Strategies      \* how a selector's range statement may be written

ASSUME RequestsAssumption == \A r \in Requests : r.mode \in Modes
ASSUME StrategiesAssumption == Strategies \subseteq {"asof", "bucketed"}

VARIABLES
    store,          \* what ClickHouse holds
    registry,       \* the rules loaded
    loaded,         \* which rules were met while loading, in any order
    query,          \* <<>>, or the request under way
    rewritten,      \* <<>>, or what its query was rewritten to
    plan,           \* <<>>, or the plan made of that
    answer,         \* <<>>, or the value it evaluated to
    recorded,       \* what the rules' expressions answer at each of their times
    reread          \* <<>>, or what the request answers when it is read again

vars == <<store, registry, loaded, query, rewritten, plan, answer, recorded, reread>>

Params == query[1].params

Init ==
    /\ store \in Stores
    /\ recorded = [rule \in Rules |-> [t \in RuleTimes |-> Eval(store, LogicalPlan(rule.expr), Instant(t))]]
    /\ registry = EmptyRegistry
    /\ loaded = {}
    /\ query = <<>>
    /\ rewritten = <<>>
    /\ plan = <<>>
    /\ answer = <<>>
    /\ reread = <<>>

\* A rule read from the next file; a file may hold one again.
Load(rule) ==
    /\ query = <<>>
    /\ registry' = AddRule(registry, rule)
    /\ loaded' = loaded \cup {rule}
    /\ UNCHANGED <<store, query, rewritten, plan, answer, recorded, reread>>

Ask(request) ==
    /\ query = <<>>
    /\ query' = <<request>>
    /\ UNCHANGED <<store, registry, loaded, rewritten, plan, answer, recorded, reread>>

\* What a query means by itself, once its rules are expanded.
Expanded ==
    LET expr == ExpandExpr(query[1].expr, registry)
    IN  IF IsRefused(expr) THEN expr ELSE LogicalPlan(expr)

\* The rules are expanded, the logical plan built and optimized before a plan
\* is made; a query refused on the way is not evaluated.
Rewrite ==
    /\ query # <<>> /\ rewritten = <<>>
    /\ rewritten' = <<Optimize(Expanded)>>
    /\ UNCHANGED <<store, registry, loaded, query, plan, answer, recorded, reread>>

BuildPlan(strategy) ==
    /\ rewritten # <<>> /\ plan = <<>>
    /\ ~IsRefused(rewritten[1])
    /\ plan' = <<ExecutionPlan(rewritten[1], query[1].mode, Params.mode, strategy)>>
    /\ UNCHANGED <<store, registry, loaded, query, rewritten, answer, recorded, reread>>

Evaluate ==
    /\ plan # <<>> /\ answer = <<>>
    /\ answer' = <<Eval(store, plan[1], query[1].params)>>
    /\ UNCHANGED <<store, registry, loaded, query, rewritten, plan, recorded, reread>>

----------------------------------------------------------------------------
(* The ways to read a request again.  A reading is a plan to be evaluated  *)
(* over a store at a time or over a range.                                 *)

Reading(data, p, params) == [store |-> data, plan |-> p, params |-> params]

RECURSIVE Pinned(_, _)

\* A query whose start() and end() are those of a range.
Pinned(p, params) ==
    LET pin(at) == CASE at.kind = "start" -> [kind |-> "fixed", t |-> params.start]
                     [] at.kind = "end" -> [kind |-> "fixed", t |-> params.end]
                     [] OTHER -> at
    IN  CASE p.node \in {"selector", "window"} -> [p EXCEPT !.at = pin(@)]
          [] p.node = "subquery" -> [p EXCEPT !.at = pin(@), !.child = Pinned(@, params)]
          [] p.node \in {"literal", "time"} -> p
          [] p.node = "binary" -> [p EXCEPT !.lhs = Pinned(@, params),
                                            !.rhs = Pinned(@, params)]
          [] OTHER -> [p EXCEPT !.child = Pinned(@, params)]

\* Asked for each of the times of a range.
AtEachStep ==
    IF Params.mode = "instant" THEN <<>>
    ELSE [t \in Steps(Params) |-> Reading(store, Pinned(rewritten[1], Params), Instant(t))]

IsGroupRight(p) == /\ p.node = "binary" /\ p.matching # <<>>
                   /\ p.matching[1].card = "one-to-many"
                   /\ p.op # "-" /\ (IsComparison(p.op) => p.bool)

\* An operation with group_right as the same one with its sides, and its
\* comparison, turned round and group_left.
TurnedRound ==
    LET p == rewritten[1]
        turned == [p EXCEPT !.lhs = p.rhs, !.rhs = p.lhs, !.op = Mirrored(@),
                            !.matching[1].card = "many-to-one"]
    IN  IF ~IsGroupRight(p) THEN <<>>
        ELSE <<Reading(store, ExecutionPlan(turned, query[1].mode, Params.mode, "asof"), Params)>>

RECURSIVE RulesIn(_, _)

\* The rules of some whose names a query's selectors ask for.
RulesIn(expr, rules) ==
    IF expr.node \in {"selector", "window"}
    THEN {rule \in rules : rule.name = SelectorName(expr)}
    ELSE UNION {RulesIn(Subexpressions(expr)[i], rules) : i \in DOMAIN Subexpressions(expr)}

Named == SetToSeq(RulesIn(query[1].expr, loaded))

\* The samples of a rule at a time, under its name and labels.
RecordedAt(rule, t) ==
    LET metric(m) == (MetricName :> rule.name) @@ rule.labels @@ rule.groupLabels @@ m
        samples == recorded[rule][t].samples
    IN  [i \in DOMAIN samples |-> [samples[i] EXCEPT !.metric = metric(@)]]

CannotBeRecorded(rule) ==
    \E t \in RuleTimes : Failed(recorded[rule][t]) \/ HasTwins(RecordedAt(rule, t))

\* The series a rule would have been recorded as, with a marker at each time
\* where it has no sample.
RecordedSeries(rule) ==
    LET order == Ascending(RuleTimes)
        known == Ordered(UNION {Metrics(RecordedAt(rule, t)) : t \in RuleTimes}, KeyLess)
        valueAt(m, t) == LET own == SelectSeq(RecordedAt(rule, t), LAMBDA s : s.metric = m)
                         IN  IF own = <<>> THEN NaN ELSE own[1].v
        points(m) == [i \in DOMAIN order |-> [t |-> order[i], v |-> valueAt(m, order[i])]]
    IN  [i \in DOMAIN known |-> Series(known[i], points(known[i]))]

\* The query as it is sent, over a store that holds its rules too.
OverRecorded ==
    IF Named = <<>> \/ \E i \in DOMAIN Named : CannotBeRecorded(Named[i]) THEN <<>>
    ELSE LET series == FlattenSeq([i \in DOMAIN Named |-> RecordedSeries(Named[i])])
         IN  <<Reading(store \o series, LogicalPlan(query[1].expr), Params)>>

Unoptimized ==
    IF query[1].mode # "off" THEN <<>>
    ELSE <<Reading(store, Expanded, Params)>>

\* Everything but the selectors evaluated in the process.
Locally == <<Reading(store, rewritten[1], Params)>>

RECURSIVE JoinsIn(_)

\* The operations of a plan that match samples one to one or to many.
JoinsIn(p) ==
    CASE p.node \in {"selector", "window", "literal", "time"} -> {}
      [] p.node = "binary" ->
           {j \in {p} : j.matching # <<>> /\ ~IsSetOperator(j.op)}
               \cup JoinsIn(p.lhs) \cup JoinsIn(p.rhs)
      [] OTHER -> JoinsIn(p.child)

\* The sides of a query's joins, each by itself at each time.
Sides ==
    [k \in AnswerTimes(Params) \X JoinsIn(rewritten[1]) \X {"lhs", "rhs"} |->
        Reading(store, Pinned(k[2][k[3]], Params), Instant(k[1]))]

\* A count of a subquery's steps as the counts over its two halves.
Halves ==
    LET p == plan[1]
        half == [p EXCEPT !.child.range = @ \div 2]
        counts == p.node = "over_time" /\ p.func = "count_over_time" /\ p.child.node = "subquery"
    IN  IF Params.mode = "range" \/ query[1].mode # "off" \/ ~counts THEN <<>>
        ELSE <<Reading(store, half, Instant(Params.t - p.child.range \div 2)),
               Reading(store, half, Params)>>

Readings ==
    [steps |-> AtEachStep, turned |-> TurnedRound, recorded |-> OverRecorded,
     unoptimized |-> Unoptimized, locally |-> Locally, sides |-> Sides, halves |-> Halves]

----------------------------------------------------------------------------

\* No step of the program: what the properties are stated with.
Reread ==
    /\ answer # <<>> /\ reread = <<>>
    /\ \E rs \in {Readings} :
           reread' = <<[way \in DOMAIN rs |->
                           [k \in DOMAIN rs[way] |->
                               Eval(rs[way][k].store, rs[way][k].plan, rs[way][k].params)]]>>
    /\ UNCHANGED <<store, registry, loaded, query, rewritten, plan, answer, recorded>>

Reply ==
    /\ \/ reread # <<>>
       \/ rewritten # <<>> /\ IsRefused(rewritten[1])
    /\ query' = <<>> /\ rewritten' = <<>> /\ plan' = <<>> /\ answer' = <<>> /\ reread' = <<>>
    /\ UNCHANGED <<store, registry, loaded, recorded>>

Next ==
    \/ \E rule \in DOMAIN recorded : Load(rule)
    \/ query = <<>> /\ \E request \in Requests : Ask(request)
    \/ Rewrite
    \/ \E strategy \in Strategies : BuildPlan(strategy)
    \/ Evaluate
    \/ Reread
    \/ Reply

Spec == Init /\ [][Next]_vars

----------------------------------------------------------------------------
(* Answers compared. *)

Answered == reread # <<>>
Again == reread[1]

\* A range query answers, at each of its steps and at no other time, what the
\* instant query would answer there, evaluated locally, and fails locally only
\* when one of them does.
\* The nodes of a plan come to a range in different ways (whole matrices
\* combined by timestamp, or an instant evaluation a step), and a scalar is
\* no longer to be told from a vector by its type.
RangeIsInstantAtEveryStep ==
    Answered /\ Params.mode = "range" =>
        LET instant == Again.steps
        IN  IF Failed(answer[1])
            THEN query[1].mode = "off" => \E t \in Steps(Params) : Failed(instant[t])
            ELSE /\ TimesOf(answer[1].series) \subseteq Steps(Params)
                 /\ \A t \in Steps(Params) :
                        ~Failed(instant[t]) /\ At(answer[1], t) = At(instant[t], t)

\* An operation with group_right answers as the same one with its sides, and
\* its comparison, turned round and group_left: which side is the "one" and
\* which labels and values come from which is kept track of across the swap.
MatchingMirrors ==
    Answered => \A k \in DOMAIN Again.turned :
                    Same(answer[1], Again.turned[k], AnswerTimes(Params))

RECURSIVE PartsOf(_)

PartsOf(expr) ==
    {expr} \cup UNION {PartsOf(Subexpressions(expr)[i]) : i \in DOMAIN Subexpressions(expr)}

RefusedForItsRules ==
    /\ rewritten # <<>>
    /\ IsRefused(rewritten[1]) /\ ~IsRefused(LogicalPlan(query[1].expr))

\* What has no answer without a rule's history or the labels of its series.
NeedsRecording(expr) ==
    /\ RulesIn(expr, loaded) # {}
    /\ \/ expr.node \in {"window", "subquery"}
       \/ expr.node = "selector" /\ \E i \in DOMAIN expr.matchers : expr.matchers[i].type # "="

NameStandsForTwo ==
    \E i, j \in DOMAIN Named : i # j /\ Named[i].name = Named[j].name

\* A query over recording rules answers, when it is rewritten and evaluated
\* over the raw series, what it would answer if the rules had been recorded
\* all along.  It is not evaluated when a name stands for two rules; and what is
\* put in for the names makes no query one that is not supported, unless it asks for
\* what only the recorded series would tell.
ExpansionKeepsMeaning ==
    /\ Answered =>
           /\ ~NameStandsForTwo
           /\ \A k \in DOMAIN Again.recorded :
                  Same(answer[1], Again.recorded[k], AnswerTimes(Params))
    /\ RefusedForItsRules =>
           NameStandsForTwo \/ \E expr \in PartsOf(query[1].expr) : NeedsRecording(expr)

\* A query answers locally what it answers unoptimized.  Minus signs and averages are
\* not the identity on label sets: they take the metric's name away, and two
\* of them may make two series one.
OptimizerKeepsMeaning ==
    Answered => \A k \in DOMAIN Again.unoptimized :
                    Same(answer[1], Again.unoptimized[k], AnswerTimes(Params))

\* The samples of two answers come in one order, as far as a sort says anything
\* of it.
SameOrder(sort, a, b) ==
    LET sortedBy(s) == IF SortsByValue(sort.func) THEN <<s.v>>
                       ELSE [i \in DOMAIN sort.labels |-> s.metric[sort.labels[i]]]
    IN  /\ Len(a.samples) = Len(b.samples)
        /\ \A i \in DOMAIN a.samples : sortedBy(a.samples[i]) = sortedBy(b.samples[i])

\* What is answered through ClickHouse's statements is what the local executor
\* makes of the samples by itself: the same samples at the same times and none
\* at any other, whatever part of the query is handed over, and what is sorted in
\* the same order.  The code writes every operator down twice, once in Go and
\* once in SQL.
LoweringKeepsMeaning ==
    Answered /\ ~Failed(answer[1]) =>
        /\ Same(answer[1], Again.locally[1], AnswerTimes(Params))
        /\ answer[1].kind = "matrix" => TimesOf(answer[1].series) \subseteq Steps(Params)
        /\ rewritten[1].node = "sort" /\ answer[1].kind = "vector" =>
               SameOrder(rewritten[1], answer[1], Again.locally[1])

RECURSIVE HandedOver(_)

\* The parts of a plan that ClickHouse answers.
HandedOver(p) ==
    IF p.node = "native" THEN {p.child}
    ELSE UNION {HandedOver(Under(p)[i]) : i \in DOMAIN Under(p)}

RECURSIVE RangesLowered(_)

\* The ranges of samples a statement makes arrays of, for the functions that do
\* not read the samples themselves.
RangesLowered(p) ==
    {r \in ToSet(Under(p)) : r.node = "window" /\ ~(p.node = "over_time" /\ HasRowsPath(p.func))}
    \cup UNION {RangesLowered(Under(p)[i]) : i \in DOMAIN Under(p)}

\* A statement for one time with such a range in it that is there twice.
RepeatsRange(p) ==
    \E r \in RangesLowered(p) : Fingerprint(r) \in SharedSelectors(p)

\* Handing a query over loses no answer, with two exceptions.  Where a side of a join
\* that may have one sample for each match group has two, the statement throws even
\* when nothing is there to be joined with them; and a statement for one time throws
\* when it has arrays of one range of samples twice.
LoweringRefusesLittle ==
    Answered /\ Failed(answer[1]) /\ ~Failed(Again.locally[1]) =>
        \/ \E j \in JoinsIn(rewritten[1]), t \in AnswerTimes(Params) :
               AmbiguousSides(Again.sides[t, j, "lhs"].samples, Again.sides[t, j, "rhs"].samples,
                              j.matching[1])
        \/ Params.mode = "instant" /\ \E p \in HandedOver(plan[1]) : RepeatsRange(p)

\* Two windows of a subquery end to end count what one of their joint length
\* counts: no step falls between them and none is counted in both.
WindowsTile ==
    LET count(value, m) == LET own == SelectSeq(value.samples, LAMBDA s : s.metric = m)
                           IN  IF own = <<>> THEN 0 ELSE own[1].v
    IN  Answered /\ Again.halves # <<>> /\ ~Failed(answer[1]) =>
            \A m \in UNION {Metrics(v.samples) : v \in {answer[1], Again.halves[1]}} :
                count(answer[1], m) = count(Again.halves[1], m) + count(Again.halves[2], m)

\* No answer holds two samples of one label set at one time: an operator that
\* takes labels away either reports what falls together or adds it up.  (The
\* functions that only take the name away do neither: the queries here give
\* them one metric at a time.)
LabelsetsUnique ==
    Answered /\ ~Failed(answer[1]) =>
        \A t \in AnswerTimes(Params) :
            \A a, b \in DOMAIN At(answer[1], t) :
                /\ At(answer[1], t)[a] = 1
                /\ a[1] = b[1] => a = b
=============================================================================
