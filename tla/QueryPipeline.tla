---------------------------- MODULE QueryPipeline ----------------------------
(***************************************************************************)
(* One PromQL query on its way through promshim (InstantQuery and          *)
(* RangeQuery in internal/promshim/service.go with the cost routing, the   *)
(* fallback after a failed execution and the two kinds of shadow runs):    *)
(* which plans are built and evaluated in which order, at which instant,   *)
(* and what is answered.                                                   *)
(*                                                                         *)
(* Of a plan only its kind is kept: the whole query delegated to           *)
(* ClickHouse, one native SQL query, a local tree with native parts, or a  *)
(* local tree.  A result is the instant it was computed for and its number *)
(* of series; every plan of a query computes the same result, so that a    *)
(* difference between two runs is of the pipeline's own making.  What      *)
(* changes under the query is the clock and its context, which may be      *)
(* cancelled or run out at any moment.                                     *)
(***************************************************************************)
EXTENDS CostRouting, Sequences, FiniteSets

CONSTANTS
    ConfModes, ReqModes,        \* native lowering modes: configured, requested
    ConfPolicies, ReqPolicies,  \* routing policies: configured, requested
    Overrides,                  \* values of AllowRequestRoutingOverrides
    Shapes,                     \* what can be planned: see Planned
    MaxSeries,                  \* MaxResponseSeries
    Limits,                     \* values of ?limit=, 0 for none
    MaxTime,                    \* bound on the clock
    Classes                     \* what is known of a query's cost: see Route

Modes == {"off", "prefer", "explain", "shadow", "force_supported", "local_pushdown"}
Policies == {"strict", "cost_shadow", "cost_prefer"}
Plans == {"delegated", "native", "hybrid", "local"}
Outcomes == {"ok", "execution", "client", "cancelled"}
ShapeType == [delegable : BOOLEAN, native : BOOLEAN, hybrid : BOOLEAN, local : BOOLEAN]

ASSUME PipelineAssumption ==
    /\ ConfModes \subseteq Modes /\ ReqModes \subseteq Modes \cup {""}
    /\ ConfPolicies \subseteq Policies /\ ReqPolicies \subseteq Policies \cup {""}
    /\ Overrides \subseteq BOOLEAN
    /\ Shapes \subseteq ShapeType /\ Classes \subseteq ClassType
    /\ \A c \in Classes : c.series # 0 => c.estimates = "fresh"
    /\ MaxSeries \in Nat \ {0} /\ Limits \subseteq Nat /\ MaxTime \in Nat

VARIABLES
    conf,           \* the configuration: mode, policy, overrides
    req,            \* the request: mode, policy, limit; whether ?time= is given
    query,          \* its shape and the series of its result
    clock, gone,    \* the time; the request's context is done
    pc, mode, policy,
    plan, at,       \* the plan to evaluate, the instant to evaluate it for
    routing,        \* httpapi.RoutingInfo
    error,          \* why the evaluation failed
    value, answer,  \* the result; the result once it passed the limits
    altAt,          \* the instant of the shadow run
    response,       \* what the client got
    tried,          \* (history) evaluations that served: plan, instant, outcome
    fallback,       \* outcome of the execution fallback
    shadowed        \* what the shadow run recorded

input == <<conf, req, query>>
env == <<clock, gone>>
vars == <<input, env, pc, mode, policy, plan, at, routing, error, value, answer,
          altAt, response, tried, fallback, shadowed>>

None == [status |-> "none"]
Unknown == [endpoint |-> "query", family |-> "unknown", flags |-> {}, selectors |-> 0,
            perSeries |-> 0, estimates |-> "missing", series |-> 0, samples |-> 0,
            points |-> 0]
Unrouted == [decision |-> "none", strict |-> "none", would |-> "none",
             selected |-> "none", servedCandidate |-> "none", class |-> Unknown]
NoValue == [at |-> -1, series |-> -1]

Init ==
    /\ conf \in [mode : ConfModes, policy : ConfPolicies, overrides : Overrides]
    /\ req \in [mode : ReqModes, policy : ReqPolicies, limit : Limits, timed : BOOLEAN]
    /\ query \in [shape : Shapes, series : 0..(MaxSeries + 1)]
    /\ clock = 0 /\ gone = FALSE
    /\ pc = "start" /\ mode = "prefer" /\ policy = "strict"
    /\ plan = "none" /\ at = 0 /\ routing = Unrouted /\ error = "none"
    /\ value = NoValue /\ answer = NoValue /\ altAt = 0
    /\ response = None /\ tried = <<>>
    /\ fallback = "none" /\ shadowed = "none"

-----------------------------------------------------------------------------
(* Planning                                                                 *)

Refused == "refused"

(* nativeLoweringModeForRequest, also for the requests promshim makes up.   *)
ModeFor(requested) ==
    IF requested = "" THEN conf.mode
    ELSE IF conf.overrides THEN requested ELSE Refused

(* routingPolicyForRequest                                                  *)
PolicyFor(requested) ==
    IF requested = "" THEN conf.policy
    ELSE IF conf.overrides THEN requested ELSE Refused

(* The plan a mode leads to; "none" when it cannot be built or, under       *)
(* force_supported, has no native root.                                     *)
Adaptive(m) == m \in {"prefer", "explain"}
Planned(m) ==
    LET s == query.shape IN
    IF Adaptive(m) /\ s.delegable THEN "delegated"
    ELSE IF (Adaptive(m) \/ m = "force_supported") /\ s.native THEN "native"
    ELSE IF m # "force_supported" /\ m # "off" /\ s.hybrid THEN "hybrid"
    ELSE IF m # "force_supported" /\ s.local THEN "local"
    ELSE "none"

NotRefused(m) == m # Refused
Builds(m) == m # Refused /\ Planned(m) # "none"

(* Without ?time= each planning reads the clock anew.                       *)
Instant == IF req.timed THEN 0 ELSE clock

Strategy(p) ==
    CASE p = "delegated" -> "delegated_promql"
      [] p = "native" -> "native_sql"
      [] p \in {"hybrid", "local"} -> "local"
Candidate(strategy) ==
    CASE strategy = "delegated_promql" -> "whole_query_delegation"
      [] strategy = "native_sql" -> "native_sql"
      [] strategy = "local" -> IF mode = "local_pushdown" THEN "local_pushdown"
                               ELSE "full_local"

(* candidateNativeMode: the mode a copy of the request asks for to have a   *)
(* candidate planned.  selectedCandidateMode knows it of three only.        *)
Executable == {"native_sql", "local_pushdown", "full_local"}
ModeOf(candidate) ==
    CASE candidate = "native_sql" -> "force_supported"
      [] candidate = "local_pushdown" -> "local_pushdown"
      [] candidate = "full_local" -> "off"
      [] OTHER -> "prefer"

-----------------------------------------------------------------------------
(* A request comes in                                                       *)

Respond(status) ==
    /\ response' = [status |-> status]
    /\ pc' = "done"

Start ==
    /\ pc = "start"
    /\ IF ModeFor(req.mode) = Refused \/ PolicyFor(req.policy) = Refused
       THEN Respond("override_disabled") /\ UNCHANGED <<mode, policy>>
       ELSE /\ mode' = ModeFor(req.mode)
            /\ policy' = PolicyFor(req.policy)
            /\ pc' = "plan"
            /\ UNCHANGED response
    /\ UNCHANGED <<input, env, plan, at, routing, error, value, answer, altAt,
                   tried, fallback, shadowed>>

(* buildInstantPlan and buildRangePlan.  In the mode shadow the request is  *)
(* served by a copy of it that asks for the mode off.                       *)
PlanningMode == IF mode = "shadow" THEN ModeFor("off") ELSE ModeFor(req.mode)
Build ==
    /\ pc = "plan"
    /\ IF Builds(PlanningMode)
       THEN /\ plan' = Planned(PlanningMode)
            /\ at' = Instant
            /\ pc' = IF mode = "shadow" THEN "evaluate" ELSE "route"
            /\ UNCHANGED response
       ELSE /\ Respond(IF PlanningMode = Refused THEN "override_disabled" ELSE "client")
            /\ UNCHANGED <<plan, at>>
    /\ UNCHANGED <<input, env, mode, policy, routing, error, value, answer, altAt,
                   tried, fallback, shadowed>>

-----------------------------------------------------------------------------
(* Cost routing, by the class of the query                                  *)

IgnoresCostUnlessForced(m) == m \in {"off", "shadow", "local_pushdown"}
IgnoresCost(m) == m \in {"force_supported", "off", "shadow", "local_pushdown"}

(* Only cost_shadow lets a light subquery over its cap go on.               *)
OverCap(c) == CapHits(c) # {} /\ ~(policy = "cost_shadow" /\ ShadowBypass(c))

(* Why the strict plan stays, or that local might win.                      *)
Judgement(c, strict) ==
    IF strict = "delegated_promql" THEN "strict_low_confidence"
    ELSE IF MissingEstimate(c) THEN "strict_missing_estimate"
    ELSE IF OverCap(c) THEN "strict_over_cap"
    ELSE IF LocalCandidate(c) /\ PredictedWin(c, strict) THEN "local"
    ELSE "strict_low_confidence"

WheneverLocalWins(c, strict) ==
    /\ FamilyEnabled(c) /\ ServesLocally(c)
    /\ strict # "local"
OverridesLocally(c, strict) ==
    /\ policy = "cost_prefer"
    /\ FamilyEnabled(c) /\ ServesLocally(c)
    /\ strict # "local"
Decide(c, strict) ==
    IF IgnoresCost(mode) \/ policy = "strict"
    THEN [decision |-> "strict", would |-> strict, selected |-> strict]
    ELSE IF Judgement(c, strict) # "local"
    THEN [decision |-> Judgement(c, strict), would |-> strict, selected |-> strict]
    ELSE IF OverridesLocally(c, strict)
    THEN [decision |-> "local_override", would |-> "local", selected |-> "local"]
    ELSE IF policy = "cost_prefer"
    THEN [decision |-> "strict_low_confidence", would |-> strict, selected |-> strict]
    ELSE [decision |-> "shadow_only", would |-> "local", selected |-> strict]

(* The candidate named as served is worked out here, from the selection.    *)
Route ==
    /\ pc = "route"
    /\ \E c \in Classes :
          LET d == Decide(c, Strategy(plan)) IN
          /\ routing' = [decision |-> d.decision, strict |-> plan, would |-> d.would,
                         selected |-> d.selected, class |-> c,
                         servedCandidate |-> Candidate(d.selected)]
          /\ pc' = IF d.decision = "local_override" THEN "replan" ELSE "estimate"
    /\ UNCHANGED <<input, env, mode, policy, plan, at, error, value, answer, altAt,
                   response, tried, fallback, shadowed>>

(* selectInstantPlanForRouting: a copy of the request asks for the mode of  *)
(* the candidate.  When that cannot be had the decision is taken back.      *)
Overriding == Candidate(routing.would)
Revoked(r) ==
    [r EXCEPT !.decision = "strict_low_confidence", !.selected = Strategy(plan)]
JudgeAnew == "route"
AfterReplan == "estimate"
Replan ==
    /\ pc = "replan"
    /\ IF Overriding \in Executable /\ Builds(ModeFor(ModeOf(Overriding)))
       THEN plan' = Planned(ModeOf(Overriding)) /\ UNCHANGED routing
       ELSE routing' = Revoked(routing) /\ UNCHANGED plan
    /\ pc' = AfterReplan
    /\ UNCHANGED <<input, env, mode, policy, at, error, value, answer, altAt, response,
                   tried, fallback, shadowed>>

(* enforceEstimatedResponseLimits                                           *)
Estimate ==
    /\ pc = "estimate"
    /\ IF ~MissingEstimate(routing.class) /\ routing.class.series > MaxSeries
       THEN Respond("estimated_over_limit")
       ELSE pc' = "evaluate" /\ UNCHANGED response
    /\ UNCHANGED <<input, env, mode, policy, plan, at, routing, error, value, answer,
                   altAt, tried, fallback, shadowed>>

-----------------------------------------------------------------------------
(* Evaluation                                                               *)

(* A run may have ended before it sees that its context is done.            *)
Outcome == IF gone THEN Outcomes ELSE Outcomes \ {"cancelled"}
Result(instant) == [at |-> instant, series |-> query.series]
Serving(o) == tried' = Append(tried, [plan |-> plan, at |-> at, outcome |-> o])

Evaluate ==
    /\ pc = "evaluate"
    /\ \E o \in Outcome :
          /\ Serving(o)
          /\ IF o = "ok"
             THEN value' = Result(at) /\ pc' = "limit" /\ UNCHANGED error
             ELSE error' = o /\ pc' = "failed" /\ UNCHANGED value
    /\ UNCHANGED <<input, env, mode, policy, plan, at, routing, answer, altAt, response,
                   fallback, shadowed>>

(* executionFallbackEligible.  The leaves of a local tree are fetched from  *)
(* ClickHouse and report the strategy delegated_promql.                     *)
ClickHouseSide(p) == p \in {"delegated", "native", "hybrid", "local"}
Eligible ==
    /\ Adaptive(mode)
    /\ ClickHouseSide(plan)
    /\ error = "execution"
    /\ ~gone

Unpinned == Instant
Pinned == at
Fallback ==
    /\ pc = "failed"
    /\ IF Eligible
       THEN IF Planned("off") # "none"
            THEN /\ plan' = Planned("off")
                 /\ at' = Pinned
                 /\ pc' = "retry"
                 /\ UNCHANGED <<response, fallback>>
            ELSE /\ Respond(error)
                 /\ fallback' = "local_plan_error"
                 /\ UNCHANGED <<plan, at>>
       ELSE Respond(error) /\ UNCHANGED <<plan, at, fallback>>
    /\ UNCHANGED <<input, env, mode, policy, routing, error, value, answer, altAt,
                   tried, shadowed>>

(* servedErrorAfterLocalFailure                                             *)
ServedLocally(r) == [r EXCEPT !.servedCandidate = "full_local"]   \* markRoutingServedLocal
LocalError(local) == local
ServedError(local) == IF local = "execution" THEN local ELSE error
Retry ==
    /\ pc = "retry"
    /\ \E o \in Outcome :
          /\ Serving(o)
          /\ IF o = "ok"
             THEN /\ value' = Result(at)
                  /\ fallback' = "success"
                  /\ routing' = ServedLocally(routing)
                  /\ pc' = "limit"
                  /\ UNCHANGED response
             ELSE /\ fallback' = "local_error"
                  /\ response' = [status |-> ServedError(o)]
                  /\ pc' = "done"
                  /\ UNCHANGED <<value, routing>>
    /\ UNCHANGED <<input, env, mode, policy, plan, at, error, answer, altAt, shadowed>>

(* applyQueryLimit, then enforceResponseLimits: for the shortened result.   *)
Shortened(v) ==
    IF req.limit # 0 /\ v.series > req.limit THEN [v EXCEPT !.series = req.limit] ELSE v
WithinUnlessRetried(v) == v.series <= MaxSeries \/ fallback = "success"
Within(v) == v.series <= MaxSeries

(* buildCBECandidates: a candidate is known to be correct when it is the    *)
(* strict, the selected or the served one; only a histogram's query has one *)
(* more.                                                                    *)
Supported(id) ==
    \/ id \in {Candidate(Strategy(routing.strict)), Candidate(routing.would),
               routing.servedCandidate}
    \/ id = "local_pushdown" /\ HistogramPushdown(routing.class)

(* Caps are looked at only when neither the mode nor the strict plan has    *)
(* settled the matter, and a hit counts although it is let pass.            *)
HitsCap ==
    /\ ~IgnoresCost(mode) /\ policy # "strict"
    /\ Strategy(routing.strict) # "delegated_promql"
    /\ ~MissingEstimate(routing.class) /\ CapHits(routing.class) # {}

(* candidateRejectReasons                                                   *)
Rejected(id) ==
    \/ mode = "force_supported" /\ id # "native_sql"
    \/ mode = "local_pushdown" /\ id # "local_pushdown"
    \/ MissingEstimate(routing.class) /\ id # "whole_query_delegation"
    \/ HitsCap

(* rankShadowCandidates; their order, by cost, is left open.                *)
Ranked == {id \in Executable \cup {"whole_query_delegation"} :
              Supported(id) /\ ~Rejected(id)}

(* pickShadowAlternateCandidate: the selected one, where it can be ranked   *)
(* and is not what is served, and else any other that can be run.           *)
Alternates ==
    LET selected == Candidate(routing.would) IN
    (IF selected \in Ranked THEN {selected} ELSE Ranked)
        \cap (Executable \ {routing.servedCandidate})

(* What follows on a result within the limits.                              *)
Alternate ==
    /\ policy = "cost_shadow"
    /\ fallback = "none"
    /\ Alternates # {}
AfterLimit == IF mode = "shadow" \/ Alternate THEN "alternate" ELSE "send"

Limit ==
    /\ pc = "limit"
    /\ value' = Shortened(value)
    /\ IF Within(value')
       THEN /\ answer' = value'
            /\ pc' = AfterLimit
            /\ UNCHANGED response
       ELSE Respond("client") /\ UNCHANGED answer
    /\ UNCHANGED <<input, env, mode, policy, plan, at, routing, error, altAt, tried,
                   fallback, shadowed>>

-----------------------------------------------------------------------------
(* The shadow run: the native plan in the mode shadow, the local one under  *)
(* cost_shadow.  The response is not sent before it is over.                *)

AlternateModes ==
    IF mode = "shadow" THEN {"prefer"} ELSE {ModeOf(id) : id \in Alternates}
Prepare ==
    /\ pc = "alternate"
    /\ \E m \in AlternateModes :
          IF Builds(ModeFor(m))
          THEN altAt' = Instant /\ pc' = "compare" /\ UNCHANGED shadowed
          ELSE shadowed' = "plan_error" /\ pc' = "send" /\ UNCHANGED altAt
    /\ UNCHANGED <<input, env, mode, policy, plan, at, routing, error, value, answer,
                   response, tried, fallback>>

(* The instant shows in every sample.  The runner of the mode shadow skips  *)
(* a comparison that cannot be exact.                                       *)
Same(v, w) == v.series = w.series /\ (v.at = w.at \/ v.series = 0)
Comparison == IF Same(answer, Result(altAt)) THEN "match" ELSE "diff"
RecordedByRunner(o) == IF o = "ok" THEN {Comparison, "skipped"} ELSE {"execution_error"}
RecordedAsCost(o) == IF o = "ok" THEN {Comparison} ELSE {"execution_error"}
Recorded(o) == IF mode = "shadow" THEN RecordedByRunner(o) ELSE RecordedAsCost(o)
AbortOnError(o) == IF o = "ok" THEN "send" ELSE "failed"
AfterShadow(o) == "send"
Compare ==
    /\ pc = "compare"
    /\ \E o \in Outcome :
          /\ shadowed' \in Recorded(o)
          /\ pc' = AfterShadow(o)
          /\ error' = IF o = "ok" THEN error ELSE o
    /\ UNCHANGED <<input, env, mode, policy, plan, at, routing, value, answer, altAt,
                   response, tried, fallback>>

Send ==
    /\ pc = "send"
    /\ response' = [status |-> "ok", value |-> answer]
    /\ pc' = "done"
    /\ UNCHANGED <<input, env, mode, policy, plan, at, routing, error, value, answer,
                   altAt, tried, fallback, shadowed>>

-----------------------------------------------------------------------------
Step ==
    \/ Start \/ Build \/ Route \/ Replan \/ Estimate
    \/ Evaluate \/ Fallback \/ Retry \/ Limit
    \/ Prepare \/ Compare \/ Send

Tick ==
    /\ clock < MaxTime
    /\ clock' = clock + 1
    /\ UNCHANGED <<input, gone, pc, mode, policy, plan, at, routing, error, value,
                   answer, altAt, response, tried, fallback, shadowed>>

ContextEnds ==
    /\ ~gone
    /\ gone' = TRUE
    /\ UNCHANGED <<input, clock, pc, mode, policy, plan, at, routing, error, value,
                   answer, altAt, response, tried, fallback, shadowed>>

Answered == pc = "done" /\ UNCHANGED vars

Next == Step \/ Tick \/ ContextEnds \/ Answered

(* The handler's goroutine runs, and a call of ClickHouse ends.             *)
Spec == Init /\ [][Next]_vars /\ WF_vars(Step)

-----------------------------------------------------------------------------
(* Properties                                                               *)

Ok == response.status = "ok"

(* The types, and that nothing is evaluated, retried or compared before a   *)
(* plan for it was built.                                                   *)
TypeOK ==
    /\ clock \in 0..MaxTime /\ gone \in BOOLEAN
    /\ pc \in {"start", "plan", "route", "replan", "estimate", "evaluate", "failed",
              "retry", "limit", "alternate", "compare", "send", "done"}
    /\ mode \in Modes /\ policy \in Policies
    /\ plan \in Plans \cup {"none"}
    /\ pc \notin {"start", "plan", "done"} => plan \in Plans
    /\ at \in 0..MaxTime /\ altAt \in 0..MaxTime
    /\ error \in Outcomes \cup {"none"}
    /\ value.series \in -1..(MaxSeries + 1) /\ answer.series \in -1..(MaxSeries + 1)
    /\ fallback \in {"none", "success", "local_error", "local_plan_error"}
    /\ shadowed \in {"none", "plan_error", "execution_error", "skipped", "match", "diff"}

(* A query is evaluated to be served at most twice.  The second time is in  *)
(* an adaptive mode, after a failed execution, with the full local plan and *)
(* for the very instant the first was for (instantExecutionFallback).       *)
RetriesRightly ==
    /\ Len(tried) <= 2
    /\ Len(tried) = 2 =>
          /\ Adaptive(mode)
          /\ tried[1].outcome = "execution"
          /\ tried[2].plan = "local"
          /\ tried[2].at = tried[1].at

(* A failed execution is never shown to the client as an error of the       *)
(* client's own: only a local run that did succeed can still be too large   *)
(* (servedErrorAfterLocalFailure).                                          *)
FailureNotMasked ==
    /\ pc = "done"
    /\ tried # <<>>
    /\ tried[1].outcome = "execution"
    /\ response.status = "client"
    => fallback = "success"

(* What is served is within MaxResponseSeries and ?limit=, whichever of the *)
(* plans it came from, and was computed for the instant of the request.     *)
LimitsHold ==
    Ok => /\ response.value.series <= MaxSeries
          /\ req.limit # 0 => response.value.series <= req.limit
          /\ req.timed => response.value.at = 0

(* Under force_supported nothing but native SQL is ever evaluated for the   *)
(* response, whatever the routing policy and the fallback do.               *)
NativeOnly ==
    mode = "force_supported" =>
        \A i \in DOMAIN tried : tried[i].plan = "native"

(* What docs/cost-routing.md asks of a local override: the family's gate,   *)
(* fresh estimates under every hard cap, no join and no subquery, no broad  *)
(* range query, and a predicted win.                                        *)
Justified(c, strict) ==
    /\ FamilyGate(c) \in CostFamilies
    /\ c.selectors \in 1..2 /\ c.estimates = "fresh"
    /\ CapHits(c) = {}
    /\ Lacks(c, {"join", "subquery"})
    /\ c.endpoint = "query_range" => c.family = "aggregation" /\ c.perSeries <= 240
    /\ PredictedWin(c, strict)

(* The first plan evaluated is the strict one, unless cost_prefer overrides *)
(* it in an adaptive mode and every gate of an override is passed: between  *)
(* the decision, the planning of the candidate and the taking back of what  *)
(* cannot be planned nothing else replaces it.                              *)
StrictUnlessGated ==
    tried # <<>> /\ mode # "shadow" /\ tried[1].plan # routing.strict =>
        /\ policy = "cost_prefer"
        /\ Adaptive(mode)
        /\ Justified(routing.class, Strategy(routing.strict))

(* A result that passed the limits is what the client gets: no shadow run   *)
(* changes it or turns it into an error.                                    *)
ShadowHarmless ==
    pc = "done" /\ answer # NoValue => Ok /\ response.value = answer

(* Every request is answered.                                               *)
AlwaysAnswered == <>(pc = "done")

-----------------------------------------------------------------------------
(* What documents and comments say and the code does not do                 *)

(* buildInstantPlanWithMode: "internal replans ... are not client           *)
(* overrides".  Yet a client that asked for no override may be told that    *)
(* overrides are disabled.                                                  *)
OverrideErrorOnlyForOverrides ==
    response.status = "override_disabled" => req.mode # "" \/ req.policy # ""
==============================================================================
