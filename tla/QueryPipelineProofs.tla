------------------------- MODULE QueryPipelineProofs -------------------------
(***************************************************************************)
(* Proofs about QueryPipeline for any sets of modes, policies, shapes and  *)
(* cost classes, any limits and any bound on the clock: its types, what a  *)
(* retry may do, what force_supported may run, when a local plan replaces  *)
(* the strict one, and what reaches the client.                            *)
(***************************************************************************)
EXTENDS QueryPipeline, SequenceTheorems, TLAPS

-----------------------------------------------------------------------------
(* Helpers                                                                  *)

(* The assumption on the two bounds that arithmetic needs.                  *)
LEMMA Bounds == MaxTime \in Nat /\ MaxSeries \in Nat
PROOF
  BY PipelineAssumption

(* nativeLoweringModeForRequest gives a mode or refuses.                    *)
LEMMA ModeForType ==
    ASSUME conf.mode \in Modes, NEW m \in Modes \cup {""}
    PROVE  ModeFor(m) \in Modes \cup {Refused}
PROOF
  BY DEF ModeFor

(* routingPolicyForRequest gives a policy or refuses.                       *)
LEMMA PolicyForType ==
    ASSUME conf.policy \in Policies, NEW p \in Policies \cup {""}
    PROVE  PolicyFor(p) \in Policies \cup {Refused}
PROOF
  BY DEF PolicyFor

(* A refusal is none of the modes.                                          *)
LEMMA RefusedIsNoMode == Refused \notin Modes
PROOF
  BY DEF Refused, Modes

(* The mode off leads to nothing but local plans, force_supported to        *)
(* nothing but native ones.                                                 *)
LEMMA PlannedType ==
    /\ \A m : Planned(m) \in Plans \cup {"none"}
    /\ Planned("off") \in {"local", "none"}
    /\ Planned("force_supported") \in {"native", "none"}
PROOF
  <1>1. ASSUME NEW m PROVE Planned(m) \in Plans \cup {"none"}
    BY DEF Planned, Plans
  <1>2. Planned("off") \in {"local", "none"}
    BY DEF Planned, Adaptive
  <1>3. Planned("force_supported") \in {"native", "none"}
    BY DEF Planned, Adaptive
  <1> QED
    BY <1>1, <1>2, <1>3

(* A class under every cap.                                                 *)
LEMMA UnderCaps ==
    ASSUME NEW c \in ClassType, CapHits(c) = {}
    PROVE  /\ c.samples <= SampleCap(c) /\ c.points <= 10000 /\ c.series <= 5000
           /\ c.selectors <= 2 /\ ~ Has(c, "subquery")
           /\ c.family # "range_selector" => c.perSeries <= 240
PROOF
  <1>1. /\ c.selectors \in Nat /\ c.perSeries \in Nat /\ c.series \in Nat
        /\ c.samples \in Nat /\ c.points \in Nat
    BY DEF ClassType
  <1>2. SampleCap(c) \in Nat
    BY DEF SampleCap
  <1>3. \A cap \in Caps : ~ Exceeds(c, cap)
    BY DEF CapHits
  <1>4. /\ ~ Exceeds(c, "maxLocalInputSamples") /\ ~ Exceeds(c, "maxLocalOutputPoints")
        /\ ~ Exceeds(c, "maxLocalOutputSeries") /\ ~ Exceeds(c, "maxLocalRoundTrips")
        /\ ~ Exceeds(c, "subquery") /\ ~ Exceeds(c, "rangePointsPerSeries")
    BY <1>3 DEF Caps
  <1>5. /\ ~ (c.samples > SampleCap(c)) /\ ~ (c.points > 10000)
        /\ ~ (c.series > 5000) /\ ~ (c.selectors > 2) /\ ~ Has(c, "subquery")
        /\ ~ (c.family # "range_selector" /\ c.perSeries > 240)
    BY <1>4 DEF Exceeds
  <1> QED
    BY <1>1, <1>2, <1>5

(* The families a local run is predicted for, their bases in milliseconds   *)
(* and their selectors.                                                     *)
LEMMA CandidateBases ==
    ASSUME NEW c \in ClassType, LocalCandidate(c), CapHits(c) = {}
    PROVE  /\ Bases(c.family).native \in Nat /\ Bases(c.family).local \in Nat
           /\ 7 * Bases(c.family).native + 14
                 >= 10 * Bases(c.family).local + 20 * c.selectors
           /\ Bases(c.family).native - Bases(c.family).local >= 10
PROOF
  <1>1. c.selectors \in 0..2
    BY UnderCaps DEF ClassType
  <1>2. CASE c.family \in {"selector", "range_selector"}
    <2>1. Bases(c.family) = [native |-> 24, local |-> 7]
      BY <1>2 DEF Bases
    <2> QED
      BY <1>1, <2>1
  <1>3. CASE c.family \in {"rate", "increase"}
    <2>1. Bases(c.family) = [native |-> 30, local |-> 20]
      BY <1>3 DEF Bases
    <2>2. c.selectors = 1
      BY <1>3 DEF LocalCandidate, RangeAggregation
    <2> QED
      BY <2>1, <2>2
  <1>4. CASE c.family = "binary"
    <2>1. Bases(c.family) = [native |-> 45, local |-> 25]
      BY <1>4 DEF Bases
    <2> QED
      BY <1>1, <2>1
  <1>5. CASE c.family = "histogram_quantile"
    <2>1. Bases(c.family) = [native |-> 150, local |-> 35]
      BY <1>5 DEF Bases
    <2> QED
      BY <1>1, <2>1
  <1>6. CASE c.family = "aggregation"
    <2>1. Bases(c.family) = [native |-> 40, local |-> 25]
      BY <1>6 DEF Bases
    <2> QED
      BY <1>1, <2>1
  <1>7. CASE c.family = "subquery"
    <2>1. Bases(c.family) = [native |-> 55, local |-> 24]
      BY <1>7 DEF Bases
    <2> QED
      BY <1>1, <2>1
  <1>8. c.family \in {"selector", "range_selector", "rate", "increase", "binary",
                      "histogram_quantile", "aggregation", "subquery"}
    BY DEF LocalCandidate, RangeAggregation
  <1> QED
    BY <1>2, <1>3, <1>4, <1>5, <1>6, <1>7, <1>8

(* Where the strict plan is native SQL the margin of 70 % and 3 ms decides  *)
(* nothing: a family that a local run is considered for has that margin in  *)
(* its bases alone, once the caps have bounded the round trips              *)
(* (costModel.decide and familyBases).                                      *)
THEOREM MarginDecidesNothing ==
    ASSUME NEW c \in ClassType, LocalCandidate(c), CapHits(c) = {}
    PROVE  PredictedWin(c, "native_sql")
PROOF
  <1> DEFINE n == Bases(c.family).native  l == Bases(c.family).local
  <1>1. c.selectors \in 0..2 /\ c.samples \in Nat /\ c.points \in Nat
    BY UnderCaps DEF ClassType
  <1>2. /\ n \in Nat /\ l \in Nat
        /\ 7 * n + 14 >= 10 * l + 20 * c.selectors
        /\ n - l >= 10
    BY CandidateBases
  <1>3. NativeRoundTrips("native_sql") = 1
    BY DEF NativeRoundTrips
  <1>4. NativeCost(c, "native_sql") = 100000 * n + 10 * c.samples + 5 * c.points + 200000
    BY <1>1, <1>2, <1>3 DEF NativeCost
  <1>5. LocalCost(c) = 100000 * l + 2 * c.samples + 2 * c.points + 200000 * c.selectors
    BY DEF LocalCost
  <1> HIDE DEF n, l
  <1>6. 10 * LocalCost(c) <= 7 * NativeCost(c, "native_sql")
    BY <1>1, <1>2, <1>4, <1>5
  <1>7. NativeCost(c, "native_sql") - LocalCost(c) >= 300000
    BY <1>1, <1>2, <1>4, <1>5
  <1> QED
    BY <1>6, <1>7 DEF PredictedWin

(* What a decision for local rests on.                                      *)
LEMMA OverrideNeedsGate ==
    ASSUME mode \in Modes, NEW c \in Classes, NEW strict,
           Decide(c, strict).decision = "local_override"
    PROVE  policy = "cost_prefer" /\ Adaptive(mode) /\ Justified(c, strict)
PROOF
  <1>0. c \in ClassType /\ (c.series # 0 => c.estimates = "fresh")
    BY PipelineAssumption
  <1>1. ~ IgnoresCost(mode) /\ policy # "strict"
    BY DEF Decide
  <1>2. Judgement(c, strict) = "local"
    BY <1>1 DEF Decide, Judgement
  <1>3. OverridesLocally(c, strict)
    BY <1>1, <1>2 DEF Decide
  <1>4. ~ MissingEstimate(c) /\ ~ OverCap(c) /\ LocalCandidate(c) /\ PredictedWin(c, strict)
    BY <1>2 DEF Judgement
  <1>5. policy = "cost_prefer" /\ FamilyEnabled(c) /\ ServesLocally(c)
    BY <1>3 DEF OverridesLocally
  <1>6. CapHits(c) = {}
    BY <1>4, <1>5 DEF OverCap
  <1>7. Adaptive(mode)
    BY <1>1 DEF IgnoresCost, Adaptive, Modes
  <1>8. c.selectors # 0 /\ c.estimates = "fresh"
    BY <1>0, <1>4, <1>5 DEF ServesLocally, MissingEstimate
  <1>9. c.selectors \in 1..2
    BY <1>0, <1>6, <1>8, UnderCaps DEF ClassType
  <1>10. Lacks(c, {"join", "subquery"})
    BY <1>5 DEF ServesLocally
  <1>11. c.endpoint = "query_range" => c.family = "aggregation"
    BY <1>5 DEF ServesLocally, RangeAggregation
  <1>12. c.endpoint = "query_range" => c.perSeries <= 240
    BY <1>0, <1>6, <1>11, UnderCaps
  <1> QED
    BY <1>4, <1>5, <1>6, <1>7, <1>8, <1>9, <1>10, <1>11, <1>12
       DEF Justified, FamilyEnabled

-----------------------------------------------------------------------------
(* Types.  TypeOK with the types of the inputs and the records it leaves    *)
(* out.                                                                     *)

Tries == [plan : Plans, at : 0..MaxTime, outcome : Outcomes]
Values == [at : -1..MaxTime, series : -1..(MaxSeries + 1)]
Decisions == {"none", "strict", "strict_low_confidence", "strict_missing_estimate",
              "strict_over_cap", "local_override", "shadow_only"}
Strategies == {"none", "delegated_promql", "native_sql", "local"}
Candidates == {"none", "whole_query_delegation", "native_sql", "full_local",
               "local_pushdown"}
Routings == [decision : Decisions, strict : Plans \cup {"none"}, would : Strategies,
             selected : Strategies, servedCandidate : Candidates, class : ClassType]

Inputs ==
    /\ conf.mode \in Modes /\ conf.policy \in Policies
    /\ req.mode \in Modes \cup {""} /\ req.policy \in Policies \cup {""}
    /\ req.limit \in Nat
    /\ query.series \in 0..(MaxSeries + 1)

Typed ==
    /\ TypeOK /\ Inputs
    /\ value \in Values /\ answer \in Values
    /\ routing \in Routings
    /\ tried \in Seq(Tries)

(* A request that has just come in.                                         *)
LEMMA TypedInit == Init => Typed
PROOF
  <1> SUFFICES ASSUME Init PROVE Typed
    OBVIOUS
  <1>1. Inputs
    <2>1. conf.mode \in ConfModes /\ conf.policy \in ConfPolicies
      BY DEF Init
    <2>2. req.mode \in ReqModes /\ req.policy \in ReqPolicies /\ req.limit \in Limits
      BY DEF Init
    <2>3. query.series \in 0..(MaxSeries + 1)
      BY DEF Init
    <2> QED
      BY <2>1, <2>2, <2>3, PipelineAssumption DEF Inputs
  <1>2. NoValue \in Values
    BY Bounds DEF NoValue, Values
  <1>3. Unrouted \in Routings
    <2>1. Unknown \in ClassType
      BY DEF Unknown, ClassType, Families
    <2> QED
      BY <2>1 DEF Unrouted, Routings, Decisions, Strategies, Candidates
  <1>4. TypeOK
    <2>0. gone \in BOOLEAN
      BY DEF Init
    <2>1. clock = 0 /\ at = 0 /\ altAt = 0
      BY DEF Init
    <2>2. pc = "start" /\ mode \in Modes /\ policy \in Policies /\ plan = "none"
      BY DEF Init, Modes, Policies
    <2>3. value.series \in -1..(MaxSeries + 1) /\ answer.series \in -1..(MaxSeries + 1)
      BY <1>2 DEF Init, Values
    <2>4. error = "none" /\ fallback = "none" /\ shadowed = "none"
      BY DEF Init
    <2> QED
      BY <2>0, <2>1, <2>2, <2>3, <2>4, Bounds DEF TypeOK
  <1>5. value = NoValue /\ answer = NoValue /\ routing = Unrouted /\ tried = <<>>
    BY DEF Init
  <1> QED
    BY <1>1, <1>2, <1>3, <1>4, <1>5 DEF Typed

(* applyQueryLimit keeps the instant, never adds series, and obeys the      *)
(* limit.                                                                   *)
LEMMA ShortenedType ==
    ASSUME req.limit \in Nat, MaxSeries \in Nat, NEW v \in Values
    PROVE  /\ Shortened(v) \in Values /\ Shortened(v).at = v.at
           /\ req.limit # 0 => Shortened(v).series <= req.limit
PROOF
  <1>1. CASE req.limit # 0 /\ v.series > req.limit
    <2>1. /\ [v EXCEPT !.series = req.limit].at = v.at
          /\ [v EXCEPT !.series = req.limit].series = req.limit
          /\ [v EXCEPT !.series = req.limit] \in Values
      BY <1>1 DEF Values
    <2> QED
      BY <1>1, <2>1 DEF Shortened
  <1>2. CASE ~ (req.limit # 0 /\ v.series > req.limit)
    BY <1>2 DEF Shortened, Values
  <1> QED
    BY <1>1, <1>2

(* The modes the pipeline plans with are modes or refused ones.             *)
LEMMA BuildsModes ==
    ASSUME Inputs
    PROVE  /\ ModeFor(req.mode) \in Modes \cup {Refused}
           /\ ModeFor("off") \in Modes \cup {Refused}
PROOF
  <1>1. conf.mode \in Modes /\ req.mode \in Modes \cup {""} /\ "off" \in Modes \cup {""}
    BY DEF Inputs, Modes
  <1> QED
    BY <1>1, ModeForType

(* A plan built for the mode off is the local tree.                         *)
LEMMA BuildsOff == Builds(ModeFor("off")) => Planned("off") = "local"
PROOF
  <1> SUFFICES ASSUME Builds(ModeFor("off")) PROVE Planned("off") = "local"
    OBVIOUS
  <1>1. ModeFor("off") = "off"
    BY DEF Builds, ModeFor
  <1>2. Planned("off") # "none"
    BY <1>1 DEF Builds
  <1> QED
    BY <1>2, PlannedType

(* A plan is for an instant of the clock.                                   *)
LEMMA InstantType == clock \in 0..MaxTime => Instant \in 0..MaxTime
PROOF
  BY Bounds DEF Instant

(* Taking a decision back, or naming another served candidate, keeps the    *)
(* record of the routing one.                                               *)
LEMMA RoutingKept ==
    ASSUME routing \in Routings,
           NEW d \in Decisions, NEW s \in Strategies, NEW k \in Candidates
    PROVE  /\ [routing EXCEPT !.decision = d, !.selected = s] \in Routings
           /\ [routing EXCEPT !.servedCandidate = k] \in Routings
PROOF
  BY DEF Routings

(* Every plan has a strategy.                                               *)
LEMMA StrategyType == \A p \in Plans : Strategy(p) \in Strategies
PROOF
  BY DEF Strategy, Strategies, Plans

(* Every strategy has a candidate.                                          *)
LEMMA CandidateType ==
    \A s \in Strategies \ {"none"} : Candidate(s) \in Candidates
PROOF
  BY DEF Candidate, Candidates, Strategies

(* Every class leads to a decision, a predicted and a selected strategy.    *)
LEMMA DecideType ==
    ASSUME NEW c, NEW strict \in Strategies \ {"none"}
    PROVE  /\ Decide(c, strict).decision \in Decisions
           /\ Decide(c, strict).would \in Strategies \ {"none"}
           /\ Decide(c, strict).selected \in Strategies \ {"none"}
PROOF
  <1>1. Judgement(c, strict) \in Decisions \cup {"local"}
    BY DEF Judgement, Decisions
  <1>2. "local" \in Strategies \ {"none"}
    BY DEF Strategies
  <1>3. {"strict", "local_override", "strict_low_confidence", "shadow_only"}
          \subseteq Decisions
    BY DEF Decisions
  <1>4. CASE IgnoresCost(mode) \/ policy = "strict"
    BY <1>3, <1>4 DEF Decide
  <1>5. CASE ~ (IgnoresCost(mode) \/ policy = "strict")
    <2>1. CASE Judgement(c, strict) # "local"
      BY <1>1, <1>5, <2>1 DEF Decide
    <2>2. CASE Judgement(c, strict) = "local"
      BY <1>2, <1>3, <1>5, <2>2 DEF Decide
    <2> QED
      BY <2>1, <2>2
  <1> QED
    BY <1>4, <1>5

(* What was evaluated stays a sequence of attempts.                         *)
LEMMA ServingType ==
    ASSUME tried \in Seq(Tries), plan \in Plans, at \in 0..MaxTime, NEW o \in Outcomes
    PROVE  Append(tried, [plan |-> plan, at |-> at, outcome |-> o]) \in Seq(Tries)
PROOF
  <1>1. [plan |-> plan, at |-> at, outcome |-> o] \in Tries
    BY DEF Tries
  <1> QED
    BY <1>1

(* A result is a value.                                                     *)
LEMMA ResultType ==
    ASSUME Inputs, NEW i \in 0..MaxTime PROVE Result(i) \in Values
PROOF
  <1>1. query.series \in 0..(MaxSeries + 1)
    BY DEF Inputs
  <1>2. query.series \in -1..(MaxSeries + 1) /\ i \in -1..MaxTime
    BY <1>1, Bounds
  <1> QED
    BY <1>2 DEF Result, Values

(* Whatever the context, a run ends in an outcome.                          *)
LEMMA OutcomeType == Outcome \subseteq Outcomes
PROOF
  BY DEF Outcome

-----------------------------------------------------------------------------
(* Every step keeps the types.                                              *)

(* The inputs never change.                                                 *)
LEMMA InputsKept == Inputs /\ UNCHANGED input => Inputs'
PROOF
  BY DEF Inputs, input

(* The flag of the context stays a flag.                                    *)
LEMMA GoneType == TypeOK /\ UNCHANGED gone => gone' \in BOOLEAN
PROOF
  BY DEF TypeOK

(* Refused, or on to planning with a mode and a policy.                     *)
LEMMA StartTyped == Typed /\ Start => Typed'
PROOF
  <1> SUFFICES ASSUME Typed, Start PROVE Typed'
    OBVIOUS
  <1>1. Inputs' /\ Inputs
    BY InputsKept DEF Start, Typed
  <1>2. gone' \in BOOLEAN
    BY GoneType DEF Start, Typed, env
  <1>3. mode' \in Modes /\ policy' \in Policies
    <2>1. CASE UNCHANGED <<mode, policy>>
      BY <2>1 DEF Typed, TypeOK
    <2>2. CASE ~ UNCHANGED <<mode, policy>>
      <3>1. ModeFor(req.mode) # Refused /\ mode' = ModeFor(req.mode)
        BY <2>2 DEF Start
      <3>2. PolicyFor(req.policy) # Refused /\ policy' = PolicyFor(req.policy)
        BY <2>2 DEF Start
      <3> QED
        BY <1>1, <3>1, <3>2, BuildsModes, PolicyForType DEF Inputs
    <2> QED
      BY <2>1, <2>2
  <1>4. pc' \in {"plan", "done"}
    BY DEF Start, Respond
  <1>5. TypeOK'
    BY <1>2, <1>3, <1>4 DEF Typed, TypeOK, Start, env
  <1> QED
    BY <1>1, <1>5 DEF Start, Typed

(* Refused, not buildable, or on with a plan.                               *)
LEMMA BuildTyped == Typed /\ Build => Typed'
PROOF
  <1> SUFFICES ASSUME Typed, Build PROVE Typed'
    OBVIOUS
  <1>1. Inputs' /\ Inputs
    BY InputsKept DEF Build, Typed
  <1>2. gone' \in BOOLEAN
    BY GoneType DEF Build, Typed, env
  <1>3. /\ pc' \in {"evaluate", "route"} => plan' \in Plans
        /\ pc' \in {"evaluate", "route", "done"}
        /\ plan' \in Plans \cup {"none"} /\ at' \in 0..MaxTime
    BY PlannedType, InstantType DEF Build, Builds, PlanningMode, Respond, Typed, TypeOK
  <1>4. TypeOK'
    BY <1>2, <1>3 DEF Typed, TypeOK, Build, env
  <1> QED
    BY <1>1, <1>4 DEF Build, Typed

(* The routing record is filled in.                                         *)
LEMMA RouteTyped == Typed /\ Route => Typed'
PROOF
  <1> SUFFICES ASSUME Typed, Route PROVE Typed'
    OBVIOUS
  <1>1. Inputs' /\ Inputs
    BY InputsKept DEF Route, Typed
  <1>2. gone' \in BOOLEAN
    BY GoneType DEF Route, Typed, env
  <1>3. routing' \in Routings
    <2>1. plan \in Plans
      BY DEF Typed, TypeOK, Route
    <2>2. Strategy(plan) \in Strategies \ {"none"}
      BY <2>1 DEF Strategy, Strategies, Plans
    <2> DEFINE d(c) == Decide(c, Strategy(plan))
    <2>3. PICK c \in Classes : routing' =
              [decision |-> d(c).decision, strict |-> plan, would |-> d(c).would,
               selected |-> d(c).selected, class |-> c,
               servedCandidate |-> Candidate(d(c).selected)]
      BY DEF Route
    <2>4. c \in ClassType
      BY <2>3, PipelineAssumption
    <2>5. /\ d(c).decision \in Decisions
          /\ d(c).would \in Strategies /\ d(c).selected \in Strategies \ {"none"}
      BY <2>2, DecideType
    <2>6. Candidate(d(c).selected) \in Candidates
      BY <2>5, CandidateType
    <2> HIDE DEF d
    <2> QED
      BY <2>1, <2>3, <2>4, <2>5, <2>6 DEF Routings
  <1>4. pc' \in {"replan", "estimate"}
    BY DEF Route
  <1>5. TypeOK'
    BY <1>2, <1>4 DEF Typed, TypeOK, Route, env
  <1> QED
    BY <1>1, <1>3, <1>5 DEF Route, Typed

(* The local plan, or the decision taken back.                              *)
LEMMA ReplanTyped == Typed /\ Replan => Typed'
PROOF
  <1> SUFFICES ASSUME Typed, Replan PROVE Typed'
    OBVIOUS
  <1>1. Inputs' /\ Inputs
    BY InputsKept DEF Replan, Typed
  <1>2. gone' \in BOOLEAN
    BY GoneType DEF Replan, Typed, env
  <1>3. pc' = "estimate" /\ plan \in Plans
    BY DEF Replan, AfterReplan, Typed, TypeOK
  <1>4. plan' \in Plans
    <2> DEFINE m == ModeOf(Overriding)
    <2>1. CASE Overriding \in Executable /\ Builds(ModeFor(m))
      <3>1. ModeFor(m) = m
        BY <2>1 DEF Builds, ModeFor, ModeOf
      <3>2. Planned(m) # "none" /\ plan' = Planned(m)
        BY <2>1, <3>1 DEF Builds, Replan
      <3> QED
        BY <3>2, PlannedType
    <2>2. CASE ~ (Overriding \in Executable /\ Builds(ModeFor(m)))
      BY <1>3, <2>2 DEF Replan
    <2> QED
      BY <2>1, <2>2
  <1>5. routing' \in Routings
    <2>1. Strategy(plan) \in Strategies /\ "strict_low_confidence" \in Decisions
      BY <1>3, StrategyType DEF Decisions
    <2> QED
      BY <2>1, RoutingKept DEF Replan, Revoked, Typed, Candidates
  <1>6. TypeOK'
    BY <1>2, <1>3, <1>4 DEF Typed, TypeOK, Replan, env
  <1> QED
    BY <1>1, <1>5, <1>6 DEF Replan, Typed

(* Rejected on the estimate, or on to evaluation.                           *)
LEMMA EstimateTyped == Typed /\ Estimate => Typed'
PROOF
  <1> SUFFICES ASSUME Typed, Estimate PROVE Typed'
    OBVIOUS
  <1>1. Inputs' /\ Inputs
    BY InputsKept DEF Estimate, Typed
  <1>2. gone' \in BOOLEAN
    BY GoneType DEF Estimate, Typed, env
  <1>3. pc' \in {"evaluate", "done"}
    BY DEF Estimate, Respond
  <1>4. TypeOK'
    BY <1>2, <1>3 DEF Typed, TypeOK, Estimate, env
  <1> QED
    BY <1>1, <1>4 DEF Estimate, Typed

(* A result, or an error to look at.                                        *)
LEMMA EvaluateTyped == Typed /\ Evaluate => Typed'
PROOF
  <1> SUFFICES ASSUME Typed, Evaluate PROVE Typed'
    OBVIOUS
  <1>1. Inputs' /\ Inputs
    BY InputsKept DEF Evaluate, Typed
  <1>2. gone' \in BOOLEAN
    BY GoneType DEF Evaluate, Typed, env
  <1>3. plan \in Plans /\ at \in 0..MaxTime
    BY DEF Typed, TypeOK, Evaluate
  <1>4. tried' \in Seq(Tries)
    BY <1>3, ServingType, OutcomeType DEF Evaluate, Serving, Typed
  <1>5. value' \in Values
    BY <1>1, <1>3, ResultType DEF Evaluate, Typed
  <1>6. error' \in Outcomes \cup {"none"}
    BY OutcomeType DEF Evaluate, Typed, TypeOK
  <1>7. pc' \in {"limit", "failed"} /\ value'.series \in -1..(MaxSeries + 1)
    BY <1>5 DEF Evaluate, Values
  <1>8. TypeOK'
    BY <1>2, <1>3, <1>6, <1>7 DEF Typed, TypeOK, Evaluate, env
  <1> QED
    BY <1>1, <1>4, <1>5, <1>8 DEF Evaluate, Typed

(* A local plan to retry with, or the error answered.                       *)
LEMMA FallbackTyped == Typed /\ Fallback => Typed'
PROOF
  <1> SUFFICES ASSUME Typed, Fallback PROVE Typed'
    OBVIOUS
  <1>1. Inputs' /\ Inputs
    BY InputsKept DEF Fallback, Typed
  <1>2. gone' \in BOOLEAN
    BY GoneType DEF Fallback, Typed, env
  <1>3. /\ pc' \in {"retry", "done"}
        /\ pc' = "retry" => plan' \in Plans
        /\ plan' \in Plans \cup {"none"} /\ at' = at
        /\ fallback' \in {"none", "success", "local_error", "local_plan_error"}
    <2>1. fallback \in {"none", "success", "local_error", "local_plan_error"}
      BY DEF Typed, TypeOK
    <2>2. plan \in Plans
      BY DEF Fallback, Typed, TypeOK
    <2>3. Planned("off") \in Plans \cup {"none"}
      BY PlannedType
    <2> QED
      BY <2>1, <2>2, <2>3 DEF Fallback, Respond, Pinned
  <1>4. TypeOK'
    BY <1>2, <1>3 DEF Typed, TypeOK, Fallback, env
  <1> QED
    BY <1>1, <1>4 DEF Fallback, Typed

(* The retry's result or one of the two errors.                             *)
LEMMA RetryTyped == Typed /\ Retry => Typed'
PROOF
  <1> SUFFICES ASSUME Typed, Retry PROVE Typed'
    OBVIOUS
  <1>1. Inputs' /\ Inputs
    BY InputsKept DEF Retry, Typed
  <1>2. gone' \in BOOLEAN
    BY GoneType DEF Retry, Typed, env
  <1>3. plan \in Plans /\ at \in 0..MaxTime
    BY DEF Typed, TypeOK, Retry
  <1>4. tried' \in Seq(Tries)
    BY <1>3, ServingType, OutcomeType DEF Retry, Serving, Typed
  <1>5. value' \in Values
    BY <1>1, <1>3, ResultType DEF Retry, Typed
  <1>6. routing' \in Routings
    BY RoutingKept DEF Retry, ServedLocally, Typed, Candidates, Decisions, Strategies
  <1>7. /\ pc' \in {"limit", "done"} /\ value'.series \in -1..(MaxSeries + 1)
        /\ fallback' \in {"success", "local_error"}
    BY <1>5 DEF Retry, Values
  <1>8. TypeOK'
    BY <1>2, <1>3, <1>7 DEF Typed, TypeOK, Retry, env
  <1> QED
    BY <1>1, <1>4, <1>5, <1>6, <1>8 DEF Retry, Typed

(* The shortened result, answered or refused.                               *)
LEMMA LimitTyped == Typed /\ Limit => Typed'
PROOF
  <1> SUFFICES ASSUME Typed, Limit PROVE Typed'
    OBVIOUS
  <1>1. Inputs' /\ Inputs
    BY InputsKept DEF Limit, Typed
  <1>2. gone' \in BOOLEAN
    BY GoneType DEF Limit, Typed, env
  <1>3. value' \in Values
    BY <1>1, Bounds, ShortenedType DEF Limit, Typed, Inputs
  <1>4. answer' \in Values
    BY <1>3 DEF Limit, Typed
  <1>5. /\ pc' \in {"alternate", "send", "done"}
        /\ value'.series \in -1..(MaxSeries + 1)
        /\ answer'.series \in -1..(MaxSeries + 1)
    BY <1>3, <1>4 DEF Limit, AfterLimit, Respond, Values
  <1>6. TypeOK'
    BY <1>2, <1>5 DEF Typed, TypeOK, Limit, env
  <1> QED
    BY <1>1, <1>3, <1>4, <1>6 DEF Limit, Typed

(* The shadow run and the response.                                         *)
LEMMA ShadowTyped == Typed /\ (Prepare \/ Compare \/ Send) => Typed'
PROOF
  <1> SUFFICES ASSUME Typed, Prepare \/ Compare \/ Send PROVE Typed'
    OBVIOUS
  <1>1. Inputs' /\ Inputs
    BY InputsKept DEF Prepare, Compare, Send, Typed
  <1>2. gone' \in BOOLEAN
    BY GoneType DEF Prepare, Compare, Send, Typed, env
  <1>3. altAt' \in 0..MaxTime /\ error' \in Outcomes \cup {"none"}
    BY InstantType, OutcomeType DEF Prepare, Compare, Send, Typed, TypeOK
  <1>4. /\ pc' \in {"compare", "send", "done"}
        /\ shadowed' \in
             {"none", "plan_error", "execution_error", "skipped", "match", "diff"}
    BY DEF Prepare, Compare, Send, AfterShadow, Recorded, RecordedByRunner,
       RecordedAsCost, Comparison, Typed, TypeOK
  <1>5. /\ pc # "done" /\ pc # "start" /\ pc # "plan"
        /\ UNCHANGED <<input, env, mode, policy, plan, at, routing, value, answer,
                       tried, fallback>>
    BY DEF Prepare, Compare, Send
  <1>6. TypeOK'
    BY <1>2, <1>3, <1>4, <1>5 DEF Typed, TypeOK, env
  <1> QED
    BY <1>1, <1>5, <1>6 DEF Typed

(* Time and the end of the context.                                         *)
LEMMA EnvTyped == Typed /\ (Tick \/ ContextEnds \/ UNCHANGED vars) => Typed'
PROOF
  <1> SUFFICES ASSUME Typed, Tick \/ ContextEnds \/ UNCHANGED vars PROVE Typed'
    OBVIOUS
  <1>1. Inputs'
    BY InputsKept DEF Tick, ContextEnds, vars, Typed
  <1>2. gone' \in BOOLEAN
    BY DEF Tick, ContextEnds, vars, env, Typed, TypeOK
  <1>3. clock' \in 0..MaxTime
    <2>1. clock \in 0..MaxTime /\ MaxTime \in Nat
      BY Bounds DEF Typed, TypeOK
    <2>2. (clock' = clock + 1 /\ clock < MaxTime) \/ clock' = clock
      BY DEF Tick, ContextEnds, vars, env
    <2> QED
      BY <2>1, <2>2
  <1>4. UNCHANGED <<pc, mode, policy, plan, at, routing, error, value, answer, altAt,
                    response, tried, fallback, shadowed>>
    BY DEF Tick, ContextEnds, vars
  <1>5. TypeOK'
    BY <1>2, <1>3, <1>4 DEF Typed, TypeOK
  <1> QED
    BY <1>1, <1>4, <1>5 DEF Typed

(* One step of any kind.                                                    *)
LEMMA TypedStep == Typed /\ [Next]_vars => Typed'
PROOF
  BY StartTyped, BuildTyped, RouteTyped, ReplanTyped, EstimateTyped, EvaluateTyped,
     FallbackTyped, RetryTyped, LimitTyped, ShadowTyped, EnvTyped
     DEF Next, Step, Answered

(* Nothing is evaluated, retried or compared before a plan for it was built *)
(* (InstantQuery, RangeQuery).                                              *)
THEOREM TypeCorrect == Spec => []TypeOK
PROOF
  <1>1. Spec => []Typed
    BY TypedInit, TypedStep, PTL DEF Spec
  <1>2. Typed => TypeOK
    BY DEF Typed
  <1> QED
    BY <1>1, <1>2, PTL

-----------------------------------------------------------------------------
(* What is evaluated to be served, and what a failed evaluation leads to.   *)

Before == {"start", "plan", "route", "replan", "estimate", "evaluate"}
After == {"limit", "alternate", "compare", "send"}

Attempts ==
    /\ pc \in Before => tried = <<>> /\ fallback = "none"
    /\ pc = "failed" => /\ Len(tried) = 1 /\ fallback = "none"
                        /\ tried[1].at = at
                        /\ tried[1].outcome = error /\ error # "ok"
    /\ pc = "retry" => /\ Len(tried) = 1 /\ Adaptive(mode) /\ plan = "local"
                       /\ tried[1].at = at
                       /\ tried[1].outcome = error /\ error = "execution"
    /\ pc \in After => IF Len(tried) = 1 THEN tried[1].outcome = "ok"
                       ELSE fallback = "success"
    /\ RetriesRightly
    /\ FailureNotMasked

(* The first evaluation is the only one so far.                             *)
LEMMA ServedFirst ==
    ASSUME tried = <<>>, NEW o, Serving(o)
    PROVE  /\ Len(tried') = 1
           /\ tried'[1] = [plan |-> plan, at |-> at, outcome |-> o]
PROOF
  <1> DEFINE t == [plan |-> plan, at |-> at, outcome |-> o]
  <1>1. tried' = <<t>>
    BY DEF Serving
  <1> QED
    BY <1>1

(* A second element leaves the first where it is.                           *)
LEMMA AppendToOne ==
    ASSUME NEW S, NEW seq \in Seq(S), NEW t \in S, Len(seq) = 1
    PROVE  /\ Len(Append(seq, t)) = 2
           /\ Append(seq, t)[1] = seq[1]
           /\ Append(seq, t)[2] = t
PROOF
  <1>1. Len(Append(seq, t)) = Len(seq) + 1
    BY AppendProperties
  <1>2. Append(seq, t)[Len(seq) + 1] = t
    BY AppendProperties
  <1>3. \A i \in 1..Len(seq) : Append(seq, t)[i] = seq[i]
    BY AppendProperties
  <1>4. Len(seq) + 1 = 2 /\ 1 \in 1..Len(seq)
    OBVIOUS
  <1> QED
    BY <1>1, <1>2, <1>3, <1>4

(* A second evaluation leaves the first as it was.                          *)
LEMMA ServedAgain ==
    ASSUME tried \in Seq(Tries), Len(tried) = 1, NEW o \in Outcomes, Serving(o),
           plan \in Plans, at \in 0..MaxTime
    PROVE  /\ Len(tried') = 2 /\ tried'[1] = tried[1]
           /\ tried'[2] = [plan |-> plan, at |-> at, outcome |-> o]
PROOF
  <1> DEFINE t == [plan |-> plan, at |-> at, outcome |-> o]
  <1>1. t \in Tries
    BY DEF Tries
  <1>2. tried' = Append(tried, t)
    BY DEF Serving
  <1> HIDE DEF t
  <1>3. Len(tried') = 2 /\ tried'[1] = tried[1] /\ tried'[2] = t
    BY <1>1, <1>2, AppendToOne
  <1> QED
    BY <1>3 DEF t

(* Nothing has been evaluated.                                              *)
LEMMA AttemptsInit == Init => Attempts
PROOF
  <1> SUFFICES ASSUME Init PROVE Attempts
    OBVIOUS
  <1>1. pc = "start" /\ tried = <<>> /\ fallback = "none"
    BY DEF Init
  <1>2. Len(tried) = 0
    BY <1>1
  <1>3. RetriesRightly /\ FailureNotMasked
    BY <1>1, <1>2 DEF RetriesRightly, FailureNotMasked
  <1> QED
    BY <1>1, <1>3 DEF Attempts, After

(* Steps before the first evaluation, and what they answer.                 *)
LEMMA AttemptsBefore ==
    Typed /\ Attempts /\ (Start \/ Build \/ Route \/ Replan \/ Estimate) => Attempts'
PROOF
  <1> SUFFICES ASSUME Typed, Attempts, Start \/ Build \/ Route \/ Replan \/ Estimate
               PROVE  Attempts'
    OBVIOUS
  <1>1. pc \in Before /\ UNCHANGED <<tried, fallback>>
    BY DEF Start, Build, Route, Replan, Estimate, Before
  <1>2. tried' = <<>> /\ fallback' = "none"
    BY <1>1 DEF Attempts
  <1>3. Len(tried') = 0
    BY <1>2
  <1>4. pc' \in Before \cup {"done"}
    BY DEF Start, Build, Route, Replan, Estimate, Respond, AfterReplan, Before
  <1>5. RetriesRightly' /\ FailureNotMasked'
    BY <1>2, <1>3 DEF RetriesRightly, FailureNotMasked
  <1> QED
    BY <1>2, <1>4, <1>5 DEF Attempts, Before, After

(* The first evaluation; a failure keeps its outcome as the error.          *)
LEMMA AttemptsEvaluate == Typed /\ Attempts /\ Evaluate => Attempts'
PROOF
  <1> SUFFICES ASSUME Typed, Attempts, Evaluate PROVE Attempts'
    OBVIOUS
  <1>1. tried = <<>> /\ fallback' = "none" /\ at' = at
    BY DEF Attempts, Evaluate, Before
  <1>2. PICK o \in Outcome : /\ Serving(o)
                             /\ o = "ok" => pc' = "limit"
                             /\ o # "ok" => error' = o /\ pc' = "failed"
    BY DEF Evaluate
  <1>3. Len(tried') = 1 /\ tried'[1].outcome = o /\ tried'[1].at = at
    <2>1. Len(tried') = 1 /\ tried'[1] = [plan |-> plan, at |-> at, outcome |-> o]
      BY <1>1, <1>2, ServedFirst
    <2> QED
      BY <2>1
  <1>4. RetriesRightly'
    BY <1>3 DEF RetriesRightly
  <1>5. FailureNotMasked'
    BY <1>2 DEF FailureNotMasked
  <1> QED
    BY <1>1, <1>2, <1>3, <1>4, <1>5 DEF Attempts, Before, After

(* Only a failed execution in an adaptive mode is retried, for the instant  *)
(* it had.                                                                  *)
LEMMA AttemptsFallback == Typed /\ Attempts /\ Fallback => Attempts'
PROOF
  <1> SUFFICES ASSUME Typed, Attempts, Fallback PROVE Attempts'
    OBVIOUS
  <1>1. /\ Len(tried) = 1 /\ tried[1].at = at /\ at' = at
        /\ tried[1].outcome = error /\ error # "ok"
        /\ UNCHANGED <<tried, error, mode>>
    BY DEF Attempts, Fallback, Pinned
  <1>2. RetriesRightly'
    BY <1>1 DEF RetriesRightly
  <1>3. CASE pc' = "retry"
    <2>1. Adaptive(mode) /\ error = "execution"
      BY <1>3 DEF Fallback, Eligible, Respond
    <2>2. plan' = "local"
      BY <1>3, PlannedType DEF Fallback, Respond
    <2>3. Adaptive(mode')
      BY <1>1, <2>1
    <2>4. FailureNotMasked'
      BY <1>3 DEF FailureNotMasked
    <2> QED
      BY <1>1, <1>2, <1>3, <2>1, <2>2, <2>3, <2>4 DEF Attempts, Before, After, Adaptive
  <1>4. CASE pc' # "retry"
    <2>1. pc' = "done" /\ response'.status = error
      BY <1>4 DEF Fallback, Respond
    <2>2. FailureNotMasked'
      BY <1>1, <2>1 DEF FailureNotMasked
    <2> QED
      BY <1>2, <2>1, <2>2 DEF Attempts, Before, After
  <1> QED
    BY <1>3, <1>4

(* The retry is the second evaluation, and its client errors do not replace *)
(* the failed execution.                                                    *)
LEMMA AttemptsRetry == Typed /\ Attempts /\ Retry => Attempts'
PROOF
  <1> SUFFICES ASSUME Typed, Attempts, Retry PROVE Attempts'
    OBVIOUS
  <1>1. /\ Len(tried) = 1 /\ tried[1].at = at /\ Adaptive(mode) /\ plan = "local"
        /\ tried[1].outcome = "execution" /\ error = "execution"
    BY DEF Attempts, Retry
  <1>2. PICK o \in Outcome :
            /\ Serving(o)
            /\ o = "ok" => pc' = "limit" /\ fallback' = "success"
            /\ o # "ok" => pc' = "done" /\ response' = [status |-> ServedError(o)]
    BY DEF Retry
  <1>3. o \in Outcomes /\ plan \in Plans /\ at \in 0..MaxTime
    BY <1>2, OutcomeType DEF Typed, TypeOK, Retry
  <1>4. /\ Len(tried') = 2 /\ tried'[1] = tried[1]
        /\ tried'[2] = [plan |-> plan, at |-> at, outcome |-> o]
    BY <1>1, <1>2, <1>3, ServedAgain DEF Typed
  <1>5. UNCHANGED mode
    BY DEF Retry
  <1>6. RetriesRightly'
    BY <1>1, <1>4, <1>5 DEF RetriesRightly, Adaptive
  <1>7. ServedError(o) = "execution"
    BY <1>1 DEF ServedError
  <1>8. FailureNotMasked'
    BY <1>2, <1>7 DEF FailureNotMasked
  <1> QED
    BY <1>2, <1>4, <1>6, <1>8 DEF Attempts, Before, After

(* Nothing after the evaluation evaluates again to serve.                   *)
LEMMA AttemptsAfter ==
    Typed /\ Attempts /\ (Limit \/ Prepare \/ Compare \/ Send) => Attempts'
PROOF
  <1> SUFFICES ASSUME Typed, Attempts, Limit \/ Prepare \/ Compare \/ Send
               PROVE  Attempts'
    OBVIOUS
  <1>1. pc \in After /\ UNCHANGED <<tried, fallback, mode>>
    BY DEF Limit, Prepare, Compare, Send, After
  <1>2. pc' \in After \cup {"done"}
    BY DEF Limit, Prepare, Compare, Send, Respond, AfterLimit, AfterShadow, After
  <1>3. RetriesRightly'
    BY <1>1 DEF Attempts, RetriesRightly, Adaptive
  <1>4. FailureNotMasked'
    BY <1>1 DEF Attempts, FailureNotMasked
  <1> QED
    BY <1>1, <1>2, <1>3, <1>4 DEF Attempts, Before, After

(* The surroundings evaluate nothing.                                       *)
LEMMA AttemptsEnv ==
    Attempts /\ (Tick \/ ContextEnds \/ UNCHANGED vars) => Attempts'
PROOF
  <1> SUFFICES ASSUME Attempts, Tick \/ ContextEnds \/ UNCHANGED vars PROVE Attempts'
    OBVIOUS
  <1>1. UNCHANGED <<pc, mode, plan, at, error, response, tried, fallback>>
    BY DEF Tick, ContextEnds, vars
  <1> QED
    BY <1>1 DEF Attempts, RetriesRightly, FailureNotMasked, Adaptive

(* One step of any kind.                                                    *)
LEMMA AttemptsStep == Typed /\ Attempts /\ [Next]_vars => Attempts'
PROOF
  BY AttemptsBefore, AttemptsEvaluate, AttemptsFallback, AttemptsRetry, AttemptsAfter,
     AttemptsEnv DEF Next, Step, Answered

(* Attempts is inductive relative to the types.                             *)
LEMMA Attempted == Spec => []Attempts
PROOF
  <1>1. Spec => []Typed
    BY TypedInit, TypedStep, PTL DEF Spec
  <1> QED
    BY <1>1, AttemptsInit, AttemptsStep, PTL DEF Spec

(* A query is evaluated to be served at most twice, the second time only    *)
(* after a failed execution in an adaptive mode, with the full local plan   *)
(* and for the instant of the first (instantExecutionFallback).             *)
THEOREM RetriesAreRight == Spec => []RetriesRightly
PROOF
  <1>1. Attempts => RetriesRightly
    BY DEF Attempts
  <1> QED
    BY <1>1, Attempted, PTL

(* A failed execution is never answered as an error of the client's own     *)
(* (servedErrorAfterLocalFailure).                                          *)
THEOREM FailuresShow == Spec => []FailureNotMasked
PROOF
  <1>1. Attempts => FailureNotMasked
    BY DEF Attempts
  <1> QED
    BY <1>1, Attempted, PTL

-----------------------------------------------------------------------------
(* Which plan is chosen.                                                    *)

Gated ==
    /\ policy = "cost_prefer" /\ Adaptive(mode)
    /\ Justified(routing.class, Strategy(routing.strict))

Choice ==
    /\ pc = "plan" => mode = ModeFor(req.mode)
    /\ mode = "force_supported" =>
          (pc \in {"route", "replan", "estimate", "evaluate", "failed"} =>
              plan = "native" /\ pc # "replan")
    /\ pc = "replan" => Gated /\ plan = routing.strict
    /\ pc \in {"estimate", "evaluate"} /\ mode # "shadow" =>
          (plan = routing.strict \/ Gated)
    /\ NativeOnly
    /\ StrictUnlessGated

(* Nothing is chosen.                                                       *)
LEMMA ChoiceInit == Init => Choice
PROOF
  <1> SUFFICES ASSUME Init PROVE Choice
    OBVIOUS
  <1>1. pc = "start" /\ tried = <<>> /\ mode = "prefer"
    BY DEF Init
  <1> QED
    BY <1>1 DEF Choice, NativeOnly, StrictUnlessGated

(* Under force_supported the plan is native from the start.                 *)
LEMMA ChoicePlan ==
    Typed /\ Attempts /\ Choice /\ (Start \/ Build) => Choice'
PROOF
  <1> SUFFICES ASSUME Typed, Attempts, Choice, Start \/ Build PROVE Choice'
    OBVIOUS
  <1>1. tried' = <<>>
    BY DEF Attempts, Start, Build, Before
  <1>2. (NativeOnly /\ StrictUnlessGated)'
    BY <1>1 DEF NativeOnly, StrictUnlessGated
  <1>3. CASE Start
    <2>1. pc' \in {"plan", "done"}
      BY <1>3 DEF Start, Respond
    <2>2. pc' = "plan" => mode' = ModeFor(req.mode)
      BY <1>3 DEF Start, Respond
    <2>3. ModeFor(req.mode)' = ModeFor(req.mode)
      BY <1>3 DEF Start, ModeFor, input
    <2> QED
      BY <1>2, <2>1, <2>2, <2>3 DEF Choice
  <1>4. CASE Build
    <2>1. pc' \in {"evaluate", "route", "done"} /\ UNCHANGED mode
      BY <1>4 DEF Build, Respond
    <2>2. mode # "shadow" => pc' # "evaluate"
      BY <1>4 DEF Build, Respond
    <2>3. ASSUME mode = "force_supported", pc' = "route" PROVE plan' = "native"
      <3>1. ModeFor(req.mode) = "force_supported"
        BY <1>4, <2>3 DEF Choice, Build
      <3>2. Planned("force_supported") # "none" /\ plan' = Planned("force_supported")
        BY <1>4, <2>3, <3>1 DEF Build, Builds, PlanningMode, Respond
      <3> QED
        BY <3>2, PlannedType
    <2> QED
      BY <1>2, <2>1, <2>2, <2>3 DEF Choice
  <1> QED
    BY <1>3, <1>4

(* The strict plan is noted; an override is decided only as the gates       *)
(* allow.                                                                   *)
LEMMA ChoiceRoute == Typed /\ Attempts /\ Choice /\ Route => Choice'
PROOF
  <1> SUFFICES ASSUME Typed, Attempts, Choice, Route PROVE Choice'
    OBVIOUS
  <1>1. tried' = <<>>
    BY DEF Attempts, Route, Before
  <1>2. (NativeOnly /\ StrictUnlessGated)'
    BY <1>1 DEF NativeOnly, StrictUnlessGated
  <1>3. UNCHANGED <<mode, policy, plan>> /\ pc = "route" /\ mode \in Modes
    BY DEF Route, Typed, TypeOK
  <1>4. PICK c \in Classes :
            /\ routing'.strict = plan /\ routing'.class = c
            /\ pc' = IF Decide(c, Strategy(plan)).decision = "local_override"
                     THEN "replan" ELSE "estimate"
    BY DEF Route
  <1>6. pc' = "replan" =>
           policy = "cost_prefer" /\ Adaptive(mode) /\ Justified(c, Strategy(plan))
    BY <1>3, <1>4, OverrideNeedsGate
  <1>7. pc' = "replan" => Gated'
    BY <1>3, <1>4, <1>6 DEF Gated, Adaptive
  <1>8. pc' = "replan" => mode # "force_supported"
    BY <1>6 DEF Adaptive
  <1>9. mode = "force_supported" => plan = "native"
    BY <1>3 DEF Choice
  <1>10. pc' \in {"replan", "estimate"} /\ plan' = routing'.strict
    BY <1>3, <1>4
  <1> QED
    BY <1>2, <1>3, <1>7, <1>8, <1>9, <1>10 DEF Choice

(* The plan leaves the strict one only after an override.                   *)
LEMMA ChoiceReplan == Typed /\ Attempts /\ Choice /\ Replan => Choice'
PROOF
  <1> SUFFICES ASSUME Typed, Attempts, Choice, Replan PROVE Choice'
    OBVIOUS
  <1>1. tried' = <<>>
    BY DEF Attempts, Replan, Before
  <1>2. (NativeOnly /\ StrictUnlessGated)'
    BY <1>1 DEF NativeOnly, StrictUnlessGated
  <1>3. UNCHANGED <<mode, policy>> /\ pc' = "estimate" /\ Gated
    BY DEF Replan, AfterReplan, Choice
  <1>4. routing'.class = routing.class /\ routing'.strict = routing.strict
    BY DEF Replan, Revoked, Typed, Routings
  <1>5. Gated'
    BY <1>3, <1>4 DEF Gated, Adaptive
  <1>6. mode # "force_supported"
    BY <1>3 DEF Gated, Adaptive
  <1> QED
    BY <1>2, <1>3, <1>5, <1>6 DEF Choice

(* The estimate ends the request or lets it be evaluated.                   *)
LEMMA ChoiceEstimate == Typed /\ Attempts /\ Choice /\ Estimate => Choice'
PROOF
  <1> SUFFICES ASSUME Typed, Attempts, Choice, Estimate PROVE Choice'
    OBVIOUS
  <1>1. UNCHANGED <<mode, policy, plan, routing, tried>>
    BY DEF Estimate
  <1>2. pc = "estimate" /\ pc' \in {"evaluate", "done"}
    BY DEF Estimate, Respond
  <1>3. Gated' = Gated
    BY <1>1 DEF Gated, Adaptive
  <1>4. NativeOnly' /\ StrictUnlessGated'
    BY <1>1 DEF Choice, NativeOnly, StrictUnlessGated, Adaptive
  <1> QED
    BY <1>1, <1>2, <1>3, <1>4 DEF Choice

(* What is evaluated first is what was chosen.                              *)
LEMMA ChoiceEvaluate == Typed /\ Attempts /\ Choice /\ Evaluate => Choice'
PROOF
  <1> SUFFICES ASSUME Typed, Attempts, Choice, Evaluate PROVE Choice'
    OBVIOUS
  <1>1. tried = <<>> /\ pc = "evaluate" /\ UNCHANGED <<mode, policy, plan, routing>>
    BY DEF Attempts, Evaluate, Before
  <1>2. PICK o \in Outcome : Serving(o)
    BY DEF Evaluate
  <1>3. Len(tried') = 1 /\ tried'[1].plan = plan
    <2>1. Len(tried') = 1 /\ tried'[1] = [plan |-> plan, at |-> at, outcome |-> o]
      BY <1>1, <1>2, ServedFirst
    <2> QED
      BY <2>1
  <1>4. pc' \in {"limit", "failed"}
    BY DEF Evaluate
  <1>5. NativeOnly'
    <2>1. DOMAIN tried' = {1}
      <3>1. tried' \in Seq(Tries)
        BY EvaluateTyped DEF Typed
      <3> QED
        BY <1>3, <3>1
    <2>2. mode = "force_supported" => plan = "native"
      BY <1>1 DEF Choice
    <2> QED
      BY <1>1, <1>3, <2>1, <2>2 DEF NativeOnly
  <1>6. StrictUnlessGated'
    <2>1. mode # "shadow" => plan = routing.strict \/ Gated
      BY <1>1 DEF Choice
    <2> QED
      BY <1>1, <1>3, <2>1 DEF StrictUnlessGated, Gated, Adaptive
  <1>7. mode = "force_supported" => plan = "native"
    BY <1>1 DEF Choice
  <1> QED
    BY <1>1, <1>4, <1>5, <1>6, <1>7 DEF Choice

(* force_supported is not adaptive, so nothing is retried under it.         *)
LEMMA ChoiceFallback == Typed /\ Attempts /\ Choice /\ Fallback => Choice'
PROOF
  <1> SUFFICES ASSUME Typed, Attempts, Choice, Fallback PROVE Choice'
    OBVIOUS
  <1>1. UNCHANGED <<mode, policy, routing, tried>>
    BY DEF Fallback
  <1>2. pc' \in {"retry", "done"}
    BY DEF Fallback, Respond
  <1>3. NativeOnly' /\ StrictUnlessGated'
    BY <1>1 DEF Choice, NativeOnly, StrictUnlessGated, Adaptive
  <1> QED
    BY <1>2, <1>3 DEF Choice

(* The retry leaves the first evaluation and its class alone.               *)
LEMMA ChoiceRetry == Typed /\ Attempts /\ Choice /\ Retry => Choice'
PROOF
  <1> SUFFICES ASSUME Typed, Attempts, Choice, Retry PROVE Choice'
    OBVIOUS
  <1>1. Len(tried) = 1 /\ Adaptive(mode) /\ UNCHANGED <<mode, policy>>
    BY DEF Attempts, Retry
  <1>2. pc' \in {"limit", "done"}
    BY DEF Retry
  <1>3. mode # "force_supported"
    BY <1>1 DEF Adaptive
  <1>4. NativeOnly'
    BY <1>1, <1>3 DEF NativeOnly
  <1>5. PICK o \in Outcome : Serving(o)
    BY DEF Retry
  <1>6. tried'[1] = tried[1] /\ tried # <<>>
    <2>1. o \in Outcomes /\ plan \in Plans /\ at \in 0..MaxTime /\ tried \in Seq(Tries)
      BY <1>5, OutcomeType DEF Typed, TypeOK, Retry
    <2>2. tried'[1] = tried[1]
      BY <1>1, <1>5, <2>1, ServedAgain
    <2>3. tried # <<>>
      BY <1>1
    <2> QED
      BY <2>2, <2>3
  <1>7. routing'.strict = routing.strict /\ routing'.class = routing.class
    BY DEF Retry, ServedLocally, Typed, Routings
  <1>8. StrictUnlessGated'
    BY <1>1, <1>6, <1>7 DEF Choice, StrictUnlessGated, Adaptive
  <1> QED
    BY <1>2, <1>4, <1>8 DEF Choice

(* The end of the pipeline chooses nothing.                                 *)
LEMMA ChoiceAfter ==
    Typed /\ Attempts /\ Choice /\ (Limit \/ Prepare \/ Compare \/ Send) => Choice'
PROOF
  <1> SUFFICES ASSUME Typed, Attempts, Choice, Limit \/ Prepare \/ Compare \/ Send
               PROVE  Choice'
    OBVIOUS
  <1>1. UNCHANGED <<mode, policy, routing, tried>>
    BY DEF Limit, Prepare, Compare, Send
  <1>2. pc' \in {"alternate", "compare", "send", "done"}
    BY DEF Limit, Prepare, Compare, Send, AfterLimit, AfterShadow, Respond
  <1>3. NativeOnly' /\ StrictUnlessGated'
    BY <1>1 DEF Choice, NativeOnly, StrictUnlessGated, Adaptive
  <1> QED
    BY <1>2, <1>3 DEF Choice

(* The surroundings choose nothing.                                         *)
LEMMA ChoiceEnv == Choice /\ (Tick \/ ContextEnds \/ UNCHANGED vars) => Choice'
PROOF
  <1> SUFFICES ASSUME Choice, Tick \/ ContextEnds \/ UNCHANGED vars PROVE Choice'
    OBVIOUS
  <1>1. UNCHANGED <<conf, req, pc, mode, policy, plan, routing, tried>>
    BY DEF Tick, ContextEnds, vars, input
  <1> QED
    BY <1>1 DEF Choice, NativeOnly, StrictUnlessGated, Gated, Adaptive, ModeFor

(* Choice is inductive relative to the types and Attempts.                  *)
LEMMA Chosen == Spec => []Choice
PROOF
  <1>1. Spec => []Typed
    BY TypedInit, TypedStep, PTL DEF Spec
  <1>2. Typed /\ Attempts /\ Choice /\ [Next]_vars => Choice'
    BY ChoicePlan, ChoiceRoute, ChoiceReplan, ChoiceEstimate, ChoiceEvaluate,
       ChoiceFallback, ChoiceRetry, ChoiceAfter, ChoiceEnv DEF Next, Step, Answered
  <1> QED
    BY <1>1, <1>2, Attempted, ChoiceInit, PTL DEF Spec

(* Under force_supported nothing but native SQL is evaluated for the        *)
(* response: neither cost routing nor the fallback can change that          *)
(* (decide, executionFallbackEligible).                                     *)
THEOREM OnlyNative == Spec => []NativeOnly
PROOF
  <1>1. Choice => NativeOnly
    BY DEF Choice
  <1> QED
    BY <1>1, Chosen, PTL

(* Another plan than the strict one is evaluated first only under           *)
(* cost_prefer in an adaptive mode, for an open gate, on known estimates    *)
(* under every cap and with a predicted win (decide).                       *)
THEOREM StrictFirst == Spec => []StrictUnlessGated
PROOF
  <1>1. Choice => StrictUnlessGated
    BY DEF Choice
  <1> QED
    BY <1>1, Chosen, PTL

-----------------------------------------------------------------------------
(* What reaches the client.                                                 *)

Checked == {"alternate", "compare", "send"}

Passed(v) ==
    /\ v \in Values /\ v.at # -1 /\ v.series <= MaxSeries
    /\ req.limit # 0 => v.series <= req.limit
    /\ req.timed => v.at = 0

Served ==
    /\ req.timed => at = 0
    /\ pc # "done" => response = None
    /\ pc = "limit" => value.at # -1 /\ (req.timed => value.at = 0)
    /\ pc \in Checked => Passed(answer)
    /\ pc \notin Checked \cup {"done"} => answer = NoValue
    /\ pc = "done" => \/ response.status # "ok" /\ answer = NoValue
                      \/ response = [status |-> "ok", value |-> answer] /\ Passed(answer)

(* What Served says of the answer gives both properties.                    *)
LEMMA ServedMeans == Served => LimitsHold /\ ShadowHarmless
PROOF
  <1> SUFFICES ASSUME Served PROVE LimitsHold /\ ShadowHarmless
    OBVIOUS
  <1>1. CASE pc # "done"
    <2>1. response.status # "ok"
      BY <1>1 DEF Served, None
    <2> QED
      BY <1>1, <2>1 DEF LimitsHold, ShadowHarmless, Ok
  <1>2. CASE pc = "done" /\ response.status # "ok" /\ answer = NoValue
    BY <1>2 DEF LimitsHold, ShadowHarmless, Ok
  <1>3. CASE response = [status |-> "ok", value |-> answer] /\ Passed(answer)
    <2>1. response.status = "ok" /\ response.value = answer
      BY <1>3
    <2> QED
      BY <1>3, <2>1 DEF LimitsHold, ShadowHarmless, Ok, Passed
  <1> QED
    BY <1>1, <1>2, <1>3 DEF Served

(* No response and no answer yet.                                           *)
LEMMA ServedInit == Init => Served
PROOF
  BY DEF Init, Served, Checked

(* Answers that carry no result.                                            *)
LEMMA Refusal ==
    ASSUME Served, pc \notin Checked \cup {"done"}, NEW s, s # "ok", Respond(s),
           UNCHANGED <<answer, req, at>>
    PROVE  Served'
PROOF
  <1>1. pc' = "done" /\ response'.status # "ok"
    BY DEF Respond
  <1>2. answer' = NoValue /\ (req'.timed => at' = 0)
    BY DEF Served
  <1> QED
    BY <1>1, <1>2 DEF Served, Checked

(* The request goes on, without a result yet.                               *)
LEMMA Onward ==
    ASSUME Served, pc \notin Checked \cup {"done"},
           pc' \notin Checked \cup {"done", "limit"},
           UNCHANGED <<answer, req, response>>, req.timed => at' = 0
    PROVE  Served'
PROOF
  BY DEF Served

(* Before the evaluation a response is a refusal.                           *)
LEMMA ServedPlanning ==
    Typed /\ Served /\ (Start \/ Build \/ Route \/ Replan \/ Estimate) => Served'
PROOF
  <1> SUFFICES ASSUME Typed, Served, Start \/ Build \/ Route \/ Replan \/ Estimate
               PROVE  Served'
    OBVIOUS
  <1>1. pc \notin Checked \cup {"done"} /\ UNCHANGED <<answer, req>>
    BY DEF Start, Build, Route, Replan, Estimate, Checked, input
  <1>2. CASE \E s \in {"override_disabled", "client", "estimated_over_limit"} :
                Respond(s) /\ UNCHANGED at
    BY <1>1, <1>2, Refusal
  <1>3. CASE /\ UNCHANGED response
             /\ pc' \in {"plan", "evaluate", "route", "replan", "estimate"}
             /\ req.timed => at' = 0
    BY <1>1, <1>3, Onward DEF Checked
  <1>4. req.timed => at = 0
    BY DEF Served
  <1>5. CASE Start
    BY <1>2, <1>3, <1>4, <1>5 DEF Start
  <1>6. CASE Build
    BY <1>2, <1>3, <1>4, <1>6 DEF Build, Instant
  <1>7. CASE Route \/ Replan
    BY <1>3, <1>4, <1>7 DEF Route, Replan, AfterReplan
  <1>8. CASE Estimate
    BY <1>2, <1>3, <1>4, <1>8 DEF Estimate
  <1> QED
    BY <1>5, <1>6, <1>7, <1>8

(* A result is for the instant of its plan, and a retry has the same one.   *)
LEMMA ServedRun ==
    Typed /\ Attempts /\ Served /\ (Evaluate \/ Fallback \/ Retry) => Served'
PROOF
  <1> SUFFICES ASSUME Typed, Attempts, Served, Evaluate \/ Fallback \/ Retry
               PROVE  Served'
    OBVIOUS
  <1>1. /\ pc \notin Checked \cup {"done"} /\ UNCHANGED <<answer, req, at>>
        /\ req.timed => at = 0
    BY DEF Evaluate, Fallback, Retry, Checked, input, Served, Pinned
  <1>2. at \in 0..MaxTime
    BY DEF Typed, TypeOK
  <1>3. CASE pc' = "limit" /\ value' = Result(at) /\ UNCHANGED response
    <2>1. value'.at = at /\ at # -1
      BY <1>2, <1>3 DEF Result
    <2> QED
      BY <1>1, <1>3, <2>1 DEF Served, Checked
  <1>4. CASE pc' \in {"failed", "retry"} /\ UNCHANGED response
    BY <1>1, <1>4, Onward DEF Checked
  <1>5. CASE Evaluate
    BY <1>3, <1>4, <1>5 DEF Evaluate
  <1>6. CASE Fallback
    <2>1. error # "ok"
      BY <1>6 DEF Fallback, Attempts
    <2>2. (pc' = "retry" /\ UNCHANGED response) \/ Respond(error)
      BY <1>6 DEF Fallback
    <2> QED
      BY <1>1, <1>4, <2>1, <2>2, Refusal
  <1>7. CASE Retry
    <2>1. error = "execution"
      BY <1>7 DEF Retry, Attempts
    <2>2. (pc' = "limit" /\ value' = Result(at) /\ UNCHANGED response)
            \/ (\E o : Respond(ServedError(o)))
      BY <1>7 DEF Retry, Respond
    <2>3. \A o : ServedError(o) # "ok"
      BY <2>1 DEF ServedError
    <2> QED
      BY <1>1, <1>3, <2>2, <2>3, Refusal
  <1> QED
    BY <1>5, <1>6, <1>7

(* Only a result within the limits becomes the answer.                      *)
LEMMA ServedLimit == Typed /\ Served /\ Limit => Served'
PROOF
  <1> SUFFICES ASSUME Typed, Served, Limit PROVE Served'
    OBVIOUS
  <1>1. /\ pc = "limit" /\ UNCHANGED <<req, at>>
        /\ value.at # -1 /\ (req.timed => value.at = 0 /\ at = 0)
    BY DEF Limit, input, Served
  <1>2. /\ value' = Shortened(value) /\ value' \in Values /\ value'.at = value.at
        /\ req.limit # 0 => value'.series <= req.limit
    BY Bounds, ShortenedType DEF Limit, Typed, Inputs
  <1>3. CASE Within(value')
    <2>1. /\ answer' = value' /\ pc' \in {"alternate", "send"} /\ UNCHANGED response
      BY <1>3 DEF Limit, AfterLimit
    <2>2. value'.series <= MaxSeries
      BY <1>3 DEF Within
    <2>3. Passed(answer)'
      BY <1>1, <1>2, <2>1, <2>2 DEF Passed, Values
    <2> QED
      BY <1>1, <2>1, <2>3 DEF Served, Checked
  <1>4. CASE ~ Within(value')
    <2>1. Respond("client") /\ UNCHANGED answer
      BY <1>4 DEF Limit
    <2> QED
      BY <1>1, <2>1, Refusal DEF Checked
  <1> QED
    BY <1>3, <1>4

(* The shadow run has its own instant and result and only notes what it     *)
(* found.                                                                   *)
LEMMA ServedShadow == Typed /\ Served /\ (Prepare \/ Compare \/ Send) => Served'
PROOF
  <1> SUFFICES ASSUME Typed, Served, Prepare \/ Compare \/ Send PROVE Served'
    OBVIOUS
  <1>1. pc \in Checked /\ UNCHANGED <<answer, req, at>> /\ Passed(answer)
    BY DEF Prepare, Compare, Send, input, Served, Checked
  <1>2. Passed(answer)' /\ (req'.timed => at' = 0)
    BY <1>1 DEF Passed, Values, Served
  <1>3. CASE Prepare \/ Compare
    <2>1. pc' \in {"compare", "send"} /\ response' = None
      BY <1>1, <1>3 DEF Prepare, Compare, AfterShadow, Served, Checked
    <2> QED
      BY <1>2, <2>1 DEF Served, Checked
  <1>4. CASE Send
    <2>1. pc' = "done" /\ response' = [status |-> "ok", value |-> answer']
      BY <1>1, <1>4 DEF Send
    <2> QED
      BY <1>2, <2>1 DEF Served, Checked
  <1> QED
    BY <1>3, <1>4

(* A request that names its instant does not follow the clock.              *)
LEMMA ServedEnv == Served /\ (Tick \/ ContextEnds \/ UNCHANGED vars) => Served'
PROOF
  <1> SUFFICES ASSUME Served, Tick \/ ContextEnds \/ UNCHANGED vars PROVE Served'
    OBVIOUS
  <1>1. UNCHANGED <<req, pc, at, value, answer, response>>
    BY DEF Tick, ContextEnds, vars, input
  <1> QED
    BY <1>1 DEF Served, Passed, Values

(* Served is inductive relative to the types and Attempts.                  *)
LEMMA IsServed == Spec => []Served
PROOF
  <1>1. Spec => []Typed
    BY TypedInit, TypedStep, PTL DEF Spec
  <1>2. Typed /\ Attempts /\ Served /\ [Next]_vars => Served'
    BY ServedPlanning, ServedRun, ServedLimit, ServedShadow, ServedEnv
       DEF Next, Step, Answered
  <1> QED
    BY <1>1, <1>2, Attempted, ServedInit, PTL DEF Spec

(* What is served is within MaxResponseSeries and ?limit= and, when the     *)
(* request names an instant, was computed for it (applyQueryLimit,          *)
(* enforceResponseLimits).                                                  *)
THEOREM LimitsAreKept == Spec => []LimitsHold
PROOF
  BY IsServed, ServedMeans, PTL

(* A result that passed the limits is what the client gets: the shadow run  *)
(* neither changes nor fails it (instantQueryShadow, runCostShadowInstant).  *)
THEOREM ShadowIsHarmless == Spec => []ShadowHarmless
PROOF
  BY IsServed, ServedMeans, PTL
=============================================================================
