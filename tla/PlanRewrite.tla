----------------------------- MODULE PlanRewrite -----------------------------
(***************************************************************************)
(* The logical optimizer (internal/promshim/logical/opt, with the analysis *)
(* of internal/promshim/logical it relies on): every parsed query goes     *)
(* through two rewriting passes, again and again until neither finds       *)
(* anything, before a plan is made from it.                                *)
(*                                                                         *)
(* The code compares subtrees by the text they were parsed from; here they *)
(* are compared themselves.  The average written as a product with a       *)
(* fraction, (x + x) * (1/2), is left out with the fractions.              *)
(***************************************************************************)
EXTENDS RuleExpand

CONSTANT MaxIterations      \* maxOptimizeIterations

ASSUME IterationsAssumption == MaxIterations \in Nat \ {0}

MaxTerms == 16              \* maxRepeatedAverageTerms

----------------------------------------------------------------------------
(* The passes. *)

\* A plan with its children rewritten.
WithChildren(plan, F(_)) ==
    CASE plan.node \in {"selector", "window", "literal", "time"} -> plan
      [] plan.node = "binary" -> [plan EXCEPT !.lhs = F(@), !.rhs = F(@)]
      [] plan.node = "pointwise" ->
           [plan EXCEPT !.child = F(@),
                        !.bounds = [i \in DOMAIN @ |-> F(@[i])]]
      [] OTHER -> [plan EXCEPT !.child = F(@)]

RECURSIVE FoldDoubleNegations(_)

\* constantFoldUnaryNegation: -(-x) is x.
FoldDoubleNegations(plan) ==
    IF /\ plan.node = "unary" /\ plan.op = "-"
       /\ plan.child.node = "unary" /\ plan.child.op = "-"
    THEN FoldDoubleNegations(plan.child.child)
    ELSE WithChildren(plan, FoldDoubleNegations)

RECURSIVE Terms(_)

\* collectImplicitRepeatedAddTerms: the terms of a sum, however it is
\* bracketed; none of a sum that says how its sides are matched.
Terms(plan) ==
    LET lhs == Terms(plan.lhs)
        rhs == Terms(plan.rhs)
        implicit == plan.matching = <<>> \/ plan.matching[1] = OneToOne
    IN  IF plan.node # "binary" \/ plan.op # "+" THEN <<plan>>
        ELSE IF ~implicit \/ lhs = <<>> \/ rhs = <<>> THEN <<>>
        ELSE lhs \o rhs

\* Mutant: terms that may carry a metric name are averaged away too.
IsAverageOfNamed(plan) ==
    /\ plan.node = "binary" /\ plan.op = "/" /\ plan.matching = <<>>
    /\ plan.rhs.node = "literal"
    /\ plan.rhs.v \in 2 .. MaxTerms
    /\ Len(Terms(plan.lhs)) = plan.rhs.v
    /\ \A i \in 1 .. plan.rhs.v : Terms(plan.lhs)[i] = Terms(plan.lhs)[1]

\* repeatedAverageReplacement: (x + ... + x) / n of n terms that are all the
\* same and drop the metric's name.
IsRepeatedAverage(plan) ==
    /\ plan.node = "binary" /\ plan.op = "/" /\ plan.matching = <<>>
    /\ plan.rhs.node = "literal"
    /\ plan.rhs.v \in 2 .. MaxTerms
    /\ LET terms == Terms(plan.lhs)
       IN  /\ Len(terms) = plan.rhs.v
           /\ \A i \in DOMAIN terms : terms[i] = terms[1] /\ NodeInfo(terms[i]).drops

RECURSIVE CancelRepeatedAverages(_)

\* cancelRepeatedAverageInTree: the outermost ones; what is within waits for
\* the next iteration.
CancelRepeatedAverages(plan) ==
    IF IsRepeatedAverage(plan) THEN Terms(plan.lhs)[1]
    ELSE WithChildren(plan, CancelRepeatedAverages)

RECURSIVE OptimizeFrom(_, _)

\* OptimizeWithTrace: an iteration that changes nothing ends it; a query that
\* still changes in the last one is refused.
OptimizeFrom(plan, iteration) ==
    LET next == CancelRepeatedAverages(FoldDoubleNegations(plan))
    IN  IF iteration > MaxIterations THEN Refusal("execution")
        ELSE IF next = plan THEN plan
        ELSE OptimizeFrom(next, iteration + 1)

\* BuildPlanWithContextAndAnalysis: what was refused stays so.
Optimize(plan) == IF IsRefused(plan) THEN plan ELSE OptimizeFrom(plan, 1)
=============================================================================
