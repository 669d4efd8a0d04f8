---------------------------- MODULE RuleRegistry ----------------------------
(***************************************************************************)
(* The recording rules a query may name (internal/promshim/rules): the     *)
(* registry that loads them and tells a rule met twice from two rules of   *)
(* one name, and the labels that are known of a rule's series before it is *)
(* evaluated.                                                              *)
(*                                                                         *)
(* A rule is a record: name, expr (a parsed query of QueryBuild; the code  *)
(* keeps the text and parses it again), labels and groupLabels (functions  *)
(* from the labels set to their values).                                   *)
(***************************************************************************)
EXTENDS LocalExec

----------------------------------------------------------------------------
(* The registry: byName and conflicts, as functions of the names they hold. *)

EmptyRegistry == [byName |-> <<>>, conflicts |-> {}]

Empty(registry) == DOMAIN registry.byName \cup registry.conflicts = {}

\* Registry.add: the same rule again changes nothing, another one of its name
\* makes the name a conflict for good.
AddRule(registry, rule) ==
    LET names == DOMAIN registry.byName
        kept == [n \in names \ {rule.name} |-> registry.byName[n]]
        added == [n \in names \cup {rule.name} |->
                     IF n = rule.name THEN rule ELSE registry.byName[n]]
    IN  IF rule.name \in names
        THEN IF registry.byName[rule.name] = rule THEN registry
             ELSE [byName |-> kept, conflicts |-> registry.conflicts \cup {rule.name}]
        ELSE IF rule.name \in registry.conflicts THEN registry
        ELSE [registry EXCEPT !.byName = added]

----------------------------------------------------------------------------
(* The labels of a rule. *)

\* Mutant: a label of the group wins over the rule's own.
GroupLabelsWin(rule) ==
    [l \in {MetricName} \cup DOMAIN rule.labels \cup DOMAIN rule.groupLabels |->
        IF l = MetricName THEN rule.name
        ELSE IF l \in DOMAIN rule.groupLabels THEN rule.groupLabels[l]
        ELSE rule.labels[l]]

\* The labels every series of the rule carries: its name, its own labels and
\* those of its group it does not set (mergedLabels).
StaticLabels(rule) ==
    [l \in {MetricName} \cup DOMAIN rule.labels \cup DOMAIN rule.groupLabels |->
        IF l = MetricName THEN rule.name
        ELSE IF l \in DOMAIN rule.labels THEN rule.labels[l]
        ELSE rule.groupLabels[l]]

\* selectorStaticMismatch
StaticMismatch(matchers, static) ==
    \E i \in DOMAIN matchers :
        /\ matchers[i].label \in DOMAIN static
        /\ ~Matches(matchers[i], static)
=============================================================================
