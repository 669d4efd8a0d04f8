----------------------------- MODULE RuleExpand -----------------------------
(***************************************************************************)
(* Recording rules put into a query in place of their names                *)
(* (internal/promshim/rules/expand.go): the rewriting of a parsed query    *)
(* that replaces each selector of a rule's metric by the rule's            *)
(* expression, relabelled and filtered as the selector asks.  The rules    *)
(* and the registry that holds them are those of RuleRegistry.             *)
(***************************************************************************)
EXTENDS QueryBuild, RuleRegistry

----------------------------------------------------------------------------
(* The pieces an expansion is built from. *)

\* A query that cannot be expanded is a bad request (expandRecordingRules).
Refused == Refusal("bad_data")

LiteralVector(v) == Call("vector", <<Number(v)>>)

\* label_replace(expr, label, value, "", ".*"): the value whatever was there.
SetLabel(expr, label, value) ==
    Call("label_replace",
         <<expr, String(label), String(value), String(Absent), Pattern({})>>)

SetOperation(op, lhs, rhs, on, labels) ==
    [node |-> "binary", op |-> op, lhs |-> lhs, rhs |-> rhs, bool |-> FALSE,
     matching |-> <<[OneToOne EXCEPT !.card = "many-to-many", !.on = on,
                                     !.labels = labels]>>]

\* emptyVectorExpr: vector(0) unless vector(0)
EmptyVector == SetOperation("unless", LiteralVector(0), LiteralVector(0), FALSE, {})

\* selectorMetricName: the name an equality matcher asks for, 0 for none.
SelectorName(selector) ==
    LET named == SelectSeq(selector.matchers, LAMBDA m : m.label = MetricName /\ m.type = "=")
    IN  IF named = <<>> THEN Absent ELSE CHOOSE v \in Head(named).values : TRUE

\* wrapRuleExpression
WrapRule(rule) ==
    LET static == StaticLabels(rule)
    IN  FoldLeft(LAMBDA expr, l : SetLabel(expr, l, static[l]), rule.expr,
                 Ascending(DOMAIN static))

\* applySelectorMatchers: an equality on a label the rule does not set itself
\* becomes a join with a vector of that label alone; nothing else can be
\* asked of such a label.
ApplyMatchers(expr, matchers, static) ==
    LET dynamic == SelectSeq(matchers, LAMBDA m : m.label \notin DOMAIN static)
        restrict(e, m) ==
            SetOperation("and", e,
                         SetLabel(LiteralVector(1), m.label, CHOOSE v \in m.values : TRUE),
                         TRUE, {m.label})
    IN  IF \E i \in DOMAIN dynamic : dynamic[i].type # "=" THEN Refused
        ELSE FoldLeft(restrict, expr, dynamic)

\* expandVectorSelector: what the selector says of the time, its offset and
\* @ modifier, has no place in what is returned.
ExpandSelector(selector, registry) ==
    LET name == SelectorName(selector)
        rule == registry.byName[name]
        static == StaticLabels(rule)
    IN  IF name = Absent THEN selector
        ELSE IF name \in registry.conflicts THEN Refused
        ELSE IF name \notin DOMAIN registry.byName THEN selector
        ELSE IF StaticMismatch(selector.matchers, static) THEN EmptyVector
        ELSE ApplyMatchers(WrapRule(rule), selector.matchers, static)

NamesRule(selector, registry) ==
    SelectorName(selector) \in DOMAIN registry.byName \cup registry.conflicts

RECURSIVE Expand(_, _)

\* The parts of a node expanded in their places; refused with any of them.
\* (An aggregation's parameter is left as it is.)
ExpandParts(expr, registry) ==
    LET child == Expand(expr.child, registry)
        lhs == Expand(expr.lhs, registry)
        rhs == Expand(expr.rhs, registry)
        args == [i \in DOMAIN expr.args |-> Expand(expr.args[i], registry)]
    IN  CASE expr.node = "binary" ->
               Given(<<lhs, rhs>>, [expr EXCEPT !.lhs = lhs, !.rhs = rhs])
          [] expr.node = "call" -> Given(args, [expr EXCEPT !.args = args])
          [] expr.node \in {"paren", "unary", "aggregate"} ->
               Given(<<child>>, [expr EXCEPT !.child = child])
          [] OTHER -> expr

\* expand: a rule's history is not there to look back into, so a range
\* selector of a rule, and a subquery over one, are refused.
Expand(expr, registry) ==
    CASE expr.node = "selector" -> ExpandSelector(expr, registry)
      [] expr.node = "window" -> IF NamesRule(expr, registry) THEN Refused ELSE expr
      [] expr.node = "subquery" ->
           IF Expand(expr.child, registry) # expr.child THEN Refused ELSE expr
      [] OTHER -> ExpandParts(expr, registry)

\* ExpandExpr
ExpandExpr(expr, registry) == IF Empty(registry) THEN expr ELSE Expand(expr, registry)
=============================================================================
