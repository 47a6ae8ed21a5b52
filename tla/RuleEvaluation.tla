--------------------------- MODULE RuleEvaluation ---------------------------
(***************************************************************************)
(* The evaluation of a cleanup rule on one item                            *)
(* (backend/core/rule_engine.py).  A rule is a tree of conditions and      *)
(* groups; a condition compares the value of a field with the value the    *)
(* rule names, and a field whose source cannot be reached has no value     *)
(* (RULE_VALUE_UNAVAILABLE).  The engine answers twice: whether the rule   *)
(* matches, and whether it is true, false or unknown.                      *)
(*                                                                         *)
(* A tree is a group of groups of conditions; a field is a Boolean, and    *)
(* the operators of the engine are the two ways to compare with it.        *)
(***************************************************************************)
CONSTANTS
    Fields,     \* what rules look at
    Unavailable \* the value of a field whose source cannot be reached

ASSUME UnavailableAssumption == Unavailable \notin BOOLEAN

Conditions == [field : Fields, wanted : BOOLEAN]
Groups == [op : {"and", "or"}, parts : (SUBSET Conditions) \ {{}}]
Roots == [op : {"and", "or"}, groups : (SUBSET Groups) \ {{}}]

\* The context of an item: the value of each field.
Contexts == [Fields -> BOOLEAN \cup {Unavailable}]

\* The fields a rule names.
FieldsOf(root) == {c.field : c \in UNION {g.parts : g \in root.groups}}

-----------------------------------------------------------------------------
(* evaluate_advanced_rule: _evaluate_node, _matches_operator               *)

\* Mutant: a value that is missing is taken for false.
ConditionMatches_Missing(c, context) == (context[c.field] = TRUE) = c.wanted

\* No operator matches a field without a value.
ConditionMatches(c, context) == context[c.field] = c.wanted

GroupMatches(g, context) ==
    IF g.op = "and" THEN \A c \in g.parts : ConditionMatches(c, context)
                    ELSE \E c \in g.parts : ConditionMatches(c, context)

Matches(root, context) ==
    IF root.op = "and" THEN \A g \in root.groups : GroupMatches(g, context)
                       ELSE \E g \in root.groups : GroupMatches(g, context)

-----------------------------------------------------------------------------
(* evaluate_advanced_rule_state: _evaluate_node_state                      *)

States == {"true", "false", "unknown"}

\* False decides a conjunction and true a disjunction, whatever is unknown.
StateOf(op, states) ==
    IF op = "and"
    THEN IF "false" \in states THEN "false"
         ELSE IF "unknown" \in states THEN "unknown" ELSE "true"
    ELSE IF "true" \in states THEN "true"
         ELSE IF "unknown" \in states THEN "unknown" ELSE "false"

ConditionState(c, context) ==
    IF context[c.field] = Unavailable THEN "unknown"
    ELSE IF ConditionMatches(c, context) THEN "true" ELSE "false"

GroupState(g, context) == StateOf(g.op, {ConditionState(c, context) : c \in g.parts})

RuleState(root, context) == StateOf(root.op, {GroupState(g, context) : g \in root.groups})

-----------------------------------------------------------------------------
\* What a context may turn out to be when every source answers.
Completions(context) ==
    {full \in [Fields -> BOOLEAN] :
        \A f \in Fields : context[f] # Unavailable => full[f] = context[f]}
=============================================================================
