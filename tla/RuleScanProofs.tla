---------------------------- MODULE RuleScanProofs ---------------------------
(***************************************************************************)
(* The two evaluations of a rule agree, and a scan neither makes a         *)
(* candidate nor drops a protection because data is missing: for any       *)
(* fields, rules, items and answers of the sources.                        *)
(***************************************************************************)
EXTENDS RuleScan, TLAPS

-----------------------------------------------------------------------------
(* The evaluation of a tree                                                *)

\* A condition matches exactly when it is true: a missing value is not Boolean.
LEMMA ConditionTrue ==
    ASSUME NEW c \in Conditions, NEW x \in Contexts
    PROVE  ConditionState(c, x) = "true" <=> ConditionMatches(c, x)
  BY UnavailableAssumption DEF Conditions, Contexts, ConditionState, ConditionMatches

\* What a condition's state can be.
LEMMA ConditionStates ==
    ASSUME NEW c, NEW x
    PROVE  ConditionState(c, x) \in States
  BY DEF ConditionState, States

\* What the state of a node with children in S says of them.
LEMMA StateOfMeans ==
    ASSUME NEW S \in SUBSET States, NEW op \in {"and", "or"}
    PROVE  /\ StateOf(op, S) \in States
           /\ StateOf(op, S) = "true" <=>
                 IF op = "and" THEN \A s \in S : s = "true" ELSE \E s \in S : s = "true"
           /\ StateOf(op, S) = "false" <=>
                 IF op = "and" THEN \E s \in S : s = "false" ELSE \A s \in S : s = "false"
           /\ StateOf(op, S) = "unknown" => "unknown" \in S
  BY DEF StateOf, States

\* A group matches exactly when it is true.
LEMMA GroupTrue ==
    ASSUME NEW g \in Groups, NEW x \in Contexts
    PROVE  /\ GroupState(g, x) \in States
           /\ GroupState(g, x) = "true" <=> GroupMatches(g, x)
<1> DEFINE S == {ConditionState(c, x) : c \in g.parts}
<1>1. g.op \in {"and", "or"} /\ g.parts \subseteq Conditions
  BY DEF Groups
<1>2. S \in SUBSET States
  BY ConditionStates
<1>3. \A c \in g.parts : ConditionState(c, x) = "true" <=> ConditionMatches(c, x)
  BY <1>1, ConditionTrue
<1>4. /\ (\A s \in S : s = "true") <=> (\A c \in g.parts : ConditionMatches(c, x))
      /\ (\E s \in S : s = "true") <=> (\E c \in g.parts : ConditionMatches(c, x))
  BY <1>3
<1>5. GroupState(g, x) = StateOf(g.op, S)
  BY DEF GroupState
<1> HIDE DEF S
<1> QED
  BY <1>1, <1>2, <1>4, <1>5, StateOfMeans DEF GroupMatches

\* A rule matches exactly when it is true: evaluate_advanced_rule and
\* evaluate_advanced_rule_state agree on every tree and every context.
THEOREM EvaluationsAgree ==
    ASSUME NEW root \in Roots, NEW x \in Contexts
    PROVE  /\ RuleState(root, x) \in States
           /\ RuleState(root, x) = "true" <=> Matches(root, x)
<1> DEFINE S == {GroupState(g, x) : g \in root.groups}
<1>1. root.op \in {"and", "or"} /\ root.groups \subseteq Groups
  BY DEF Roots
<1>2. S \in SUBSET States
  BY <1>1, GroupTrue
<1>3. \A g \in root.groups : GroupState(g, x) = "true" <=> GroupMatches(g, x)
  BY <1>1, GroupTrue
<1>4. /\ (\A s \in S : s = "true") <=> (\A g \in root.groups : GroupMatches(g, x))
      /\ (\E s \in S : s = "true") <=> (\E g \in root.groups : GroupMatches(g, x))
  BY <1>3
<1>5. RuleState(root, x) = StateOf(root.op, S)
  BY DEF RuleState
<1> HIDE DEF S
<1> QED
  BY <1>1, <1>2, <1>4, <1>5, StateOfMeans DEF Matches

-----------------------------------------------------------------------------
(* What missing data can and cannot do                                     *)

\* A field with a value keeps it, so what matches goes on to match.
LEMMA MatchesMonotone ==
    ASSUME NEW root \in Roots, NEW x \in Contexts, NEW full \in Completions(x),
           Matches(root, x)
    PROVE  Matches(root, full)
<1>1. \A c \in Conditions : ConditionMatches(c, x) => ConditionMatches(c, full)
  BY UnavailableAssumption DEF Completions, Conditions, ConditionMatches
<1>2. \A g \in Groups : GroupMatches(g, x) => GroupMatches(g, full)
  BY <1>1 DEF Groups, GroupMatches
<1> QED
  BY <1>2 DEF Roots, Matches

\* A condition that is false stays false.
LEMMA FalseStays ==
    ASSUME NEW c \in Conditions, NEW x \in Contexts, NEW full \in Completions(x),
           ConditionState(c, x) = "false"
    PROVE  ~ConditionMatches(c, full)
<1>1. c.field \in Fields /\ x[c.field] # Unavailable /\ x[c.field] # c.wanted
  BY DEF Conditions, ConditionState, ConditionMatches
<1>2. full[c.field] = x[c.field]
  BY <1>1 DEF Completions
<1> QED
  BY <1>1, <1>2 DEF ConditionMatches

\* So does a group.
LEMMA FalseGroupStays ==
    ASSUME NEW g \in Groups, NEW x \in Contexts, NEW full \in Completions(x),
           GroupState(g, x) = "false"
    PROVE  ~GroupMatches(g, full)
<1> DEFINE S == {ConditionState(c, x) : c \in g.parts}
<1>1. g.op \in {"and", "or"} /\ g.parts \subseteq Conditions /\ g.parts # {}
  BY DEF Groups
<1>2. S \in SUBSET States /\ StateOf(g.op, S) = "false"
  BY ConditionStates DEF GroupState
<1>3. IF g.op = "and" THEN \E s \in S : s = "false" ELSE \A s \in S : s = "false"
  BY <1>1, <1>2, StateOfMeans
<1>4. IF g.op = "and" THEN \E c \in g.parts : ConditionState(c, x) = "false"
                      ELSE \A c \in g.parts : ConditionState(c, x) = "false"
  BY <1>3
<1> QED
  BY <1>1, <1>4, FalseStays DEF GroupMatches

\* The three valued evaluation is sound: a rule that is true matches whatever
\* the missing data turns out to be, and one that is false never does
\* (_evaluate_node_state).
THEOREM StateIsSound ==
    ASSUME NEW root \in Roots, NEW x \in Contexts, NEW full \in Completions(x)
    PROVE  /\ RuleState(root, x) = "true" => Matches(root, full)
           /\ RuleState(root, x) = "false" => ~Matches(root, full)
<1>1. ASSUME RuleState(root, x) = "true" PROVE Matches(root, full)
  BY <1>1, EvaluationsAgree, MatchesMonotone
<1>2. ASSUME RuleState(root, x) = "false" PROVE ~Matches(root, full)
  <2> DEFINE S == {GroupState(g, x) : g \in root.groups}
  <2>1. root.op \in {"and", "or"} /\ root.groups \subseteq Groups /\ root.groups # {}
    BY DEF Roots
  <2>2. S \in SUBSET States /\ StateOf(root.op, S) = "false"
    BY <1>2, <2>1, GroupTrue DEF RuleState
  <2>3. IF root.op = "and" THEN \E s \in S : s = "false" ELSE \A s \in S : s = "false"
    BY <2>1, <2>2, StateOfMeans
  <2>4. IF root.op = "and" THEN \E g \in root.groups : GroupState(g, x) = "false"
                          ELSE \A g \in root.groups : GroupState(g, x) = "false"
    BY <2>3
  <2> QED
    BY <2>1, <2>4, FalseGroupStays DEF Matches
<1> QED
  BY <1>1, <1>2

\* A rule is unknown only when a field it names has no value.
LEMMA UnknownMisses ==
    ASSUME NEW root \in Roots, NEW x \in Contexts, RuleState(root, x) = "unknown"
    PROVE  \E f \in FieldsOf(root) : f \in Fields /\ x[f] = Unavailable
<1> DEFINE S == {GroupState(g, x) : g \in root.groups}
<1>1. root.op \in {"and", "or"} /\ root.groups \subseteq Groups
  BY DEF Roots
<1>2. S \in SUBSET States /\ StateOf(root.op, S) = "unknown"
  BY <1>1, GroupTrue DEF RuleState
<1>3. "unknown" \in S
  BY <1>1, <1>2, StateOfMeans
<1>4. PICK g \in root.groups : GroupState(g, x) = "unknown"
  BY <1>3
<1> DEFINE T == {ConditionState(c, x) : c \in g.parts}
<1>5. g.op \in {"and", "or"} /\ g.parts \subseteq Conditions
  BY <1>1, <1>4 DEF Groups
<1>6. T \in SUBSET States /\ StateOf(g.op, T) = "unknown"
  BY <1>4, ConditionStates DEF GroupState
<1>7. "unknown" \in T
  BY <1>5, <1>6, StateOfMeans
<1>8. PICK c \in g.parts : ConditionState(c, x) = "unknown"
  BY <1>7
<1>9. c.field \in Fields /\ x[c.field] = Unavailable
  BY <1>5, <1>8 DEF Conditions, ConditionState
<1>10. c.field \in FieldsOf(root)
  BY <1>4, <1>8 DEF FieldsOf
<1> QED
  BY <1>9, <1>10

\* The state of a rule depends on the fields it names, and on no other.
LEMMA SameFields ==
    ASSUME NEW root \in Roots, NEW x, NEW y, \A f \in FieldsOf(root) : x[f] = y[f]
    PROVE  RuleState(root, x) = RuleState(root, y)
<1>1. ASSUME NEW g \in root.groups PROVE GroupState(g, x) = GroupState(g, y)
  <2>1. \A c \in g.parts : c.field \in FieldsOf(root)
    BY DEF FieldsOf
  <2>2. \A c \in g.parts : ConditionState(c, x) = ConditionState(c, y)
    BY <2>1 DEF ConditionState, ConditionMatches
  <2>3. {ConditionState(c, x) : c \in g.parts} = {ConditionState(c, y) : c \in g.parts}
    BY <2>2
  <2> QED
    BY <2>3 DEF GroupState
<1>2. {GroupState(g, x) : g \in root.groups} = {GroupState(g, y) : g \in root.groups}
  BY <1>1
<1> QED
  BY <1>2 DEF RuleState

-----------------------------------------------------------------------------
(* The scan                                                                *)

\* A protection that a rule manages was made by a rule that protects.
ManagedByProtecting == \A m \in ruleManaged : m[1] \in Rules => RuleProtects(m[1])

RuleInv == RuleTypeOK /\ CandidatesAreCertain /\ ManagedByProtecting

\* The invariant holds before the first scan.
LEMMA RuleInitInv == RuleInit => RuleInv
  BY DEF RuleInit, RuleInv, RuleTypeOK, CandidatesAreCertain, ManagedByProtecting, NoScan

\* What a scan records has a type, and the protections it makes are of
\* protecting rules.
LEMMA ScanTypes ==
    ASSUME RuleTypeOK, Scan
    PROVE  RuleTypeOK' /\ ManagedByProtecting'
<1>1. PICK seerrUp \in BOOLEAN, world \in Worlds :
         /\ ruleManaged' = Reconciled(seerrUp, world)
         /\ ruleMatched' = [i \in RuleItems |->
               IF i \in ProtectedItems(ruleManaged') THEN {}
               ELSE {r \in Loaded(seerrUp) : ~RuleProtects(r) /\ Matches(RuleRoot[r], world[i])}]
         /\ lastScan' = [rules |-> Loaded(seerrUp), world |-> world]
         /\ UNCHANGED <<rulesOn, userKept>>
  BY DEF Scan
<1>2. Loaded(seerrUp) \subseteq Rules
  BY DEF Loaded, RuleTypeOK
<1>3. ruleManaged' \subseteq Rules \X RuleItems /\ ManagedByProtecting'
  BY <1>1 DEF Reconciled, RuleTypeOK, ManagedByProtecting, RuleProtects
<1>4. ruleMatched' \in [RuleItems -> SUBSET Rules]
  BY <1>1, <1>2
<1>5. lastScan' \in [rules : SUBSET Rules, world : Worlds \cup {NoScan.world}]
  BY <1>1, <1>2
<1>6. rulesOn' \subseteq Rules /\ userKept' \subseteq RuleItems
  BY <1>1 DEF RuleTypeOK
<1>7. ruleManaged' \subseteq (Rules \cup {NoRule}) \X RuleItems
  BY <1>3
<1> QED
  BY <1>3, <1>4, <1>5, <1>6, <1>7 DEF RuleTypeOK

\* What matches in the scan matches in every completion of its data.
LEMMA ScanCertain ==
    ASSUME RuleTypeOK, Scan
    PROVE  CandidatesAreCertain'
<1>1. PICK seerrUp \in BOOLEAN, world \in Worlds :
         /\ ruleMatched' = [i \in RuleItems |->
               IF i \in ProtectedItems(ruleManaged') THEN {}
               ELSE {r \in Loaded(seerrUp) : ~RuleProtects(r) /\ Matches(RuleRoot[r], world[i])}]
         /\ lastScan' = [rules |-> Loaded(seerrUp), world |-> world]
  BY DEF Scan
<1> SUFFICES ASSUME NEW i \in RuleItems, NEW r \in ruleMatched'[i]
             PROVE  /\ r \in lastScan'.rules /\ ~RuleProtects(r)
                    /\ \A full \in Completions(lastScan'.world[i]) : Matches(RuleRoot[r], full)
  BY DEF CandidatesAreCertain, RuleProtects, Matches, Completions, GroupMatches, ConditionMatches
<1>2. r \in Loaded(seerrUp) /\ ~RuleProtects(r) /\ Matches(RuleRoot[r], world[i])
  BY <1>1
<1>3. r \in Rules
  BY <1>2 DEF Loaded, RuleTypeOK
<1>4. RuleRoot[r] \in Roots /\ world[i] \in Contexts
  BY <1>3, RuleScanAssumption
<1> QED
  BY <1>1, <1>2, <1>4, MatchesMonotone

\* Deleting a rule leaves its protections without one.
LEMMA DeleteRuleInv ==
    ASSUME RuleInv, DeleteRule
    PROVE  RuleInv'
<1>1. PICK r \in Rules :
         /\ rulesOn' = rulesOn \ {r}
         /\ ruleManaged' = {<<IF m[1] = r THEN NoRule ELSE m[1], m[2]>> : m \in ruleManaged}
         /\ UNCHANGED <<userKept, ruleMatched, lastScan>>
  BY DEF DeleteRule
<1>2. \A m \in ruleManaged : m[1] \in Rules \cup {NoRule} /\ m[2] \in RuleItems
  BY DEF RuleInv, RuleTypeOK
<1>3. ruleManaged' \subseteq (Rules \cup {NoRule}) \X RuleItems
  BY <1>1, <1>2
<1>4. ManagedByProtecting'
  BY <1>1, <1>2, RuleScanAssumption DEF RuleInv, ManagedByProtecting, RuleProtects
<1>5. RuleTypeOK'
  BY <1>1, <1>3 DEF RuleInv, RuleTypeOK
<1>6. CandidatesAreCertain'
  BY <1>1 DEF RuleInv, CandidatesAreCertain
<1> QED
  BY <1>4, <1>5, <1>6 DEF RuleInv

\* Every step keeps the invariant.
LEMMA RuleNextInv == RuleInv /\ [RuleNext]_ruleVars => RuleInv'
<1> SUFFICES ASSUME RuleInv, [RuleNext]_ruleVars PROVE RuleInv'
  OBVIOUS
<1>1. CASE EnableRule
  BY <1>1 DEF EnableRule, RuleInv, RuleTypeOK, CandidatesAreCertain, ManagedByProtecting
<1>2. CASE DisableRule
  BY <1>2 DEF DisableRule, RuleInv, RuleTypeOK, CandidatesAreCertain, ManagedByProtecting
<1>3. CASE DeleteRule
  BY <1>3, DeleteRuleInv
<1>4. CASE KeepByUser
  BY <1>4 DEF KeepByUser, RuleInv, RuleTypeOK, CandidatesAreCertain, ManagedByProtecting
<1>5. CASE Scan
  BY <1>5, ScanTypes, ScanCertain DEF RuleInv
<1>6. CASE UNCHANGED ruleVars
  BY <1>6 DEF ruleVars, RuleInv, RuleTypeOK, CandidatesAreCertain, ManagedByProtecting
<1> QED
  BY <1>1, <1>2, <1>3, <1>4, <1>5, <1>6 DEF RuleNext

\* The invariant of the rules holds in every reachable state.
THEOREM RuleInvariance == RuleSpec => []RuleInv
  BY RuleInitInv, RuleNextInv, PTL DEF RuleSpec

\* A candidate matched rules that match whatever missing data would have said,
\* after any edits, outages and scans (_collect_movie_version_candidate_records).
THEOREM CandidatesCertain == RuleSpec => []CandidatesAreCertain
<1>1. RuleInv => CandidatesAreCertain
  BY DEF RuleInv
<1> QED
  BY <1>1, RuleInvariance, PTL

\* A rule that a scan leaves unknown for an item keeps its protection there.
LEMMA UnknownPreserved ==
    ASSUME NEW seerrUp \in BOOLEAN, NEW world \in Worlds,
           NEW r \in Rules, NEW i \in RuleItems, ~Mixed(r),
           RuleState(RuleRoot[r], world[i]) = "unknown"
    PROVE  PreservedProtection(<<r, i>>, seerrUp, world)
<1>1. RuleRoot[r] \in Roots /\ world[i] \in Contexts
  BY RuleScanAssumption
<1>2. PICK f \in FieldsOf(RuleRoot[r]) : f \in Fields /\ world[i][f] = Unavailable
  BY <1>1, UnknownMisses
<1>3. Sources[f] \in {"playback", "sonarr"}
  BY <1>2, RuleScanAssumption
<1>4. CASE Sources[f] = "playback"
  BY <1>2, <1>4 DEF PreservedProtection, Uses, NoPlayback
<1>5. CASE Sources[f] = "sonarr"
  <2>1. Uses(r, "sonarr")
    BY <1>2, <1>5 DEF Uses
  <2>2. ~Uses(r, "playback")
    BY <2>1 DEF Mixed
  <2>3. \A g \in FieldsOf(RuleRoot[r]) : g \in Fields /\ Sources[g] # "playback"
    BY <1>1, <2>2 DEF Uses, FieldsOf, Roots, Groups, Conditions
  <2>4. \A g \in FieldsOf(RuleRoot[r]) : SonarrContext(world, i)[g] = world[i][g]
    BY <2>3 DEF SonarrContext
  <2>5. RuleState(RuleRoot[r], SonarrContext(world, i)) = "unknown"
    BY <1>1, <2>4, SameFields
  <2> QED
    BY <2>1, <2>5 DEF PreservedProtection
<1> QED
  BY <1>3, <1>4, <1>5

\* One scan keeps what it cannot decide.
LEMMA ScanOutlives ==
    ASSUME RuleInv, Scan
    PROVE  /\ \A m \in ruleManaged :
                 (/\ m[1] \in rulesOn /\ ~Mixed(m[1])
                  /\ \/ m[1] \notin lastScan'.rules
                     \/ RuleState(RuleRoot[m[1]], lastScan'.world[m[2]]) = "unknown")
                 => m \in ruleManaged'
           /\ \A m \in ruleManaged' : ruleMatched'[m[2]] = {}
<1>1. PICK seerrUp \in BOOLEAN, world \in Worlds :
         /\ ruleManaged' = Reconciled(seerrUp, world)
         /\ ruleMatched' = [i \in RuleItems |->
               IF i \in ProtectedItems(ruleManaged') THEN {}
               ELSE {r \in Loaded(seerrUp) : ~RuleProtects(r) /\ Matches(RuleRoot[r], world[i])}]
         /\ lastScan' = [rules |-> Loaded(seerrUp), world |-> world]
         /\ UNCHANGED userKept
  BY DEF Scan
<1>2. ASSUME NEW m \in ruleManaged, m[1] \in rulesOn, ~Mixed(m[1]),
             \/ m[1] \notin lastScan'.rules
             \/ RuleState(RuleRoot[m[1]], lastScan'.world[m[2]]) = "unknown"
      PROVE  m \in ruleManaged'
  <2>1. m[1] \in Rules /\ m[2] \in RuleItems /\ m = <<m[1], m[2]>>
    BY <1>2 DEF RuleInv, RuleTypeOK
  <2>2. RuleProtects(m[1])
    BY <2>1 DEF RuleInv, ManagedByProtecting
  <2>3. PreservedProtection(m, seerrUp, world)
    <3>1. CASE m[1] \notin lastScan'.rules
      BY <1>1, <1>2, <3>1 DEF Loaded, PreservedProtection
    <3>2. CASE RuleState(RuleRoot[m[1]], lastScan'.world[m[2]]) = "unknown"
      BY <1>1, <1>2, <2>1, <3>2, UnknownPreserved
    <3> QED
      BY <1>2, <3>1, <3>2
  <2> QED
    BY <1>1, <1>2, <2>1, <2>2, <2>3 DEF Reconciled
<1>3. ASSUME NEW m \in ruleManaged' PROVE ruleMatched'[m[2]] = {}
  <2>1. m[2] \in RuleItems /\ m[2] \in ProtectedItems(ruleManaged')
    BY <1>1, <1>3 DEF Reconciled, ProtectedItems
  <2> QED
    BY <1>1, <2>1
<1> QED
  BY <1>2, <1>3

\* Whatever sources fail, a scan keeps the protections of the rules it cannot
\* evaluate, and what is protected when it ends is no candidate
\* (_reconcile_rule_managed_protections).
THEOREM ProtectionsOutlive == RuleSpec => ProtectionOutlivesOutage
<1> DEFINE Keeps ==
        lastScan' # lastScan =>
          /\ \A m \in ruleManaged :
               (/\ m[1] \in rulesOn /\ ~Mixed(m[1])
                /\ \/ m[1] \notin lastScan'.rules
                   \/ RuleState(RuleRoot[m[1]], lastScan'.world[m[2]]) = "unknown")
               => m \in ruleManaged'
          /\ \A m \in ruleManaged' : ruleMatched'[m[2]] = {}
<1>1. RuleInv /\ [RuleNext]_ruleVars => [Keeps]_ruleVars
  <2> SUFFICES ASSUME RuleInv, RuleNext, lastScan' # lastScan PROVE Keeps
    OBVIOUS
  <2>1. Scan
    BY DEF RuleNext, EnableRule, DisableRule, DeleteRule, KeepByUser
  <2> QED
    BY <2>1, ScanOutlives
<1>2. RuleSpec => [][Keeps]_ruleVars
  BY <1>1, RuleInvariance, PTL DEF RuleSpec
<1> QED
  BY <1>2 DEF ProtectionOutlivesOutage
=============================================================================
