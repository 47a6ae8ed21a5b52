------------------------------ MODULE RuleScan ------------------------------
(***************************************************************************)
(* What a cleanup scan makes of the rules when their sources do not all    *)
(* answer (backend/tasks/cleanup.py, _scan_with_db): the protections that  *)
(* rules manage, then the candidates.  A scan holds candidate_workflow_    *)
(* lock and writes in one transaction: it is one step here.  A rule is     *)
(* edited without the lock (backend/api/routes/rules.py).                  *)
(*                                                                         *)
(* Rules that use a Seerr field are left out of a scan that cannot reach   *)
(* Seerr.  The fields of playback and Sonarr have no value for the items   *)
(* their sources do not answer for.  Every other field is read from the    *)
(* database.  Items are versions of movies, or series.                     *)
(***************************************************************************)
EXTENDS RuleEvaluation

CONSTANTS
    RuleItems,   \* what rules are evaluated on
    Rules,
    NoRule,      \* the rule of a protection whose rule was deleted
    RuleOutcome, \* RuleOutcome[r]: "protect" or "candidate"
    RuleRoot,    \* RuleRoot[r]: the tree of the rule
    Sources,     \* Sources[f]: what a field is read from
    Worlds       \* what the sources may say of the items in a scan

ASSUME RuleScanAssumption ==
    /\ NoRule \notin Rules
    /\ RuleOutcome \in [Rules -> {"protect", "candidate"}]
    /\ RuleRoot \in [Rules -> Roots]
    /\ Sources \in [Fields -> {"database", "sonarr", "playback", "seerr"}]
    /\ Worlds \subseteq [RuleItems -> Contexts]
    \* The database always answers, and so does a Seerr whose rules are loaded.
    /\ \A world \in Worlds, i \in RuleItems, f \in Fields :
           Sources[f] \in {"database", "seerr"} => world[i][f] # Unavailable

VARIABLES
    rulesOn,      \* the enabled rules
    ruleManaged,  \* protections that rules manage: <<rule, item>>
    userKept,     \* items protected by a user or by a favorite
    ruleMatched,  \* ruleMatched[i]: the rules of the item's candidate, if any
    lastScan      \* the rules and the data of the last scan

ruleVars == <<rulesOn, ruleManaged, userKept, ruleMatched, lastScan>>

NoScan == [rules |-> {}, world |-> [i \in RuleItems |-> [f \in Fields |-> Unavailable]]]

RuleInit ==
    /\ rulesOn = {}
    /\ ruleManaged = {}
    /\ userKept = {}
    /\ ruleMatched = [i \in RuleItems |-> {}]
    /\ lastScan = NoScan

Uses(r, source) == \E f \in FieldsOf(RuleRoot[r]) : Sources[f] = source
RuleProtects(r) == RuleOutcome[r] = "protect"

-----------------------------------------------------------------------------
(* The rule routes, and what users protect                                 *)

EnableRule ==
    /\ \E r \in Rules \ rulesOn : rulesOn' = rulesOn \cup {r}
    /\ UNCHANGED <<ruleManaged, userKept, ruleMatched, lastScan>>

DisableRule ==
    /\ \E r \in rulesOn : rulesOn' = rulesOn \ {r}
    /\ UNCHANGED <<ruleManaged, userKept, ruleMatched, lastScan>>

\* Its protections stay, without a rule, until the next scan.
DeleteRule ==
    /\ \E r \in Rules :
          /\ rulesOn' = rulesOn \ {r}
          /\ ruleManaged' = {<<IF m[1] = r THEN NoRule ELSE m[1], m[2]>> : m \in ruleManaged}
    /\ UNCHANGED <<userKept, ruleMatched, lastScan>>

KeepByUser ==
    /\ \E i \in RuleItems :
          userKept' = IF i \in userKept THEN userKept \ {i} ELSE userKept \cup {i}
    /\ UNCHANGED <<rulesOn, ruleManaged, ruleMatched, lastScan>>

-----------------------------------------------------------------------------
(* scan_cleanup_candidates                                                 *)

\* Rules that use Seerr are dropped when it does not answer.
Loaded(seerrUp) == {r \in rulesOn : seerrUp \/ ~Uses(r, "seerr")}

\* The rules whose trees look at a Sonarr field are evaluated when Sonarr has
\* been read and playback has not: playback is still that of the last scan.
SonarrContext(world, i) ==
    [f \in Fields |->
        IF Sources[f] # "playback" THEN world[i][f]
        ELSE IF \E r \in lastScan.rules : Uses(r, "playback") THEN lastScan.world[i][f]
        ELSE Unavailable]

NoPlayback(world) ==
    \E i \in RuleItems, f \in Fields : Sources[f] = "playback" /\ world[i][f] = Unavailable

\* Mutant: the protections of playback rules are not preserved.
PreservedProtection_NoPlayback(m, seerrUp, world) ==
    \/ ~seerrUp /\ Uses(m[1], "seerr")
    \/ /\ Uses(m[1], "sonarr")
       /\ RuleState(RuleRoot[m[1]], SonarrContext(world, m[2])) = "unknown"

\* A protection stays without a match when its rule was dropped, when playback
\* misses an item, and when Sonarr leaves the rule unknown for its item.
PreservedProtection(m, seerrUp, world) ==
    \/ ~seerrUp /\ Uses(m[1], "seerr")
    \/ Uses(m[1], "playback") /\ NoPlayback(world)
    \/ /\ Uses(m[1], "sonarr")
       /\ RuleState(RuleRoot[m[1]], SonarrContext(world, m[2])) = "unknown"

\* _reconcile_rule_managed_protections
Reconciled(seerrUp, world) ==
    {m \in rulesOn \X RuleItems :
        /\ RuleProtects(m[1])
        /\ \/ m[1] \in Loaded(seerrUp) /\ Matches(RuleRoot[m[1]], world[m[2]])
           \/ m \in ruleManaged /\ PreservedProtection(m, seerrUp, world)}

\* _collect_movie_version_candidate_records, _collect_series_candidate_records
ProtectedItems(managed) == userKept \cup {m[2] : m \in managed}

Scan ==
    \E seerrUp \in BOOLEAN, world \in Worlds :
       /\ ruleManaged' = Reconciled(seerrUp, world)
       /\ ruleMatched' = [i \in RuleItems |->
             IF i \in ProtectedItems(ruleManaged') THEN {}
             ELSE {r \in Loaded(seerrUp) : ~RuleProtects(r) /\ Matches(RuleRoot[r], world[i])}]
       /\ lastScan' = [rules |-> Loaded(seerrUp), world |-> world]
       /\ UNCHANGED <<rulesOn, userKept>>

RuleNext ==
    \/ EnableRule
    \/ DisableRule
    \/ DeleteRule
    \/ KeepByUser
    \/ Scan

RuleSpec == RuleInit /\ [][RuleNext]_ruleVars

-----------------------------------------------------------------------------
\* Every variable keeps its type.
RuleTypeOK ==
    /\ rulesOn \subseteq Rules
    /\ ruleManaged \subseteq (Rules \cup {NoRule}) \X RuleItems
    /\ userKept \subseteq RuleItems
    /\ ruleMatched \in [RuleItems -> SUBSET Rules]
    /\ lastScan \in [rules : SUBSET Rules, world : Worlds \cup {NoScan.world}]

\* A candidate matched rules that match whatever the sources that did not
\* answer would have said: missing data never makes a candidate
\* (evaluate_advanced_rule, _activate_seerr_request_resolver_for_rules).
CandidatesAreCertain ==
    \A i \in RuleItems : \A r \in ruleMatched[i] :
        /\ r \in lastScan.rules /\ ~RuleProtects(r)
        /\ \A full \in Completions(lastScan.world[i]) : Matches(RuleRoot[r], full)

Mixed(r) == Uses(r, "sonarr") /\ Uses(r, "playback")

\* A scan that cannot tell whether an enabled rule still protects an item
\* keeps the protection, and what is protected when it ends is no candidate.
\* A rule that looks at Sonarr and at playback is left out: see SonarrContext
\* (_reconcile_rule_managed_protections).
ProtectionOutlivesOutage ==
    [][ lastScan' # lastScan =>
         /\ \A m \in ruleManaged :
              (/\ m[1] \in rulesOn /\ ~Mixed(m[1])
               /\ \/ m[1] \notin lastScan'.rules
                  \/ RuleState(RuleRoot[m[1]], lastScan'.world[m[2]]) = "unknown")
              => m \in ruleManaged'
         /\ \A m \in ruleManaged' : ruleMatched'[m[2]] = {} ]_ruleVars
=============================================================================
