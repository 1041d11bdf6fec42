---------------------------- MODULE PolicyEngine ----------------------------
(***************************************************************************)
(* The policy DSL of src/agentkernel/policy/engine.py: compile_policy and  *)
(* CompiledPolicy.evaluate.  An operator writes a bundle rule by rule; if  *)
(* it compiles, it is evaluated for one context, one rule per step.        *)
(* A condition is a tree of `all' and `any' over predicates; string lists  *)
(* are sequences, an argument of the wrong JSON type is `WrongType'.       *)
(***************************************************************************)
EXTENDS Resources, FiniteSets, SequencesExt

CONSTANTS
  Rules,          \* the rules an operator may write
  Conditions,     \* their conditions, and all that these are made of
  Contexts,       \* the actions that are asked about
  Defaults,       \* PolicyDefault of the bundle
  ALLOWED_MODES,
  TrustClasses,   \* values of ProvenanceTrust
  RiskClasses,    \* values of RiskClass
  WrongType,      \* a JSON value of the wrong type
  MaxDepth,       \* _MAX_DEPTH
  MaxRules        \* bound: rules in a bundle

ALLOWED_PREDICATES ==
  {"action_in", "resource_within", "provenance_trust_in", "requested_scope_expands",
   "data_class_in", "destination_external", "risk_class_in"}
Flags == {"requested_scope_expands", "destination_external"}
Effects == {"GRANT", "DENY", "REQUIRE_APPROVAL", "REQUIRE_SHADOW"}
Combines(c) == c.key \in {"all", "any"}

ASSUME RulesAreTyped ==
  /\ \A r \in Rules : r.when \in Conditions /\ r.effect \in Effects
  /\ \A c \in Conditions : Combines(c) => ToSet(c.value) \subseteq Conditions

VARIABLES
  bundle,    \* the rules written so far: all of them compile
  default,   \* PolicyDefault of the bundle
  context,   \* the action asked about
  found,     \* what the loop of evaluate has collected from the rules read
  ruling     \* the PolicyDecision
policyVars == <<bundle, default, context, found, ruling>>

-----------------------------------------------------------------------------
(* _validate_condition                                                      *)

IsStringList(v) == v # WrongType /\ v # <<>>

LeafIsValid(c) ==
  /\ c.key \in ALLOWED_PREDICATES
  /\ CASE c.key \in Flags -> c.value \in BOOLEAN
       [] c.key = "resource_within" -> c.value # WrongType
       [] c.key = "provenance_trust_in" -> IsStringList(c.value) /\ ToSet(c.value) \subseteq TrustClasses
       [] c.key = "risk_class_in" -> IsStringList(c.value) /\ ToSet(c.value) \subseteq RiskClasses
       [] OTHER -> IsStringList(c.value)

ValidCondition(condition) ==
  LET valid[c \in Conditions, depth \in 0 .. MaxDepth + 1] ==
        /\ depth <= MaxDepth
        /\ IF Combines(c) THEN c.value # <<>> /\ \A i \in DOMAIN c.value : valid[c.value[i], depth + 1]
                          ELSE LeafIsValid(c)
  IN valid[condition, 0]

(* compile_policy *)
RuleCompiles(r) ==
  /\ ValidCondition(r.when)
  /\ IF r.effect = "GRANT" THEN r.modes # {} /\ r.modes \subseteq ALLOWED_MODES
                           ELSE r.modes = {}
Compiles(rules) == \A i \in DOMAIN rules : RuleCompiles(rules[i])

-----------------------------------------------------------------------------
(* _matches: TRUE, FALSE, or what it raises.  all and any are lazy.         *)

Yes == "true"
No == "false"
Truth(b) == IF b THEN Yes ELSE No

LeafMatches(c, ctx) ==
  IF c.key \notin ALLOWED_PREDICATES THEN "POLICY_UNKNOWN"
  ELSE IF c.key \in Flags THEN Truth(c.value = ctx[c.key])
  ELSE IF c.value = WrongType THEN "VALIDATION_ERROR"
  ELSE CASE c.key = "action_in" -> Truth(ctx.action \in ToSet(c.value))
         [] c.key = "resource_within" ->
              IF WellFormed(c.value) THEN Truth(ResourceMatches(c.value, ctx.resource)) ELSE "WILDCARD"
         [] c.key = "provenance_trust_in" -> Truth(ctx.provenance_trust \cap ToSet(c.value) # {})
         [] c.key = "data_class_in" -> Truth(ctx.data_classes \cap ToSet(c.value) # {})
         [] c.key = "risk_class_in" -> Truth(ctx.risk_class \in ToSet(c.value))

Meets(condition, ctx) ==
  LET meets[c \in Conditions] ==
        IF ~Combines(c) THEN LeafMatches(c, ctx)
        ELSE LET neutral == IF c.key = "all" THEN Yes ELSE No
                 decisive == {i \in DOMAIN c.value : meets[c.value[i]] # neutral}
             IN IF decisive = {} THEN neutral ELSE meets[c.value[Min(decisive)]]
  IN meets[condition]

-----------------------------------------------------------------------------
(* evaluate                                                                 *)

NothingFound == [read |-> 0, grants |-> <<>>, denials |-> <<>>, obligations |-> {}, mode_sets |-> <<>>]
ObligationOf == [REQUIRE_APPROVAL |-> "approval", REQUIRE_SHADOW |-> "shadow"]
AppendIf(condition, list, x) == IF condition THEN Append(list, x) ELSE list

\* what the loop holds once it has read a rule that matches
Bug_GrantClearsDenial(r) ==
  [read |-> found.read + 1,
   grants |-> AppendIf(r.effect = "GRANT", found.grants, r.rule_id),
   denials |-> IF r.effect = "GRANT" THEN <<>> ELSE AppendIf(r.effect = "DENY", found.denials, r.rule_id),
   obligations |-> found.obligations \cup {ObligationOf[e] : e \in {r.effect} \cap DOMAIN ObligationOf},
   mode_sets |-> AppendIf(r.effect = "GRANT", found.mode_sets, r.modes)]
Collected(r) ==
  [read |-> found.read + 1,
   grants |-> AppendIf(r.effect = "GRANT", found.grants, r.rule_id),
   denials |-> AppendIf(r.effect = "DENY", found.denials, r.rule_id),
   obligations |-> found.obligations \cup {ObligationOf[e] : e \in {r.effect} \cap DOMAIN ObligationOf},
   mode_sets |-> AppendIf(r.effect = "GRANT", found.mode_sets, r.modes)]

Intersection(sets) == {m \in UNION ToSet(sets) : \A s \in ToSet(sets) : m \in s}

NoRuling == [verdict |-> "none"]
Ruling(verdict, modes, reason) ==
  [verdict |-> verdict, modes |-> modes, obligations |-> found.obligations,
   grants |-> found.grants, denials |-> found.denials, reason |-> reason]

Conclusion ==
  LET modes == Intersection(found.mode_sets)
  IN CASE found.denials # <<>> -> Ruling("DENY", {}, "POLICY_DENIED")
       [] found.denials = <<>> /\ found.grants = <<>> ->
            Ruling("DENY", {}, IF default = "DENY" THEN "POLICY_DENIED" ELSE "POLICY_ABSTAINED")
       [] found.denials = <<>> /\ found.grants # <<>> /\ modes = {} -> Ruling("DENY", {}, "MODE_CONFLICT")
       [] OTHER -> Ruling("ELIGIBLE", modes, "POLICY_ELIGIBLE")

-----------------------------------------------------------------------------
(* The specification                                                        *)

PolicyInit ==
  /\ bundle = <<>>
  /\ default \in Defaults
  /\ context \in Contexts
  /\ found = NothingFound
  /\ ruling = NoRuling

AddRule(r) ==
  /\ ruling = NoRuling /\ found.read = 0 /\ Len(bundle) < MaxRules
  /\ Compiles(Append(bundle, r))
  /\ bundle' = Append(bundle, r)
  /\ UNCHANGED <<default, context, found, ruling>>

\* the loop is at its next rule, whose condition has this outcome
ReadsOn(outcome) ==
  /\ ruling = NoRuling /\ found.read < Len(bundle)
  /\ Meets(bundle[found.read + 1].when, context) = outcome
  /\ UNCHANGED <<bundle, default, context>>

RulePasses ==
  /\ ReadsOn(No)
  /\ found' = [found EXCEPT !.read = @ + 1]
  /\ UNCHANGED ruling

RuleMatches ==
  /\ ReadsOn(Yes)
  /\ found' = Collected(bundle[found.read + 1])
  /\ UNCHANGED ruling

RuleRaises ==
  /\ \E error \in {"POLICY_UNKNOWN", "VALIDATION_ERROR", "WILDCARD"} :
       ReadsOn(error) /\ ruling' = Ruling("raised", {}, error)
  /\ UNCHANGED found

Concludes ==
  /\ ruling = NoRuling /\ found.read = Len(bundle)
  /\ ruling' = Conclusion
  /\ UNCHANGED <<bundle, default, context, found>>

PolicyNext == (\E r \in Rules : AddRule(r)) \/ RulePasses \/ RuleMatches \/ RuleRaises \/ Concludes
PolicySpec == PolicyInit /\ [][PolicyNext]_policyVars

-----------------------------------------------------------------------------
(* Properties                                                               *)

Outcome(i) == Meets(bundle[i].when, context)
Matching(effect) == {i \in DOMAIN bundle : bundle[i].effect = effect /\ Outcome(i) = Yes}
CommonModes == {m \in ALLOWED_MODES : \A i \in Matching("GRANT") : m \in bundle[i].modes}

(* What the documentation of the engine asks for, said without its loop and *)
(* of the set of rules that match, in whatever order they stand             *)
(* (policy/engine.py:128): denial dominates, permission needs a grant, and  *)
(* every grant narrows.                                                     *)
DecisionIsDenyDominant ==
  ruling.verdict \in {"ELIGIBLE", "DENY"} =>
    /\ (ruling.verdict = "ELIGIBLE") <=>
         (Matching("DENY") = {} /\ Matching("GRANT") # {} /\ CommonModes # {})
    /\ ruling.verdict = "ELIGIBLE" => ruling.modes = CommonModes
    /\ ("approval" \in ruling.obligations) <=> (Matching("REQUIRE_APPROVAL") # {})
    /\ ("shadow" \in ruling.obligations) <=> (Matching("REQUIRE_SHADOW") # {})
=============================================================================
