-------------------------------- MODULE RuleIndex ---------------------------------
(***************************************************************************)
(* The index that narrows the template rules to those that could match a   *)
(* node (xslt/ruleindex.go), beside what matching is (xslt/pattern.go).    *)
(* Of a pattern there are its node test and the nodes on which the rest of *)
(* it holds; a rule has the branches of a pattern and the modes it is in.  *)
(***************************************************************************)
EXTENDS Naturals, Sequences

ChildKinds == {"document", "element", "text"}
NodeKinds == ChildKinds \cup {"attribute"}
Principal(p) == IF p.on = "attribute" THEN "attribute" ELSE "element"
Widest(p) == p.on = "call"

\* nodeTestHolds: the axis and the test of a pattern's last step.
NodeTestHolds(p, node) ==
    /\ (p.on = "attribute") = (node.kind = "attribute")
    /\ \/ p.test = "any"
       \/ p.test = "kind" /\ node.kind = p.name
       \/ p.test = "star" /\ node.kind = Principal(p)
       \/ p.test = "name" /\ node.kind = Principal(p) /\ node.name = p.name

PatternMatches(alts, node) ==
    \E i \in DOMAIN alts : /\ Widest(alts[i]) \/ NodeTestHolds(alts[i], node)
                           /\ node \in alts[i].where

\* ruleKeys: the kinds of which a rule may match any node ...
KindsOf(alts) ==
    UNION {LET p == alts[i]
               axis == IF p.on = "attribute" THEN {"attribute"} ELSE ChildKinds
           IN  IF Widest(p) THEN NodeKinds
               ELSE CASE p.test = "name" -> {}
                      [] p.test = "star" -> {Principal(p)}
                      [] p.test = "kind" -> axis \cap {p.name}
                      [] OTHER -> axis : i \in DOMAIN alts}
\* ... and the names it may match beside them.
NamesOf(alts) ==
    {<<Principal(alts[i]), alts[i].name>> :
        i \in {j \in DOMAIN alts : ~Widest(alts[j]) /\ alts[j].test = "name"}}

-----------------------------------------------------------------------------
MatchesMode(rule, mode) == "#all" \in rule.modes \/ mode \in rule.modes

\* buildRuleIndex: for each mode a rule or a declaration names.
BuildRuleIndex(s, rules) ==
    LET modes == {""} \cup s.declared \cup (UNION {rules[i].modes : i \in DOMAIN rules} \ {"#all"})
        ofMode(mode) == {i \in DOMAIN rules : MatchesMode(rules[i], mode)}
    IN  [mode \in modes |->
            [byKind |-> [kind \in NodeKinds |-> {i \in ofMode(mode) : kind \in KindsOf(rules[i].alts)}],
             byName |-> LET named == UNION {NamesOf(rules[i].alts) : i \in ofMode(mode)}
                        IN  [n \in named |->
                                {i \in ofMode(mode) : \/ n \in NamesOf(rules[i].alts)
                                                      \/ n[1] \in KindsOf(rules[i].alts)}]]]

\* candidates; a mode the index has not is scanned for as a whole.
CandidatesIn(rules, index, node, mode) ==
    IF mode \notin DOMAIN index THEN {i \in DOMAIN rules : MatchesMode(rules[i], mode)}
    ELSE LET key == <<node.kind, node.name>>
             mr == index[mode]
         IN  IF key \in DOMAIN mr.byName THEN mr.byName[key] ELSE mr.byKind[node.kind]

===================================================================================
