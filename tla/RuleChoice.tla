-------------------------------- MODULE RuleChoice --------------------------------
(***************************************************************************)
(* Which template rule processes a node: the import precedence the         *)
(* compiler gives each module (xslt/compile.go), the order of the rules    *)
(* (xslt/stylesheet.go), and the choice of xsl:apply-templates,            *)
(* xsl:next-match and xsl:apply-imports (xslt/apply.go) over the index of  *)
(* RuleIndex.                                                              *)
(*                                                                         *)
(* A stylesheet is a set of modules, each a sequence of declarations:      *)
(* imports, includes and rules.  Priorities count quarters.                *)
(***************************************************************************)
EXTENDS Integers, Sequences, FiniteSets, SequencesExt, RuleIndex

CONSTANTS
    Sheets,         \* the stylesheets: modules, modes declared, modes that fail on a tie
    SheetNodes      \* the nodes to be processed, each of a kind and with a name

VARIABLES
    sheet,          \* the stylesheet
    templates,      \* its rules, in the order they are tried in
    ruleIndex,      \* which rules are tried, by mode, for a kind and for a name
    focus,          \* the node and the mode of the rule that runs
    selected,       \* the rule that runs and where xsl:next-match resumes
    dispatch,       \* "idle", "running", "builtin" or "refused"
    meant           \* what the recommendation's definition of the choice selects

ruleVars == <<sheet, templates, ruleIndex, focus, selected, dispatch, meant>>

NoRule == [rule |-> 0, next |-> 0]
NothingMeant == [path |-> <<0>>, at |-> 0, branch |-> 0]
NoFocus == [node |-> [kind |-> "none", name |-> "none"], mode |-> "none"]

-----------------------------------------------------------------------------
PatternPriority(p) ==
    IF Widest(p) \/ p.where # SheetNodes THEN 2 ELSE IF p.test = "name" THEN 0 ELSE -2

-----------------------------------------------------------------------------
(* Compilation.                                                            *)

ModuleOf(s, m) == s.modules[m]
Targets(s, m, kind) ==
    LET ds == SelectSeq(ModuleOf(s, m), LAMBDA d : d.kind = kind)
    IN  [i \in DOMAIN ds |-> ds[i].of]

\* compileTemplate: one rule for each branch of a union whose priority is not
\* stated, all of one group, the later ones later in declaration order.
AddRules(k, rule, precedence) ==
    LET split == ~rule.stated
        branches == IF split THEN [i \in DOMAIN rule.alts |-> <<rule.alts[i]>>] ELSE <<rule.alts>>
        highest(alts) == CHOOSE n \in {PatternPriority(alts[i]) : i \in DOMAIN alts} :
                            \A i \in DOMAIN alts : PatternPriority(alts[i]) <= n
    IN  [k EXCEPT
            !.declOrder = @ + Len(branches),
            !.rules = @ \o [i \in DOMAIN branches |->
                [name |-> rule.name, branch |-> i, alts |-> branches[i], modes |-> rule.modes,
                 priority |-> IF split THEN highest(branches[i]) ELSE rule.priority,
                 importPrecedence |-> precedence, lowPrecedence |-> k.low,
                 declOrder |-> k.declOrder + i, unionGroup |-> k.declOrder + 1]]]

RECURSIVE CompileModule(_, _, _, _, _), NumberIncludedImports(_, _, _)

\* compileInclude of an xsl:import: one that the pass over included modules has
\* compiled is not compiled again.
CompileImport(s, k, m) ==
    IF m \in k.preNumbered THEN k ELSE CompileModule(s, k, m, 0, FALSE)

\* The imports of included modules are numbered before the including module.
NumberIncludedImports(s, k, m) ==
    FoldLeft(LAMBDA acc, sub :
                NumberIncludedImports(s,
                    FoldLeft(LAMBDA inner, target :
                                [CompileImport(s, inner, target) EXCEPT !.preNumbered = @ \cup {target}],
                             acc, Targets(s, sub, "import")),
                    sub),
             k, Targets(s, m, "include"))

\* compileModule: imports, then the imports of what is included, then the
\* module's own number, unless it is included and has its includer's, and then
\* its declarations.
CompileModule(s, k, m, precedence, fixed) ==
    LET entered == IF fixed THEN k ELSE [k EXCEPT !.low = k.next]
        imported == FoldLeft(LAMBDA acc, target : CompileImport(s, acc, target),
                             entered, Targets(s, m, "import"))
        numbered == NumberIncludedImports(s, imported, m)
        own == IF fixed THEN precedence ELSE numbered.next
        begun == IF fixed THEN numbered ELSE [numbered EXCEPT !.next = @ + 1]
        done == FoldLeft(LAMBDA acc, d :
                            CASE d.kind = "rule" -> AddRules(acc, d, own)
                              [] d.kind = "include" -> CompileModule(s, acc, d.of, own, TRUE)
                              [] OTHER -> acc,
                         begun, ModuleOf(s, m))
    IN  [done EXCEPT !.low = k.low]

\* sortTemplates.
SortTemplates(rules) ==
    SortSeq(rules, LAMBDA x, y :
        \/ x.importPrecedence > y.importPrecedence
        \/ /\ x.importPrecedence = y.importPrecedence
           /\ \/ x.priority > y.priority
              \/ x.priority = y.priority /\ x.declOrder > y.declOrder)

CompileStylesheet(s) ==
    SortTemplates(CompileModule(s, [next |-> 0, low |-> 0, preNumbered |-> {}, declOrder |-> 0,
                                    rules |-> <<>>], "main", 0, FALSE).rules)

-----------------------------------------------------------------------------
(* The choice.                                                             *)

Numbers == DOMAIN templates
Earliest(is) == CHOOSE i \in is : \A j \in is : i <= j

\* candidates.
RuleCandidates(node, mode) == CandidatesIn(templates, ruleIndex, node, mode)

\* findTemplateFrom.
FoundFrom(node, mode, start) ==
    {i \in RuleCandidates(node, mode) : i >= start /\ PatternMatches(templates[i].alts, node)}

\* Mutant: xsl:apply-imports tries whatever ranks below the current rule.
FoundBelow(node, mode, low, p) ==
    {i \in Numbers : /\ templates[i].importPrecedence < p
                     /\ MatchesMode(templates[i], mode)
                     /\ PatternMatches(templates[i].alts, node)}

\* findTemplateInImportTree.
FoundInImportTree(node, mode, low, p) ==
    {i \in Numbers : /\ templates[i].importPrecedence \in low .. p - 1
                     /\ MatchesMode(templates[i], mode)
                     /\ PatternMatches(templates[i].alts, node)}

\* failMultipleMatch: another declaration ties with the winner.
Ambiguous(node, mode, won) ==
    /\ mode \in sheet.fails
    /\ \E i \in Numbers :
          /\ i > won
          /\ templates[i].importPrecedence = templates[won].importPrecedence
          /\ templates[i].priority = templates[won].priority
          /\ templates[i].unionGroup # templates[won].unionGroup
          /\ MatchesMode(templates[i], mode)
          /\ PatternMatches(templates[i].alts, node)

\* The rule that runs, or the built-in one.
RunFirst(found) ==
    IF found = {} THEN dispatch' = "builtin" /\ selected' = NoRule
    ELSE /\ dispatch' = "running"
         /\ selected' = [rule |-> Earliest(found), next |-> Earliest(found) + 1]

RuleChoiceInit ==
    /\ sheet \in Sheets
    /\ templates = CompileStylesheet(sheet)
    /\ ruleIndex = BuildRuleIndex(sheet, templates)
    /\ focus = NoFocus /\ selected = NoRule /\ dispatch = "idle" /\ meant = NothingMeant

-----------------------------------------------------------------------------
(* The definition: declarations stand where they are included, modules where *)
(* they are imported, and a module imported twice is there twice.            *)

RECURSIVE ImportsIn(_, _), RulesIn(_, _), LevelAt(_, _, _), PathsBelow(_, _)
\* What a level of the tree imports, and the rules it has.
ImportsIn(s, m) ==
    FoldLeft(LAMBDA acc, d : CASE d.kind = "import" -> Append(acc, d.of)
                               [] d.kind = "include" -> acc \o ImportsIn(s, d.of)
                               [] OTHER -> acc, <<>>, ModuleOf(s, m))
RulesIn(s, m) ==
    FoldLeft(LAMBDA acc, d : CASE d.kind = "rule" -> Append(acc, d)
                               [] d.kind = "include" -> acc \o RulesIn(s, d.of)
                               [] OTHER -> acc, <<>>, ModuleOf(s, m))
LevelAt(s, m, path) ==
    IF path = <<>> THEN m ELSE LevelAt(s, ImportsIn(s, m)[Head(path)], Tail(path))
PathsBelow(s, m) ==
    {<<>>} \cup UNION {{<<i>> \o q : q \in PathsBelow(s, ImportsIn(s, m)[i])} :
                            i \in DOMAIN ImportsIn(s, m)}

\* A rule where it stands: a level of the tree, its place there, and a branch.
RuleAt(s, o) == RulesIn(s, LevelAt(s, "main", o.path))[o.at]
BranchOf(rule, branch) == IF rule.stated THEN rule.alts ELSE <<rule.alts[branch]>>
Occurrences(s) ==
    UNION {UNION {{[path |-> p, at |-> i, branch |-> j] :
                      j \in IF RulesIn(s, LevelAt(s, "main", p))[i].stated THEN {1}
                            ELSE DOMAIN RulesIn(s, LevelAt(s, "main", p))[i].alts} :
               i \in DOMAIN RulesIn(s, LevelAt(s, "main", p))} : p \in PathsBelow(s, "main")}
PriorityAt(s, o) ==
    IF RuleAt(s, o).stated THEN RuleAt(s, o).priority ELSE PatternPriority(RuleAt(s, o).alts[o.branch])

\* An import has less precedence than its importer, and than a later import.
LowerPrecedence(p, q) ==
    \/ Len(q) < Len(p) /\ SubSeq(p, 1, Len(q)) = q
    \/ \E i \in DOMAIN p \cap DOMAIN q :
          SubSeq(p, 1, i - 1) = SubSeq(q, 1, i - 1) /\ p[i] < q[i]
Outranks(s, x, y) ==
    \/ LowerPrecedence(y.path, x.path)
    \/ /\ x.path = y.path
       /\ \/ PriorityAt(s, x) > PriorityAt(s, y)
          \/ /\ PriorityAt(s, x) = PriorityAt(s, y)
             /\ x.at > y.at \/ (x.at = y.at /\ x.branch > y.branch)

Applicable(s, node, mode) ==
    {o \in Occurrences(s) : /\ MatchesMode(RuleAt(s, o), mode)
                            /\ PatternMatches(BranchOf(RuleAt(s, o), o.branch), node)}
BestOf(s, os) ==
    IF os = {} THEN NothingMeant ELSE CHOOSE x \in os : \A y \in os \ {x} : Outranks(s, x, y)
ImportedBy(o, by) == Len(o.path) > Len(by.path) /\ SubSeq(o.path, 1, Len(by.path)) = by.path
Tied(s, x, y) == x.path = y.path /\ PriorityAt(s, x) = PriorityAt(s, y) /\ x.at # y.at

-----------------------------------------------------------------------------
\* applyToNode.
ApplyTemplates(node, mode) ==
    LET found == FoundFrom(node, mode, 1)
    IN  /\ dispatch = "idle"
        /\ focus' = [node |-> node, mode |-> mode]
        /\ meant' = BestOf(sheet, Applicable(sheet, node, mode))
        /\ IF found # {} /\ Ambiguous(node, mode, Earliest(found))
           THEN dispatch' = "refused" /\ UNCHANGED selected
           ELSE RunFirst(found)
        /\ UNCHANGED <<sheet, templates, ruleIndex>>

\* nextMatchInstr: xsl:next-match ...
NextMatch ==
    /\ dispatch = "running"
    /\ RunFirst(FoundFrom(focus.node, focus.mode, selected.next))
    /\ meant' = BestOf(sheet, {o \in Applicable(sheet, focus.node, focus.mode) : Outranks(sheet, meant, o)})
    /\ UNCHANGED <<sheet, templates, ruleIndex, focus>>

\* ... and xsl:apply-imports.
ApplyImports ==
    LET current == templates[selected.rule]
    IN  /\ dispatch = "running"
        /\ RunFirst(FoundInImportTree(focus.node, focus.mode, current.lowPrecedence,
                                      current.importPrecedence))
        /\ meant' = BestOf(sheet, {o \in Applicable(sheet, focus.node, focus.mode) : ImportedBy(o, meant)})
        /\ UNCHANGED <<sheet, templates, ruleIndex, focus>>

SheetModes == {"", "m", "z"}
RuleChoiceNext ==
    \/ \E node \in SheetNodes, mode \in SheetModes : ApplyTemplates(node, mode)
    \/ NextMatch
    \/ ApplyImports

RuleChoiceSpec == RuleChoiceInit /\ [][RuleChoiceNext]_ruleVars

-----------------------------------------------------------------------------
RuleChoiceTypeOK ==
    /\ sheet \in Sheets
    /\ dispatch \in {"idle", "running", "builtin", "refused"}
    /\ selected.rule \in 0 .. Len(templates) /\ selected.next \in 0 .. Len(templates) + 1
    /\ meant \in Occurrences(sheet) \cup {NothingMeant}

\* The stylesheets whose imports are numbered in the order they stand in: no
\* module imports another after it includes one that imports, and what an
\* included module imports is imported by nobody else.
NumberedInOrder(s) ==
    LET modules == DOMAIN s.modules
        included == UNION {ToSet(Targets(s, m, "include")) : m \in modules}
        paths == PathsBelow(s, "main")
    IN  /\ \A m \in modules :
              ImportsIn(s, m) = FoldLeft(LAMBDA acc, sub : acc \o ImportsIn(s, sub),
                                         Targets(s, m, "import"), Targets(s, m, "include"))
        /\ \A x \in UNION {ToSet(Targets(s, m, "import")) : m \in included} :
              Cardinality({p \in paths \ {<<>>} : LevelAt(s, "main", p) = x}) = 1

\* The rule that runs is the one the definition means, by its declaration and by
\* the branch of its union, at every step from xsl:apply-templates through
\* xsl:next-match and xsl:apply-imports: the numbers that precedence is counted
\* in, the interval that stands for an import tree, the order of the list and
\* the index lose nothing of it.  Where a mode wants it, the choice is refused
\* exactly when two declarations tie.
RuleIsMeant == NumberedInOrder(sheet) =>
    LET applicable == Applicable(sheet, focus.node, focus.mode)
    IN  /\ dispatch = "running" =>
              /\ meant # NothingMeant
              /\ templates[selected.rule].name = RuleAt(sheet, meant).name
              /\ templates[selected.rule].branch = meant.branch
        /\ dispatch = "builtin" => meant = NothingMeant
        /\ dispatch \in {"running", "refused"} /\ meant = BestOf(sheet, applicable) =>
              (dispatch = "refused") = (/\ focus.mode \in sheet.fails
                                        /\ \E o \in applicable : Tied(sheet, meant, o))
===================================================================================
