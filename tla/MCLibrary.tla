-------------------------------- MODULE MCLibrary --------------------------------
(***************************************************************************)
(* The parts of the library that keep their state to themselves, checked   *)
(* side by side: the tables that goroutines, transforms and validations    *)
(* share, the budget of result nodes, validation by derivatives and by     *)
(* content models, maps, inclusion, accumulators, windows and the choice  *)
(* of rules.  No two share state, so that a behaviour follows one: `part`  *)
(* says which, and the others stay as they were made.                      *)
(***************************************************************************)
EXTENDS SideTable, NameMemo, StrippedTrees, NestedCache, MemoTables, CallSites,
        LiveBudget, MCRelaxNG, MCMapTrie, MCInclusion, MCContentModel,
        MCAccumulators, MCWindows, MCRuleChoice

CONSTANTS g1, g2, none

VARIABLE part

libraryVars == <<sideVars, memoVars, strippedVars, nestedVars, memoTablesVars,
                 siteVars, liveVars, relaxVars, trieVars, inclusionVars,
                 contentVars, accumVars, windowVars, ruleVars, part>>

SinceOf == k1 :> 20 @@ k2 :> 30
FoundByKey == k1 :> 2 @@ k2 :> 1

Parts == {"side", "memo", "stripped", "nested", "memotables", "sites", "live",
          "relaxng", "maps", "inclusion", "content", "accumulators", "windows", "rules"}

LibraryTypeOK ==
    /\ part \in Parts
    /\ part = "side" => SideTypeOK
    /\ part = "memo" => NameMemoTypeOK
    /\ part = "stripped" => StrippedTypeOK
    /\ part = "nested" => NestedTypeOK
    /\ part = "memotables" => MemoTablesTypeOK
    /\ part = "live" => LiveTypeOK
    /\ part = "relaxng" => RelaxTypeOK
    /\ part = "maps" => MapTrieTypeOK
    /\ part = "inclusion" => InclusionTypeOK
    /\ part = "content" => ContentTypeOK
    /\ part = "accumulators" => AccumTypeOK
    /\ part = "windows" => WindowsTypeOK
    /\ part = "rules" => RuleChoiceTypeOK

\* What a part may start from is one thing in the behaviours of the others.
LibraryInit ==
    /\ part \in Parts
    /\ part # "relaxng" => schema = Root(EmptyPattern) /\ document = Leaf("r")
    /\ part # "live" => nodesBuilt = 0 /\ on = TRUE
    /\ part # "sites" => defines = [l \in Lib |-> NotFound] /\ parent = [l \in Lib |-> NoLib]
    /\ part # "inclusion" => /\ resources = [Alone EXCEPT !["top"].content = <<Xml(NoHref, <<Blot>>)>>]
                             /\ including = <<>>
    /\ part # "content" => input = Match(EmptyChoice, "validator", {"a"}, 0)
    /\ part # "accumulators" => walk = Walk(<<0, 1>>, <<"append", "before">>, <<"none", "none">>)
    /\ part # "windows" => clause = Clause(FALSE, FALSE, FALSE, {}, [i \in Four |-> {}])
    /\ part # "rules" => sheet = ImportedLate
    /\ ContentInit /\ AccumInit /\ WindowsInit /\ InclusionInit /\ RelaxInit
    /\ RuleChoiceInit /\ MapTrieInit /\ LiveInit /\ SideInit /\ NameMemoInit /\ StrippedInit
    /\ NestedInit /\ MemoTablesInit /\ SiteInit

\* The parts a behaviour is not about.
Still(p) ==
    /\ IF p = "side" THEN TRUE ELSE UNCHANGED sideVars
    /\ IF p = "memo" THEN TRUE ELSE UNCHANGED memoVars
    /\ IF p = "stripped" THEN TRUE ELSE UNCHANGED strippedVars
    /\ IF p = "nested" THEN TRUE ELSE UNCHANGED nestedVars
    /\ IF p = "memotables" THEN TRUE ELSE UNCHANGED memoTablesVars
    /\ IF p = "sites" THEN TRUE ELSE UNCHANGED siteVars
    /\ IF p = "live" THEN TRUE ELSE UNCHANGED liveVars
    /\ IF p = "relaxng" THEN TRUE ELSE UNCHANGED relaxVars
    /\ IF p = "maps" THEN TRUE ELSE UNCHANGED trieVars
    /\ IF p = "inclusion" THEN TRUE ELSE UNCHANGED inclusionVars
    /\ IF p = "content" THEN TRUE ELSE UNCHANGED contentVars
    /\ IF p = "accumulators" THEN TRUE ELSE UNCHANGED accumVars
    /\ IF p = "windows" THEN TRUE ELSE UNCHANGED windowVars
    /\ IF p = "rules" THEN TRUE ELSE UNCHANGED ruleVars

StepOf(p, step) == part = p /\ step /\ Still(p) /\ UNCHANGED part

LibraryNext ==
    \/ StepOf("side", SideNext)
    \/ StepOf("memo", NameMemoNext)
    \/ StepOf("stripped", StrippedNext)
    \/ StepOf("nested", NestedNext)
    \/ StepOf("memotables", MemoTablesNext)
    \/ StepOf("sites", SiteNext)
    \/ StepOf("live", LiveNext)
    \/ StepOf("relaxng", RelaxNext)
    \/ StepOf("maps", MapTrieNext)
    \/ StepOf("inclusion", InclusionNext)
    \/ StepOf("content", ContentNext)
    \/ StepOf("accumulators", AccumNext)
    \/ StepOf("windows", WindowsNext)
    \/ StepOf("rules", RuleChoiceNext)

\* The fairness of a part says nothing of a behaviour that is about another.
LibraryFairness ==
    /\ WF_sideVars(part = "side" /\ CollectAll)
    /\ WF_sideVars(part = "side" /\ SideSweep)
    /\ \A v \in Validation : SF_memoVars(part = "memo" /\ Proceed(v))
    /\ WF_strippedVars(part = "stripped" /\ CollectTree)
    /\ WF_strippedVars(part = "stripped" /\ DropStripped)

LibrarySpec == LibraryInit /\ [][LibraryNext]_libraryVars /\ LibraryFairness
==================================================================================
