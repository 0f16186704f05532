------------------------------ MODULE MCRuleChoice ------------------------------
(* Stylesheets of up to five modules with a few rules in each. *)
EXTENDS RuleChoice

NodeA == [kind |-> "element", name |-> "a"]
NodeB == [kind |-> "element", name |-> "b"]
AttributeA == [kind |-> "attribute", name |-> "a"]
TextNode == [kind |-> "text", name |-> "none"]
MatchedNodes == {NodeA, NodeB, AttributeA, TextNode}

Import(m) == [kind |-> "import", of |-> m]
Include(m) == [kind |-> "include", of |-> m]
RuleDecl(name, alts, modes) ==
    [kind |-> "rule", name |-> name, alts |-> alts, modes |-> modes, stated |-> FALSE, priority |-> 0]
Stated(rule, priority) == [rule EXCEPT !.stated = TRUE, !.priority = priority]

Test(on, test, name) == [on |-> on, test |-> test, name |-> name, where |-> MatchedNodes]
Named(n) == Test("child", "name", n)
NamedA == Named("a")
AnyElement == Test("child", "star", "none")
AnyChild == Test("child", "any", "none")
Texts == Test("child", "kind", "text")
AnyAttribute == Test("attribute", "any", "none")
CalledA == [Test("call", "any", "none") EXCEPT !.where = {NodeA, AttributeA}]
APredicate == [NamedA EXCEPT !.where = {NodeA}]

\* What a module may hold of rules, by the module's name.
Unnamed(name, p) == RuleDecl(name, <<p>>, {""})
OfOneModule(m) ==
    { <<Unnamed(m, NamedA)>>,
      <<Unnamed(m, AnyChild), RuleDecl(m \o "2", <<NamedA, Texts>>, {"m"})>>,
      <<RuleDecl(m, <<Named("b"), NamedA, AnyElement>>, {"#all"})>> }
Varied ==
    { <<Unnamed("1", NamedA), Unnamed("2", APredicate), Unnamed("3", CalledA)>>,
      <<Unnamed("1", NamedA), RuleDecl("2", <<AnyElement, NamedA>>, {"", "m"}), Unnamed("3", AnyElement)>>,
      <<Stated(RuleDecl("1", <<NamedA, AnyAttribute>>, {"#all"}), -2), Unnamed("2", AnyChild),
        RuleDecl("3", <<AnyAttribute>>, {"m"})>>,
      <<Stated(Unnamed("1", Texts), 2), RuleDecl("2", <<CalledA, Texts>>, {"m", ""}), Unnamed("3", AnyChild)>>,
      <<RuleDecl("1", <<APredicate, CalledA>>, {"", "m"}), Unnamed("2", NamedA), Unnamed("3", Texts)>> }

SheetOf(modules, fails) == [modules |-> modules, declared |-> {"m"}, fails |-> fails]
Single == {SheetOf([main |-> ds], fails) : ds \in Varied, fails \in {{}, {"", "m"}}}

\* Trees of imports and includes around the rules of their modules.
Trees ==
    { SheetOf([main |-> <<Import("x"), Import("y")>> \o m, x |-> x, y |-> y], {}) :
        m \in {<<>>} \cup OfOneModule("main"), x \in OfOneModule("x"), y \in OfOneModule("y") }
    \cup
    { SheetOf([main |-> <<Import("x"), Import("y"), Unnamed("main", AnyElement)>>,
             x |-> <<Import("u")>> \o x, y |-> <<Import("v"), Import("u")>> \o y,
             u |-> u, v |-> <<Unnamed("v", NamedA)>>], {}) :
        x \in OfOneModule("x"), y \in OfOneModule("y"), u \in OfOneModule("u") }
    \cup
    { SheetOf([main |-> <<Import("x")>> \o m \o <<Include("i"), Unnamed("last", AnyChild)>>,
             i |-> <<Import("y")>> \o i, x |-> x, y |-> <<Unnamed("y", AnyElement)>>], {""}) :
        m \in {<<>>} \cup OfOneModule("main"), i \in OfOneModule("i"), x \in OfOneModule("x") }

\* An included module's import is imported again, and one stands after an include.
ImportedAgain ==
    SheetOf([main |-> <<Import("x"), Import("y"), Unnamed("main", NamedA)>>,
           x |-> <<Include("i"), Unnamed("x", NamedA)>>, i |-> <<Import("u")>>,
           y |-> <<Import("u")>>, u |-> <<Unnamed("u", NamedA)>>], {})
ImportedLate ==
    SheetOf([main |-> <<Include("i"), Import("x")>>, i |-> <<Import("y")>>,
           x |-> <<Unnamed("x", NamedA)>>, y |-> <<Unnamed("y", NamedA)>>], {})

SmallSheets == Single \cup Trees \cup {ImportedAgain, ImportedLate}
=================================================================================
