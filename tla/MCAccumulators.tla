------------------------------ MODULE MCAccumulators ------------------------------
(* Small trees under rules that grow, restore and replace the value. *)
EXTENDS Accumulators, DocumentOrder

Walk(parent, start, end) == [parent |-> parent, start |-> start, end |-> end]

\* A chain, a branch in the middle and siblings.
Shapes == {<<0, 1, 2, 3>>, <<0, 1, 2, 2>>, <<0, 1, 1, 3>>, <<0, 1, 1, 1>>}

FourNodes ==
    {Walk(p, s, e) : p \in Shapes,
        s \in {<<a1, b1, c1, d1>> : a1 \in {"none", "append two"}, b1 \in {"none", "append"},
                                c1 \in {"none", "replace"}, d1 \in {"none", "append"}},
        e \in {<<a2, b2, c2, d2>> : a2 \in {"none", "append"}, b2 \in {"none", "before"},
                                c2 \in {"none", "before", "reset"}, d2 \in {"none", "append"}}}

\* A value of an item is appended to at every event.
OneByOne == Walk(<<0, 1, 2>>, [n \in 1 .. 3 |-> "append"], [n \in 1 .. 3 |-> "append"])

\* A value is restored by a node and not, once more, by one around it.
RestoredOnce ==
    {w \in FourNodes : \A n \in Restoring(w) : w.parent[n] \notin Restoring(w)}
    \cup {OneByOne, Walk(<<0, 1>>, <<"append", "before">>, <<"none", "none">>)}

\* Scopes in scopes.
RestoredTwice == FourNodes \ RestoredOnce

\* In these trees a node inside another that restores its value is its child.
ASSUME ScopesAssumption == \A w \in FourNodes : RestoredApart(w) = (w \in RestoredOnce)
===================================================================================
