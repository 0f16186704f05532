------------------------------ MODULE IncludedContent ------------------------------
(***************************************************************************)
(* XInclude over contents (xdm/xinclude.go): the element a pointer selects, *)
(* a document as an include in it sees it, and what an including document  *)
(* means, which inclusion step by step has to arrive at.                   *)
(***************************************************************************)
EXTENDS Inclusion
LOCAL INSTANCE SequencesExt

\* The elements of a content in document order, as elementByIDIn walks them.
RECURSIVE ElementsOf(_)
ElementsOf(content) ==
    IF content = <<>> THEN <<>>
    ELSE LET x == Head(content)
         IN  (CASE x.kind = "element" -> <<x>> \o ElementsOf(x.content)
                [] x.kind = "include" /\ x.fallback # NoFallback -> ElementsOf(x.fallback)
                [] OTHER -> <<>>) \o ElementsOf(Tail(content))

\* The element a shorthand pointer selects, if there is one.
SelectedBy(content, id) ==
    LET all == ElementsOf(content)
    IN  {all[i] : i \in {j \in DOMAIN all :
            all[j].id = id /\ \A k \in 1 .. j - 1 : all[k].id # id}}

\* Mutant: an include is seen as it was read, with what is in its fallback.
RECURSIVE ViewOfElements(_, _, _)
ViewOfElements(done, around, content) ==
    [i \in DOMAIN content |->
        LET x == content[i]
        IN  IF x.kind # "element" THEN x
            ELSE IF x.id \in DOMAIN done THEN ElementItem(x.id, done[x.id])
            ELSE ElementItem(x.id, (IF x.id \in around THEN <<AroundMark>> ELSE <<>>)
                                       \o ViewOfElements(done, around, x.content))]

\* A document as an include in it sees it (viewOf): an element that is finished is
\* seen as inclusion left it, and those around the include are marked, in the
\* fallbacks of other includes as well.
RECURSIVE ViewOf(_, _, _)
ViewOf(done, around, content) ==
    [i \in DOMAIN content |->
        LET x == content[i]
        IN  CASE x.kind = "element" /\ x.id \in DOMAIN done -> ElementItem(x.id, done[x.id])
              [] x.kind = "element" /\ x.id \notin DOMAIN done ->
                    ElementItem(x.id, (IF x.id \in around THEN <<AroundMark>> ELSE <<>>)
                                          \o ViewOf(done, around, x.content))
              [] x.kind = "include" -> [x EXCEPT !.fallback = ViewOf(done, around, @)]
              [] x.kind \notin {"element", "include"} -> x]

-----------------------------------------------------------------------------
\* What an include stands for, with no thought of frames and limits: `around`
\* is the documents it is nested in, `ids` the elements, and `done` the
\* elements of its document that ended before it.
Yields(error, out, done) == [error |-> error, out |-> out, done |-> done]

\* The elements a pointer may mean in a document of which the elements in `done`
\* have ended: those as they ended and what is in them now, and the others, which
\* are the ones `unended`, as they were read.  Fallbacks are part of the document.
Meant(x, unended) == [element |-> x, unended |-> unended]

RECURSIVE Standing(_, _)
Standing(document, done) ==
    IF document = <<>> THEN <<>>
    ELSE LET x == Head(document)
             first ==
                CASE x.kind = "element" /\ x.id \in DOMAIN done ->
                       LET ended == ElementsOf(<<ElementItem(x.id, done[x.id])>>)
                       IN  [i \in DOMAIN ended |-> Meant(ended[i], FALSE)]
                  [] x.kind = "element" /\ x.id \notin DOMAIN done ->
                       <<Meant(x, TRUE)>> \o Standing(x.content, done)
                  [] x.kind = "include" -> Standing(x.fallback, done)
                  [] x.kind \notin {"element", "include"} -> <<>>
         IN  first \o Standing(Tail(document), done)

RECURSIVE Meaning(_, _, _, _)
Meaning(content, around, ids, done) ==
    IF content = <<>> THEN Yields("none", <<>>, done)
    ELSE
    LET x == Head(content)
        here == around[Len(around)]
        Instead(error, dn) ==
            IF error = "plain" /\ x.fallback # NoFallback THEN Meaning(x.fallback, around, ids, dn)
            ELSE Yields(error, <<>>, dn)
        One(set, dn) == IF set = {} THEN Instead("plain", dn)
                        ELSE Yields("none", <<CHOOSE e \in set : TRUE>>, dn)
        Included(uri) ==
            LET sub == Meaning(resources[uri].content, Append(around, uri), {}, <<>>)
            IN  IF sub.error # "none" THEN Instead(sub.error, done)
                ELSE IF x.xptr = NoPointer THEN Yields("none", sub.out, done)
                ELSE One(PointedAt(sub.out, x.xptr), done)
        uri == IF x.href = NoHref THEN here ELSE x.href
        first ==
            CASE x.kind = "leaf" -> Yields("none", <<x>>, done)
              [] x.kind = "misplaced" -> Yields("plain", <<>>, done)
              [] x.kind = "element" ->
                   LET sub == Meaning(x.content, around, ids \cup {x.id}, done)
                   IN  Yields(sub.error, <<ElementItem(x.id, sub.out)>>, x.id :> sub.out @@ sub.done)
              [] x.kind = "include" /\ IsLocal(x) ->
                   LET all == Standing(resources[IF here = NoHref THEN TopUri ELSE here].content,
                                       done)
                       meant == SelectInSeq(all, LAMBDA e : e.element.id = x.xptr)
                   IN  IF meant = 0 THEN Instead("plain", done)
                       ELSE IF all[meant].unended /\ x.xptr \in ids THEN Yields("loop", <<>>, done)
                       ELSE Yields("none", <<all[meant].element>>, done)
              [] x.kind = "include" /\ ~IsLocal(x) ->
                   IF uri = NoHref \/ resources[uri].status = "missing" THEN Instead("plain", done)
                   ELSE IF x.parse = "text" THEN Yields("none", <<LeafItem(uri)>>, done)
                   ELSE IF \E i \in DOMAIN around : around[i] = uri THEN Yields("loop", <<>>, done)
                   ELSE IF resources[uri].status = "malformed" THEN Instead("plain", done)
                   ELSE IF resources[uri].status = "excessive" THEN Yields("limit", <<>>, done)
                   ELSE Included(uri)
    IN  IF first.error # "none" THEN first
        ELSE LET rest == Meaning(Tail(content), around, ids, first.done)
             IN  Yields(rest.error, first.out \o rest.out, rest.done)

\* What is returned is what the document means: nothing of an inclusion that
\* failed is left in it, an element quoted by its own document is quoted as it
\* ends up if it has ended, in a fallback or not, one that encloses the quotation
\* is a loop, and a loop or a refusal is returned whatever fallbacks there are.  A pass that grows too large may fail for that instead.
MeansWhatItIncludes ==
    result \in {"included", "plain", "loop"} =>
        LET m == Meaning(resources[TopUri].content,
                         IF including = <<>> THEN <<NoHref>> ELSE <<TopUri>>, {}, <<>>)
        IN  IF result = "included" THEN m.error = "none" /\ m.out = frames[1].out
            ELSE m.error = result

====================================================================================
