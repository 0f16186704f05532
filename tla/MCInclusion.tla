------------------------------- MODULE MCInclusion -------------------------------
(* Three resources that include one another, themselves and parts of theirs. *)
EXTENDS IncludedContent

Xml(uri, fallback) == IncludeItem(uri, "xml", NoPointer, fallback)
Pointed(uri, id, fallback) == IncludeItem(uri, "xml", id, fallback)
Quote(id, fallback) == IncludeItem(NoHref, "xml", id, fallback)
AsText(uri) == IncludeItem(uri, "text", NoPointer, NoFallback)
Ink == LeafItem("ink")
Blot == LeafItem("blot")
None == NoFallback

TopContents ==
    { <<Xml("u", None)>>,
      <<Ink, Xml("u", <<Blot>>)>>,
      <<Xml("u", <<Xml("v", None)>>), Xml("v", <<Blot>>)>>,
      <<Pointed("u", "k", <<Quote("p", None)>>), ElementItem("p", <<Ink>>)>>,
      <<ElementItem("p", <<Xml("u", <<Blot>>), Xml("v", <<Xml("u", None)>>)>>), Quote("p", None)>>,
      <<ElementItem("p", <<Xml("u", None)>>), ElementItem("q", <<Quote("k", <<Blot>>)>>)>>,
      <<Quote("q", <<Blot>>), ElementItem("q", <<Xml("u", <<Blot>>)>>)>>,
      <<ElementItem("p", <<Ink, Quote("p", <<Blot>>)>>)>>,
      <<ElementItem("p", <<Quote("q", None)>>), ElementItem("q", <<Quote("q", <<Blot>>)>>)>>,
      <<AsText("u"), AsText(NoHref)>>,
      <<AsText("v"), AsText("v"), AsText("u"), AsText(NoHref)>>,
      <<AsText("v"), AsText("v"), AsText("v"), Xml("u", <<Blot>>)>>,
      <<Xml(NoHref, <<Blot>>)>>,
      <<Xml("u", <<ElementItem("p", <<Ink>>), Misplaced>>)>>,
      \* What is quoted is in a fallback: after it and in it, around the quotation,
      \* before it, in a fallback of a fallback, and in none that is used.
      <<Xml("u", <<ElementItem("p", <<Xml("v", <<Ink>>)>>), Quote("p", None)>>), Quote("p", <<Blot>>)>>,
      <<Xml("u", <<ElementItem("p", <<Ink, Quote("p", <<Blot>>)>>)>>)>>,
      <<ElementItem("q", <<Xml("u", <<ElementItem("p", <<Quote("q", <<Blot>>)>>)>>)>>), Quote("p", <<Ink>>)>>,
      <<Quote("p", <<Blot>>), Xml("u", <<ElementItem("p", <<Xml("v", <<Blot>>)>>)>>)>>,
      <<Xml("u", <<Xml("v", <<ElementItem("p", <<Quote("q", None), Xml("u", <<Ink>>)>>)>>)>>),
        ElementItem("q", <<Quote("p", <<Blot>>)>>)>> }

UContents ==
    { Resource("missing", <<>>), Resource("malformed", <<>>), Resource("excessive", <<>>),
      Resource("read", <<ElementItem("k", <<Ink>>)>>),
      Resource("read", <<Xml("v", None)>>),
      Resource("read", <<ElementItem("k", <<Xml("v", <<Ink>>), Quote("k", <<Blot>>)>>)>>),
      Resource("read", <<Xml("top", <<Blot>>)>>),
      Resource("read", <<Ink, Misplaced>>),
      Resource("read", <<Xml("v", <<Blot>>), ElementItem("k", <<Xml("v", None)>>)>>) }

VContents ==
    { Resource("missing", <<>>), Resource("excessive", <<>>),
      Resource("read", <<ElementItem("p", <<Ink>>)>>),
      Resource("read", <<Ink, Pointed("u", "k", <<Blot>>)>>),
      Resource("read", <<Xml("top", None)>>) }

ThreeResources ==
    {[uri \in {"top", "u", "v"} |->
         CASE uri = "top" -> Resource("read", t) [] uri = "u" -> u [] uri = "v" -> v]
     : t \in TopContents, u \in UContents, v \in VContents}

\* Nothing but the document is there.
Alone == [uri \in {"top", "u", "v"} |-> Resource(IF uri = "top" THEN "read" ELSE "missing", <<>>)]
==================================================================================
