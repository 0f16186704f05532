--------------------------- MODULE MCTransformDocs ---------------------------
(* Small instances of TransformDocs for TLC. *)
EXTENDS TransformDocs, TLC

CONSTANTS p1, p2, k1, k2, k3, h0, h1, h2

\* Two calls for one file, and one for another.
MCPathOf == k1 :> p1 @@ k2 :> p1 @@ k3 :> p2

\* Two calls for one file; the other is not read by the transform.
OneFile == k1 :> p1 @@ k2 :> p1

\* The host preloads the second file, or another transform reads it.
SecondFile == [path : {p2}, pos : {FALSE}, host : {TRUE}]

\* The transform has no base output URI, and two absolute hrefs name the first
\* file.
NoBase == h0 :> None @@ h1 :> p1 @@ h2 :> p1

\* The base output URI is the first file's, and a relative href resolves to it.
WithBase == h0 :> p1 @@ h1 :> p1 @@ h2 :> p2
=============================================================================
