--------------------------- MODULE MCFileResolver ---------------------------
(* Small instances of FileResolver and of the store it implements, for TLC. *)
EXTENDS FileResolverStore, TLC

CONSTANTS p1, p2, p3

\* One document expands within the allowance once, and only once.
ExpandOne == [p \in Path |-> IF p = p1 THEN 2 ELSE 0]
RunsAndPaths == Permutations(Run) \cup Permutations({p2, p3})
=============================================================================
