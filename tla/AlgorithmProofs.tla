---------------------------- MODULE AlgorithmProofs ----------------------------
(***************************************************************************)
(* Proofs about four algorithms that keep their state to themselves.       *)
(*                                                                         *)
(* The window clause: for every clause, what the two searches of           *)
(* windowClause.windows emit is the windows the clause's conditions        *)
(* describe.  That the windows of a tumbling clause are described at all,  *)
(* by a function whose value at an item depends on those before it, is     *)
(* shown by a least length at which there would be none.                   *)
(*                                                                         *)
(* XInclude: the stack in which loops are looked for is the documents that *)
(* are being processed.  It is left as it was by every step that begins or *)
(* ends no document, and the lemmas say so of any calls and any stack.     *)
(* That there are no more documents than the limit allows is read off the  *)
(* depth a call carries.                                                   *)
(*                                                                         *)
(* Accumulators: the values recorded along a walk stay what they were      *)
(* recorded as although they share arrays, because nothing recorded        *)
(* reaches into the room behind the current value, and that room was paid  *)
(* for.                                                                    *)
(*                                                                         *)
(* The index of template rules: it hides no rule that matches.             *)
(***************************************************************************)
EXTENDS Windows, Inclusion, Accumulators, RuleIndex, FiniteSums

-----------------------------------------------------------------------------
(* The windows of the conditions. *)

\* The function Free is, up to item n.
IsFree(f, n) ==
    f = [i \in 1 .. n |-> i \in Wanted /\ \A j \in 1 .. i - 1 : f[j] => LastOf(j) < i]

LEMMA FreeExists == \A n \in Nat : \E f : IsFree(f, n)
<1> DEFINE Bad == {n \in Nat : ~ \E f : IsFree(f, n)}
<1>1. SUFFICES ASSUME Bad # {} PROVE FALSE
  OBVIOUS
<1>2. PICK n \in Bad : \A m \in Bad : n <= m
  <2>1. Bad \in SUBSET Nat
    OBVIOUS
  <2> HIDE DEF Bad
  <2> QED BY <1>1, <2>1, LeastNumber
<1>3. n \in Nat /\ ~ \E f : IsFree(f, n)
  OBVIOUS
<1>4. n # 0
  <2> DEFINE none == [i \in 1 .. 0 |-> FALSE]
  <2>1. IsFree(none, 0)
    <3>1. 1 .. 0 = {}
      OBVIOUS
    <3> QED BY <3>1 DEF IsFree
  <2> QED BY <1>3, <2>1
<1>5. PICK f : IsFree(f, n - 1)
  <2>1. n - 1 \in Nat /\ ~(n <= n - 1)
    BY <1>3, <1>4
  <2>2. n - 1 \notin Bad
    BY <1>2, <2>1
  <2> QED BY <2>1, <2>2
<1> DEFINE At(g, i) == i \in Wanted /\ \A j \in 1 .. i - 1 : g[j] => LastOf(j) < i
           g == [i \in 1 .. n |-> IF i < n THEN f[i] ELSE At(f, n)]
<1> HIDE DEF Bad
<1>6. \A i \in 1 .. n : \A j \in 1 .. i - 1 : j \in 1 .. n /\ j < n
  BY <1>3
<1>7. \A i \in 1 .. n : \A j \in 1 .. i - 1 : g[j] = f[j]
  BY <1>6
<1>8. \A i \in 1 .. n : At(g, i) = At(f, i)
  <2> HIDE DEF g
  <2> TAKE i \in 1 .. n
  <2>1. \A j \in 1 .. i - 1 : g[j] = f[j]
    BY <1>7
  <2>2. (\A j \in 1 .. i - 1 : g[j] => LastOf(j) < i) <=> (\A j \in 1 .. i - 1 : f[j] => LastOf(j) < i)
    BY <2>1, Zenon
  <2> QED BY <2>2, Zenon
<1>9. \A i \in 1 .. n : g[i] = At(g, i)
  <2> TAKE i \in 1 .. n
  <2>1. CASE i < n
    <3>1. i \in 1 .. n - 1
      BY <1>3, <2>1
    <3>2. f[i] = At(f, i)
      <4>1. f = [x \in 1 .. n - 1 |-> At(f, x)]
        BY <1>5, Zenon DEF IsFree
      <4> HIDE DEF At
      <4> QED BY <3>1, <4>1, Zenon
    <3>3. g[i] = f[i]
      BY <2>1, Zenon
    <3> HIDE DEF g, At
    <3> QED BY <1>8, <3>2, <3>3, Zenon
  <2>2. CASE i = n
    <3>1. g[i] = At(f, n)
      <4>1. ~(i < n)
        BY <1>3, <2>2
      <4> HIDE DEF At
      <4> QED BY <4>1, Zenon
    <3> HIDE DEF g, At
    <3> QED BY <1>8, <2>2, <3>1, Zenon
  <2>3. i < n \/ i = n
    BY <1>3
  <2> QED BY <2>1, <2>2, <2>3, Zenon
<1>10. IsFree(g, n)
  <2> DEFINE h == [i \in 1 .. n |-> At(g, i)]
  <2>1. g = h
    <3>1. g = [i \in 1 .. n |-> g[i]]
      BY Zenon
    <3> HIDE DEF g, At
    <3> QED BY <1>9, <3>1, Zenon
  <2> QED BY <2>1, Zenon DEF IsFree
<1> QED BY <1>3, <1>10

\* An item is free when it is wanted and every window before it ends before it.
LEMMA FreeIs ==
    ASSUME Length \in Nat, NEW i \in 1 .. Length
    PROVE  Free[i] <=> (i \in Wanted /\ \A j \in 1 .. i - 1 : Free[j] => LastOf(j) < i)
<1>1. \E f : IsFree(f, Length)
  BY FreeExists
<1>2. IsFree(Free, Length)
  <2>1. Free = CHOOSE f : IsFree(f, Length)
    BY Zenon DEF Free, IsFree
  <2> QED BY <1>1, <2>1, Zenon
<1> DEFINE body == i \in Wanted /\ \A j \in 1 .. i - 1 : Free[j] => LastOf(j) < i
<1>3. Free[i] = body
  BY <1>2, Zenon DEF IsFree
<1> QED BY <1>3, Zenon

\* A window ends at the first item that closes it, and with the sequence if none does.
LEMMA ClosesIn ==
    ASSUME clause \in Clauses, NEW i \in 1 .. Length
    PROVE  \A j \in Closes(i) : j \in i .. Length
<1>1. Length \in Nat /\ clause.starts \subseteq 1 .. Length /\ clause.ends[i] \subseteq 1 .. Length
  BY WindowsAssumption DEF Length
<1> QED BY <1>1 DEF Closes

LEMMA LastIs ==
    ASSUME clause \in Clauses, NEW i \in 1 .. Length, NEW j \in Closes(i),
           \A x \in Closes(i) : j <= x
    PROVE  LastOf(i) = j
<1>1. \A x \in Closes(i) : x \in Nat
  BY ClosesIn
<1> DEFINE set == Closes(i)
<1>2. j \in set /\ \A x \in set : j <= x /\ x \in Nat
  BY <1>1
<1> HIDE DEF set
<1>3. Least(set) = j
  <2>1. \E x \in set : \A y \in set : x <= y
    BY <1>2
  <2>2. Least(set) \in set /\ \A y \in set : Least(set) <= y
    BY <2>1 DEF Least
  <2> QED BY <1>2, <2>2
<1>4. set # {}
  BY <1>2
<1> QED BY <1>3, <1>4 DEF LastOf, set

LEMMA LastIn ==
    ASSUME clause \in Clauses, NEW i \in 1 .. Length
    PROVE  LastOf(i) \in i .. Length
<1>1. CASE Closes(i) = {}
  BY <1>1, WindowsAssumption DEF LastOf, Length
<1>2. CASE Closes(i) # {}
  <2> DEFINE set == Closes(i)
  <2>1. set \in SUBSET Nat
    BY ClosesIn
  <2> HIDE DEF set
  <2>2. PICK n \in set : \A m \in set : n <= m
    BY <1>2, <2>1, LeastNumber DEF set
  <2>3. LastOf(i) = n
    BY <2>2, LastIs DEF set
  <2> QED BY <2>2, <2>3, ClosesIn DEF set
<1> QED BY <1>1, <1>2

-----------------------------------------------------------------------------
(* The invariant. *)

WindowTypes ==
    /\ clause \in Clauses
    /\ startAt \in 1 .. Length + 1
    /\ endAt \in 0 .. Length + 1
    /\ windows \in Seq([first : Nat, last : Nat, closed : BOOLEAN])

\* While an end is searched for, the start is one and no item before the one
\* tried closes its window.
Searching ==
    endAt # 0 =>
        /\ startAt \in clause.starts
        /\ \A j \in Closes(startAt) : endAt <= IF clause.hasEnd THEN j ELSE j + 1
        /\ endAt >= IF clause.hasEnd THEN startAt ELSE startAt + 1

\* The windows of a tumbling clause before the start that is tried are behind it.
Behind ==
    ~clause.sliding => \A j \in 1 .. Length : Free[j] /\ j < startAt => LastOf(j) < startAt

WindowsInv == WindowTypes /\ Searching /\ Behind /\ EmittedAreTheWindows

LEMMA ClauseKept ==
    ASSUME clause' = clause
    PROVE  /\ Length' = Length /\ Free' = Free /\ Firsts' = Firsts /\ Wanted' = Wanted
           /\ \A i : Closes(i)' = Closes(i) /\ LastOf(i)' = LastOf(i)
BY DEF Length, Free, Firsts, Wanted, Kept, Closes, LastOf, Least

LEMMA WindowsInvInit == WindowsInit => WindowsInv
<1> SUFFICES ASSUME WindowsInit PROVE WindowsInv
  OBVIOUS
<1>1. clause \in Clauses /\ startAt = 1 /\ endAt = 0 /\ windows = <<>> /\ Length \in Nat
  BY WindowsAssumption DEF WindowsInit, Length
<1>2. WindowTypes /\ Searching
  BY <1>1 DEF WindowTypes, Searching
<1>3. Behind
  BY <1>1 DEF Behind
<1>4. Firsts \subseteq 1 .. Length
  BY <1>1, WindowsAssumption DEF Firsts, Wanted, Length
<1>5. {i \in Firsts : i < startAt} = {}
  <2>1. \A i \in Firsts : ~(i < 1)
    BY <1>1, <1>4
  <2> QED BY <1>1, <2>1
<1>6. DOMAIN windows = {}
  BY <1>1
<1>7. EmittedAreTheWindows
  BY <1>5, <1>6 DEF EmittedAreTheWindows
<1> QED BY <1>2, <1>3, <1>7 DEF WindowsInv

LEMMA FirstsIn ==
    ASSUME clause \in Clauses
    PROVE  /\ Length \in Nat /\ clause.starts \subseteq 1 .. Length
           /\ Firsts \subseteq 1 .. Length /\ Wanted \subseteq clause.starts
           /\ \A i \in 1 .. Length : i \in Firsts => i \in Wanted
<1>1. Length \in Nat /\ clause.starts \subseteq 1 .. Length
  BY WindowsAssumption DEF Length
<1>2. Wanted \subseteq clause.starts
  BY DEF Wanted
<1>3. Firsts \subseteq 1 .. Length
  BY <1>1, <1>2 DEF Firsts
<1>4. \A i \in 1 .. Length : Free[i] => i \in Wanted
  BY <1>1, FreeIs
<1>5. \A i \in 1 .. Length : i \in Firsts => i \in Wanted
  BY <1>4 DEF Firsts
<1> QED BY <1>1, <1>2, <1>3, <1>5

\* An item that starts no window is passed.
LEMMA Passed ==
    ASSUME WindowsInv, startAt \in 1 .. Length, startAt \notin Wanted,
           startAt' = startAt + 1, endAt' = 0, UNCHANGED <<windows, clause>>
    PROVE  WindowsInv'
<1>1. /\ Length' = Length /\ Free' = Free /\ Firsts' = Firsts
      /\ \A i : Closes(i)' = Closes(i) /\ LastOf(i)' = LastOf(i)
  BY ClauseKept
<1>2. clause \in Clauses /\ WindowTypes
  BY DEF WindowsInv, WindowTypes
<1>3. /\ Length \in Nat /\ Firsts \subseteq 1 .. Length
      /\ startAt \notin Firsts
  BY <1>2, FirstsIn
<1>4. WindowTypes'
  BY <1>1, <1>2, <1>3 DEF WindowTypes
<1>5. Searching'
  BY DEF Searching
<1>6. Behind'
  <2>1. SUFFICES ASSUME ~clause.sliding, NEW j \in 1 .. Length, Free[j], j < startAt + 1
                 PROVE  LastOf(j) < startAt + 1
    BY <1>1 DEF Behind
  <2>2. ~Free[startAt]
    BY <1>3, FreeIs
  <2>3. j < startAt
    <3>1. j # startAt
      BY <2>1, <2>2
    <3> QED BY <2>1, <3>1
  <2>4. LastOf(j) < startAt
    BY <2>1, <2>3 DEF WindowsInv, Behind
  <2>5. LastOf(j) \in j .. Length
    BY <1>2, LastIn
  <2> QED BY <1>3, <2>4, <2>5
<1>7. {i \in Firsts : i < startAt + 1} = {i \in Firsts : i < startAt}
  <2>1. \A i \in Firsts : i < startAt + 1 <=> i < startAt
    BY <1>3
  <2> QED BY <2>1
<1>8. EmittedAreTheWindows'
  <2>1. {windows[i].first : i \in DOMAIN windows} = {i \in Firsts : i < startAt + 1}
    BY <1>7 DEF WindowsInv, EmittedAreTheWindows
  <2> QED BY <1>1, <2>1 DEF WindowsInv, EmittedAreTheWindows
<1> QED BY <1>4, <1>5, <1>6, <1>8 DEF WindowsInv

\* The start that is tried has its window, and the search resumes after it: of a
\* tumbling clause no start inside the window is free.
LEMMA Emitted ==
    ASSUME WindowsInv, startAt \in Wanted, NEW last, last = LastOf(startAt),
           NEW closed \in BOOLEAN, closed = (Closes(startAt) # {}),
           Emit(last, closed), UNCHANGED clause
    PROVE  WindowsInv'
<1>1. /\ Length' = Length /\ Free' = Free /\ Firsts' = Firsts
      /\ \A i : Closes(i)' = Closes(i) /\ LastOf(i)' = LastOf(i)
  BY ClauseKept
<1>2. clause \in Clauses /\ WindowTypes
  BY DEF WindowsInv, WindowTypes
<1>3. /\ Length \in Nat /\ Firsts \subseteq 1 .. Length
      /\ startAt \in 1 .. Length
  BY <1>2, FirstsIn
<1>4. last \in startAt .. Length
  BY <1>2, <1>3, LastIn
<1>5. /\ endAt' = 0
      /\ startAt' = IF clause.sliding THEN startAt + 1 ELSE last + 1
      /\ windows' = Append(windows, Window(startAt, last, closed))
  BY DEF Emit, ResumeAfter
<1> DEFINE w == Window(startAt, last, closed)
<1>6. /\ w \in [first : Nat, last : Nat, closed : BOOLEAN]
      /\ w.first = startAt /\ w.last = last /\ w.closed = closed
  BY <1>3, <1>4 DEF Window
<1>7. windows' = Append(windows, w)
  BY <1>5
<1> HIDE DEF w
<1>8. /\ windows' \in Seq([first : Nat, last : Nat, closed : BOOLEAN])
      /\ DOMAIN windows = 1 .. Len(windows) /\ Len(windows) \in Nat
      /\ DOMAIN windows' = 1 .. Len(windows) + 1
      /\ \A i \in DOMAIN windows : windows'[i] = windows[i]
      /\ windows'[Len(windows) + 1] = w
  BY <1>2, <1>6, <1>7 DEF WindowTypes
<1>9. startAt' \in 1 .. Length + 1
  BY <1>3, <1>4, <1>5
<1>10. WindowTypes'
  BY <1>1, <1>2, <1>3, <1>5, <1>8, <1>9 DEF WindowTypes
<1>11. Searching'
  BY <1>5 DEF Searching
<1>12. Behind' /\ startAt \in Firsts /\ \A i \in Firsts : i < startAt' <=> i < startAt \/ i = startAt
  <2>1. CASE clause.sliding
    <3>1. startAt' = startAt + 1 /\ Firsts = Wanted
      BY <1>5, <2>1 DEF Firsts
    <3>2. \A i \in Firsts : i < startAt' <=> i < startAt \/ i = startAt
      BY <1>3, <3>1
    <3> QED BY <2>1, <3>1, <3>2 DEF Behind
  <2>2. CASE ~clause.sliding
    <3>1. startAt' = last + 1 /\ \A i \in 1 .. Length : i \in Firsts <=> Free[i]
      BY <1>5, <2>2 DEF Firsts
    <3>2. \A j \in 1 .. Length : Free[j] /\ j < startAt => LastOf(j) < startAt
      BY <2>2 DEF WindowsInv, Behind
    <3>3. Free[startAt]
      <4>1. \A j \in 1 .. startAt - 1 : j \in 1 .. Length /\ j < startAt
        BY <1>3
      <4>2. \A j \in 1 .. startAt - 1 : Free[j] => LastOf(j) < startAt
        BY <3>2, <4>1
      <4> QED BY <1>3, <4>2, FreeIs
    <3>4. ASSUME NEW i \in 1 .. Length, Free[i], startAt < i PROVE last < i
      <4>1. \A j \in 1 .. i - 1 : Free[j] => LastOf(j) < i
        BY <1>3, <3>4, FreeIs
      <4>2. startAt \in 1 .. i - 1
        BY <1>3, <3>4
      <4> QED BY <3>3, <4>1, <4>2
    <3>5. ASSUME NEW i \in Firsts PROVE i < startAt' <=> i < startAt \/ i = startAt
      <4>1. i \in 1 .. Length /\ Free[i]
        BY <1>3, <3>1, <3>5
      <4>2. startAt < i => last < i
        BY <3>4, <4>1
      <4> QED BY <1>3, <1>4, <3>1, <4>1, <4>2
    <3>6. ASSUME NEW j \in 1 .. Length, Free[j], j < startAt' PROVE LastOf(j) < startAt'
      <4>1. j < startAt \/ j = startAt
        BY <3>1, <3>5, <3>6
      <4>2. CASE j = startAt
        BY <1>4, <3>1, <4>2
      <4>3. CASE j < startAt
        <5>1. LastOf(j) < startAt
          BY <3>2, <3>6, <4>3
        <5>2. LastOf(j) \in j .. Length
          BY <1>2, LastIn
        <5> QED BY <1>3, <1>4, <3>1, <5>1, <5>2
      <4> QED BY <4>1, <4>2, <4>3
    <3>7. Behind'
      BY <1>1, <3>6 DEF Behind
    <3> QED BY <1>3, <3>1, <3>3, <3>5, <3>7
  <2> QED BY <2>1, <2>2
<1>13. {windows'[i].first : i \in DOMAIN windows'} = {i \in Firsts : i < startAt'}
  <2> DEFINE emitted == {windows[i].first : i \in DOMAIN windows}
             now == {windows'[i].first : i \in DOMAIN windows'}
  <2>1. emitted = {i \in Firsts : i < startAt}
    BY DEF WindowsInv, EmittedAreTheWindows
  <2>2. now = emitted \cup {startAt}
    <3>1. \A i \in DOMAIN windows' : i \in DOMAIN windows \/ i = Len(windows) + 1
      BY <1>8
    <3>2. now \subseteq emitted \cup {startAt}
      BY <1>6, <1>8, <3>1
    <3>3. startAt \in now
      <4>1. Len(windows) + 1 \in DOMAIN windows'
        BY <1>8
      <4>2. windows'[Len(windows) + 1].first = startAt
        BY <1>6, <1>8
      <4> QED BY <4>1, <4>2
    <3>4. \A i \in DOMAIN windows : i \in DOMAIN windows'
      BY <1>8
    <3>5. emitted \subseteq now
      BY <1>8, <3>4
    <3> HIDE DEF emitted, now
    <3> QED BY <3>2, <3>3, <3>5
  <2>3. \A i : i \in {n \in Firsts : n < startAt'} <=> i \in emitted \cup {startAt}
    <3> HIDE DEF emitted
    <3> QED BY <1>12, <2>1
  <2> HIDE DEF emitted, now
  <2>4. now = {i \in Firsts : i < startAt'}
    BY <2>2, <2>3
  <2> QED BY <2>4 DEF now
<1>14. ASSUME NEW i \in DOMAIN windows', NEW j \in DOMAIN windows', i < j
       PROVE  windows'[i].first < windows'[j].first
  <2>1. i \in DOMAIN windows
    BY <1>8, <1>14
  <2>2. CASE j \in DOMAIN windows
    <3>1. windows[i].first < windows[j].first
      BY <1>14, <2>1, <2>2 DEF WindowsInv, EmittedAreTheWindows
    <3> QED BY <1>8, <2>1, <2>2, <3>1
  <2>3. CASE j = Len(windows) + 1
    <3>1. windows[i].first < startAt
      BY <2>1 DEF WindowsInv, EmittedAreTheWindows
    <3> QED BY <1>6, <1>8, <2>1, <2>3, <3>1
  <2>4. j \in DOMAIN windows \/ j = Len(windows) + 1
    BY <1>8
  <2> QED BY <2>2, <2>3, <2>4
<1>15. ASSUME NEW i \in DOMAIN windows'
       PROVE  /\ windows'[i].last = LastOf(windows'[i].first)
              /\ windows'[i].closed = (Closes(windows'[i].first) # {})
  <2>1. CASE i \in DOMAIN windows
    <3>1. /\ windows[i].last = LastOf(windows[i].first)
          /\ windows[i].closed = (Closes(windows[i].first) # {})
      BY <2>1 DEF WindowsInv, EmittedAreTheWindows
    <3>2. windows'[i] = windows[i]
      BY <1>8, <2>1
    <3> QED BY <3>1, <3>2, Zenon
  <2>2. CASE i = Len(windows) + 1
    <3>1. windows'[i] = w
      BY <1>8, <2>2
    <3>2. w.first = startAt /\ w.last = LastOf(startAt)
      BY <1>6
    <3>3. w.closed = (Closes(startAt) # {})
      BY <1>6, Zenon
    <3> QED BY <3>1, <3>2, <3>3, Zenon
  <2>3. i \in DOMAIN windows \/ i = Len(windows) + 1
    BY <1>8
  <2> QED BY <2>1, <2>2, <2>3
<1>16. EmittedAreTheWindows'
  <2>1. (\A i \in DOMAIN windows :
            /\ windows[i].last = LastOf(windows[i].first)
            /\ windows[i].closed = (Closes(windows[i].first) # {}))'
    <3>1. (\A i \in DOMAIN windows : windows[i].last = LastOf(windows[i].first))'
      BY <1>15 DEF LastOf, Closes, Length, Least
    <3>2. (\A i \in DOMAIN windows : windows[i].closed <=> Closes(windows[i].first) # {})'
      BY <1>15 DEF Closes, Length
    <3>3. (\A i \in DOMAIN windows : windows[i].closed \in BOOLEAN)'
      <4>1. \A i \in DOMAIN windows' : windows'[i] \in [first : Nat, last : Nat, closed : BOOLEAN]
        <5> DEFINE W == [first : Nat, last : Nat, closed : BOOLEAN]
        <5>1. windows' \in Seq(W)
          BY <1>8
        <5> HIDE DEF W
        <5>2. \A i \in DOMAIN windows' : windows'[i] \in W
          BY <5>1
        <5> QED BY <5>2 DEF W
      <4>2. \A x \in [first : Nat, last : Nat, closed : BOOLEAN] : x.closed \in BOOLEAN
        OBVIOUS
      <4> QED BY <4>1, <4>2, Zenon
    <3>4. (\A i \in DOMAIN windows : windows[i].closed = (Closes(windows[i].first) # {}))'
      BY <3>2, <3>3
    <3> QED BY <3>1, <3>4, Zenon
  <2>2. ({windows[i].first : i \in DOMAIN windows} = {i \in Firsts : i < startAt})'
    BY <1>1, <1>13
  <2>3. (\A i, j \in DOMAIN windows : i < j => windows[i].first < windows[j].first)'
    BY <1>14
  <2> QED BY <2>1, <2>2, <2>3, Zenon DEF EmittedAreTheWindows
<1> QED BY <1>10, <1>11, <1>12, <1>16 DEF WindowsInv

\* A start is tried: it is none, or its end is searched for.
LEMMA TryStartStep ==
    ASSUME WindowsInv, TryStart PROVE WindowsInv'
<1>1. clause \in Clauses /\ WindowTypes /\ UNCHANGED <<clause, windows>>
  BY DEF WindowsInv, WindowTypes, TryStart
<1>2. /\ Length \in Nat /\ Wanted \subseteq clause.starts
      /\ startAt \in 1 .. Length
  BY <1>1, FirstsIn DEF WindowTypes, TryStart
<1>3. CASE startAt \notin clause.starts
  <2>1. startAt' = startAt + 1 /\ endAt' = 0
    BY <1>3 DEF TryStart
  <2> QED BY <1>1, <1>2, <1>3, <2>1, Passed
<1>4. CASE startAt \in clause.starts
  <2>1. endAt' = (IF clause.hasEnd THEN startAt ELSE startAt + 1) /\ startAt' = startAt
    BY <1>4 DEF TryStart
  <2>2. /\ Length' = Length /\ Free' = Free /\ Firsts' = Firsts
        /\ \A i : Closes(i)' = Closes(i) /\ LastOf(i)' = LastOf(i)
    BY <1>1, ClauseKept
  <2>3. WindowTypes'
    BY <1>1, <1>2, <2>1, <2>2 DEF WindowTypes
  <2>4. \A j \in Closes(startAt) : j \in startAt .. Length
    BY <1>1, <1>2, ClosesIn
  <2>5. \A j \in Closes(startAt) : endAt' <= IF clause.hasEnd THEN j ELSE j + 1
    BY <1>2, <2>1, <2>4
  <2>6. Closes(startAt)' = Closes(startAt)
    BY <1>1, <2>1 DEF Closes, Length
  <2>7. endAt' >= IF clause.hasEnd THEN startAt ELSE startAt + 1
    BY <1>2, <2>1
  <2>8. Searching'
    BY <1>1, <1>4, <2>1, <2>5, <2>6, <2>7 DEF Searching
  <2>9. Behind' /\ EmittedAreTheWindows'
    BY <1>1, <2>1, <2>2 DEF WindowsInv, Behind, EmittedAreTheWindows
  <2> QED BY <2>3, <2>8, <2>9 DEF WindowsInv
<1> QED BY <1>3, <1>4

\* The next item is tried as the end: none of those before it was one.
LEMMA EndNotYet ==
    ASSUME WindowsInv, endAt \in 1 .. Length, UNCHANGED <<clause, windows, startAt>>,
           endAt' = endAt + 1,
           \A j \in Closes(startAt) : endAt # IF clause.hasEnd THEN j ELSE j + 1
    PROVE  WindowsInv'
<1>1. clause \in Clauses /\ WindowTypes /\ Searching /\ startAt \in clause.starts
  BY DEF WindowsInv, WindowTypes, Searching
<1>2. Length \in Nat /\ startAt \in 1 .. Length
  BY <1>1, FirstsIn
<1>3. /\ Length' = Length /\ Free' = Free /\ Firsts' = Firsts
      /\ \A i : Closes(i)' = Closes(i) /\ LastOf(i)' = LastOf(i)
  BY ClauseKept
<1>4. WindowTypes'
  BY <1>1, <1>2, <1>3 DEF WindowTypes
<1>5. \A j \in Closes(startAt) : j \in startAt .. Length
  BY <1>1, <1>2, ClosesIn
<1>6. \A j \in Closes(startAt) : endAt <= IF clause.hasEnd THEN j ELSE j + 1
  BY <1>1 DEF Searching
<1>7. \A j \in Closes(startAt) : endAt + 1 <= IF clause.hasEnd THEN j ELSE j + 1
  BY <1>2, <1>5, <1>6
<1>8. Closes(startAt)' = Closes(startAt)
  BY DEF Closes, Length
<1>9. endAt + 1 >= IF clause.hasEnd THEN startAt ELSE startAt + 1
  BY <1>1, <1>2 DEF Searching
<1>10. Searching'
  BY <1>1, <1>7, <1>8, <1>9 DEF Searching
<1>11. Behind' /\ EmittedAreTheWindows'
  BY <1>3 DEF WindowsInv, Behind, EmittedAreTheWindows
<1> QED BY <1>4, <1>10, <1>11 DEF WindowsInv

\* The item tried ends the window, as the first that does.
LEMMA TryEndStep ==
    ASSUME WindowsInv, TryEnd PROVE WindowsInv'
<1>1. /\ clause \in Clauses /\ WindowTypes /\ startAt \in clause.starts
      /\ endAt # 0 /\ endAt >= IF clause.hasEnd THEN startAt ELSE startAt + 1
      /\ \A j \in Closes(startAt) : endAt <= IF clause.hasEnd THEN j ELSE j + 1
  BY DEF WindowsInv, WindowTypes, Searching, TryEnd
<1>2. /\ Length \in Nat /\ startAt \in 1 .. Length /\ endAt \in 1 .. Length
      /\ UNCHANGED clause
  BY <1>1, FirstsIn DEF WindowTypes, TryEnd
<1>3. \A j \in Closes(startAt) : j \in startAt .. Length
  BY <1>1, <1>2, ClosesIn
<1>4. ASSUME NEW last \in Closes(startAt), Emit(last, TRUE),
             \A j \in Closes(startAt) : last <= j
      PROVE  WindowsInv'
  <2>1. last = LastOf(startAt)
    BY <1>1, <1>2, <1>4, LastIs
  <2>2. Closes(startAt) # {}
    BY <1>4
  <2>3. startAt \in Wanted
    BY <1>1, <2>2 DEF Wanted, Kept
  <2>4. TRUE = (Closes(startAt) # {})
    BY <2>2, Zenon
  <2> QED BY <1>2, <1>4, <2>1, <2>3, <2>4, Emitted
<1>5. CASE clause.hasEnd
  <2>1. CASE endAt \in clause.ends[startAt]
    <3>1. Emit(endAt, TRUE) /\ endAt \in Closes(startAt)
      BY <1>1, <1>5, <2>1 DEF TryEnd, Closes
    <3>2. \A j \in Closes(startAt) : endAt <= j
      BY <1>1, <1>5
    <3> QED BY <1>4, <3>1, <3>2
  <2>2. CASE endAt \notin clause.ends[startAt]
    <3>1. endAt' = endAt + 1 /\ UNCHANGED <<startAt, windows>>
      BY <1>5, <2>2 DEF TryEnd
    <3>2. \A j \in Closes(startAt) : endAt # IF clause.hasEnd THEN j ELSE j + 1
      BY <1>5, <2>2 DEF Closes
    <3> QED BY <1>2, <3>1, <3>2, EndNotYet
  <2> QED BY <2>1, <2>2
<1>6. CASE ~clause.hasEnd
  <2>1. CASE endAt \in clause.starts
    <3>1. Emit(endAt - 1, TRUE)
      BY <1>6, <2>1 DEF TryEnd
    <3>2. endAt - 1 \in startAt .. Length /\ (endAt - 1) + 1 = endAt
      BY <1>1, <1>2, <1>6
    <3>3. endAt - 1 \in Closes(startAt)
      BY <1>6, <2>1, <3>2 DEF Closes
    <3>4. \A j \in Closes(startAt) : endAt - 1 <= j
      BY <1>1, <1>2, <1>3, <1>6
    <3> QED BY <1>4, <3>1, <3>3, <3>4
  <2>2. CASE endAt \notin clause.starts
    <3>1. endAt' = endAt + 1 /\ UNCHANGED <<startAt, windows>>
      BY <1>6, <2>2 DEF TryEnd
    <3>2. \A j \in Closes(startAt) : endAt # IF clause.hasEnd THEN j ELSE j + 1
      BY <1>6, <2>2 DEF Closes
    <3> QED BY <1>2, <3>1, <3>2, EndNotYet
  <2> QED BY <2>1, <2>2
<1> QED BY <1>5, <1>6

\* The sequence ends in a window.
LEMMA UnclosedStep ==
    ASSUME WindowsInv, Unclosed PROVE WindowsInv'
<1>1. clause \in Clauses /\ WindowTypes
  BY DEF WindowsInv, WindowTypes
<1>2. /\ Length \in Nat /\ clause.starts \subseteq 1 .. Length
      /\ endAt = Length + 1 /\ UNCHANGED clause
  BY <1>1, FirstsIn DEF WindowTypes, Unclosed
<1>3. /\ startAt \in clause.starts
      /\ \A j \in Closes(startAt) : endAt <= IF clause.hasEnd THEN j ELSE j + 1
  BY <1>2 DEF WindowsInv, Searching
<1>4. startAt \in 1 .. Length
  BY <1>2, <1>3
<1>5. Closes(startAt) = {}
  <2>1. SUFFICES ASSUME NEW j \in Closes(startAt) PROVE FALSE
    OBVIOUS
  <2>2. j \in startAt .. Length
    BY <1>1, <1>4, ClosesIn
  <2>3. ~clause.hasEnd /\ j = Length
    BY <1>2, <1>3, <1>4, <2>2
  <2>4. j + 1 \in clause.starts
    BY <2>3 DEF Closes
  <2> QED BY <1>2, <2>3, <2>4
<1>6. CASE clause.only
  <2>1. startAt \notin Wanted
    BY <1>5, <1>6 DEF Wanted, Kept
  <2>2. startAt' = startAt + 1 /\ endAt' = 0 /\ UNCHANGED <<windows, clause>>
    BY <1>6 DEF Unclosed
  <2> QED BY <1>4, <2>1, <2>2, Passed
<1>7. CASE ~clause.only
  <2>1. startAt \in Wanted
    BY <1>3, <1>7 DEF Wanted, Kept
  <2>2. Length = LastOf(startAt)
    BY <1>5 DEF LastOf
  <2>3. FALSE = (Closes(startAt) # {})
    BY <1>5, Zenon
  <2>4. Emit(Length, FALSE)
    BY <1>7 DEF Unclosed
  <2> QED BY <1>2, <2>1, <2>2, <2>3, <2>4, Emitted
<1> QED BY <1>6, <1>7

LEMMA WindowsInvStep ==
    ASSUME WindowsInv, [WindowsNext]_windowVars PROVE WindowsInv'
<1>1. CASE UNCHANGED windowVars
  <2>1. /\ UNCHANGED <<clause, startAt, endAt, windows>>
        /\ Length' = Length /\ Free' = Free /\ Firsts' = Firsts
        /\ \A i : Closes(i)' = Closes(i) /\ LastOf(i)' = LastOf(i)
    BY <1>1, ClauseKept DEF windowVars
  <2>2. Closes(startAt)' = Closes(startAt)
    BY <2>1 DEF Closes, Length
  <2> QED BY <2>1, <2>2 DEF WindowsInv, WindowTypes, Searching, Behind, EmittedAreTheWindows
<1> QED BY <1>1, TryStartStep, TryEndStep, UnclosedStep DEF WindowsNext

\* The invariant of the two searches of windowClause.windows.
THEOREM WindowsInvariant == WindowsSpec => []WindowsInv
BY WindowsInvInit, WindowsInvStep, PTL DEF WindowsSpec

\* For every clause, the windows emitted are those its conditions describe up to
\* the item reached, in order, each ended by the first item that closes it
\* (windowClause.windows and findEnd).
THEOREM WindowsHolds == WindowsSpec => []EmittedAreTheWindows
<1>1. WindowsInv => EmittedAreTheWindows
  BY DEF WindowsInv
<1> QED BY <1>1, WindowsInvariant, PTL

-----------------------------------------------------------------------------
(* XInclude: the calls under way and the stack of resources. *)

\* StackIsNesting, of the calls fs under way and the stack st of resources.
CalledFor(fs) == {i \in 2 .. Len(fs) : fs[i].kind = "document"}
Above(fs, i) == {j \in CalledFor(fs) : j > i}
Depth(fs, st, i) == Len(st) - Cardinality(Above(fs, i))
Nested(fs, st) ==
    /\ Len(st) - Cardinality(CalledFor(fs)) \in {0, 1}
    /\ \A i \in CalledFor(fs) : st[Depth(fs, st, i)] = fs[i].item.href
    /\ \A i, j \in DOMAIN st : st[i] = st[j] => i = j

\* Calls are a sequence that starts with the including document.
IsCall(f) == {"kind", "item", "depth", "serial"} \subseteq DOMAIN f
AreCalls(fs) ==
    /\ \E S : fs \in Seq(S)
    /\ Len(fs) >= 1 /\ fs[1].kind = "document"
    /\ \A i \in 1 .. Len(fs) : IsCall(fs[i])
IsStack(st) == \E S : st \in Seq(S)

\* How deep a call is counts the documents and the fallbacks it is nested in, so
\* that the documents up to it are no more.
UpTo(fs, i) == {j \in CalledFor(fs) : j <= i}
Shallow(fs, top) ==
    /\ \A i \in 1 .. Len(fs) :
          /\ fs[i].kind \in {"document", "element", "fallback"}
          /\ fs[i].depth \in 0 .. MaxIncludeDepth /\ fs[i].serial \in 0 .. top
          /\ Cardinality(UpTo(fs, i)) <= fs[i].depth
    /\ \A i \in 2 .. Len(fs) : fs[i].kind = "document" => fs[i - 1].depth < fs[i].depth

\* Everything of InclusionTypeOK that is not about the calls.
Limits ==
    /\ resources \in Worlds
    /\ fetches \in 0 .. MaxIncludeFetches
    /\ raised \in {"none", "plain", "loop", "limit"}
    /\ result \in {"working", "included", "plain", "loop", "limit"}

InclusionInv ==
    /\ AreCalls(frames) /\ IsStack(including) /\ Nested(frames, including)
    /\ Shallow(frames, fetches) /\ Limits

-----------------------------------------------------------------------------
(* The stack of resources as calls begin and end. *)

\* The documents around the including one are finitely many, and above one of
\* them there are fewer than there are.
LEMMA CalledForFinite ==
    ASSUME NEW fs, AreCalls(fs)
    PROVE  /\ IsFiniteSet(CalledFor(fs))
           /\ Cardinality(CalledFor(fs)) \in Nat
           /\ Len(fs) \in Nat
           /\ \A i \in CalledFor(fs) : /\ i \in 2 .. Len(fs)
                                       /\ IsFiniteSet(Above(fs, i))
                                       /\ Cardinality(Above(fs, i)) \in Nat
                                       /\ Cardinality(Above(fs, i)) < Cardinality(CalledFor(fs))
<1>1. Len(fs) \in Nat
  BY DEF AreCalls
<1>2. IsFiniteSet(2 .. Len(fs)) BY <1>1, FS_Interval
<1>3. CalledFor(fs) \subseteq 2 .. Len(fs) BY DEF CalledFor
<1>4. IsFiniteSet(CalledFor(fs)) BY <1>2, <1>3, FS_Subset
<1>5. Cardinality(CalledFor(fs)) \in Nat BY <1>4, FS_CardinalityType
<1>6. ASSUME NEW i \in CalledFor(fs)
      PROVE  /\ i \in 2 .. Len(fs)
             /\ IsFiniteSet(Above(fs, i))
             /\ Cardinality(Above(fs, i)) \in Nat
             /\ Cardinality(Above(fs, i)) < Cardinality(CalledFor(fs))
  <2>1. i \in 2 .. Len(fs) BY <1>3
  <2>2. i \notin Above(fs, i)
    <3>1. ~(i > i) BY <2>1
    <3> QED BY <3>1 DEF Above
  <2>3. Above(fs, i) \subseteq CalledFor(fs) BY DEF Above
  <2>4. Above(fs, i) # CalledFor(fs) BY <2>2
  <2>5. IsFiniteSet(Above(fs, i)) BY <2>3, <1>4, FS_Subset
  <2>6. Cardinality(Above(fs, i)) \in Nat BY <2>5, FS_CardinalityType
  <2>7. Cardinality(Above(fs, i)) < Cardinality(CalledFor(fs))
    BY <2>3, <2>4, <1>4, <1>5, <2>6, FS_Subset
  <2> QED BY <2>1, <2>5, <2>6, <2>7
<1> QED BY <1>1, <1>4, <1>5, <1>6

\* What is up to a call is finite, and one more than up to the call around it or as
\* much.
LEMMA UpToFinite ==
    ASSUME NEW fs, AreCalls(fs), NEW i
    PROVE  IsFiniteSet(UpTo(fs, i)) /\ Cardinality(UpTo(fs, i)) \in Nat
<1>1. UpTo(fs, i) \subseteq CalledFor(fs) BY DEF UpTo
<1>2. IsFiniteSet(UpTo(fs, i)) BY <1>1, CalledForFinite, FS_Subset
<1> QED BY <1>2, FS_CardinalityType

\* Calls that are of the same kinds and for the same items are nested alike.
LEMMA AlikeNested ==
    ASSUME NEW fs, NEW gs, NEW st, AreCalls(fs), Nested(fs, st),
           \E S : gs \in Seq(S), Len(gs) = Len(fs),
           \A i \in 1 .. Len(fs) : /\ IsCall(gs[i])
                                   /\ gs[i].kind = fs[i].kind
                                   /\ gs[i].item = fs[i].item
    PROVE  AreCalls(gs) /\ Nested(gs, st)
<1>1. Len(fs) \in Nat BY CalledForFinite
<1>2. 1 \in 1 .. Len(fs) BY <1>1 DEF AreCalls
<1>3. AreCalls(gs)
  BY <1>2 DEF AreCalls
<1>4. \A i \in 2 .. Len(fs) : i \in 1 .. Len(fs) BY <1>1
<1>5. CalledFor(gs) = CalledFor(fs)
  BY <1>4 DEF CalledFor
<1>6. \A i : Above(gs, i) = Above(fs, i) BY <1>5 DEF Above
<1>7. \A i \in CalledFor(fs) : fs[i].item = gs[i].item
  BY <1>4 DEF CalledFor
<1>8. Nested(gs, st)
  BY <1>5, <1>6, <1>7 DEF Nested, Depth
<1> QED BY <1>3, <1>8

\* A call that goes on with its items, or that has written some, is the call it was.
LEMMA GoesOn ==
    ASSUME NEW fs, NEW st, NEW v, AreCalls(fs), Nested(fs, st)
    PROVE  /\ LET gs == [fs EXCEPT ![Len(fs)].todo = v] IN AreCalls(gs) /\ Nested(gs, st)
           /\ LET gs == [fs EXCEPT ![Len(fs)].out = v] IN AreCalls(gs) /\ Nested(gs, st)
<1> DEFINE n == Len(fs)
           T == [fs[n] EXCEPT !.todo = v]
           O == [fs[n] EXCEPT !.out = v]
<1>1. n \in Nat /\ n \in 1 .. n
  BY CalledForFinite DEF AreCalls
<1>2. PICK S : fs \in Seq(S) BY DEF AreCalls
<1>3. IsCall(fs[n]) BY <1>1 DEF AreCalls
<1>4. IsCall(T) /\ T.kind = fs[n].kind /\ T.item = fs[n].item
  BY <1>3 DEF IsCall
<1>5. IsCall(O) /\ O.kind = fs[n].kind /\ O.item = fs[n].item
  BY <1>3 DEF IsCall
<1>6. ASSUME NEW f, IsCall(f), f.kind = fs[n].kind, f.item = fs[n].item
      PROVE  LET gs == [fs EXCEPT ![n] = f] IN AreCalls(gs) /\ Nested(gs, st)
  <2> DEFINE gs == [fs EXCEPT ![n] = f]
  <2>1. gs \in Seq(S \cup {f}) /\ Len(gs) = n
    <3>1. fs \in [1 .. n -> S] BY <1>2
    <3>2. gs \in [1 .. n -> S \cup {f}] BY <3>1
    <3> HIDE DEF gs, n
    <3>3. gs \in Seq(S \cup {f}) BY <3>2, <1>1
    <3>4. DOMAIN gs = 1 .. n BY <3>2
    <3>5. Len(gs) = n BY <3>3, <3>4, <1>1
    <3> QED BY <3>3, <3>5
  <2>2. ASSUME NEW i \in 1 .. n
        PROVE  IsCall(gs[i]) /\ gs[i].kind = fs[i].kind /\ gs[i].item = fs[i].item
    <3>1. DOMAIN fs = 1 .. n BY <1>2
    <3>2. gs[i] = IF i = n THEN f ELSE fs[i] BY <3>1
    <3>3. CASE i = n BY <3>2, <3>3, <1>6
    <3>4. CASE i # n
      <4>1. gs[i] = fs[i] BY <3>2, <3>4
      <4>2. IsCall(fs[i]) BY DEF AreCalls
      <4> QED BY <4>1, <4>2
    <3> QED BY <3>3, <3>4
  <2>3. \E R : gs \in Seq(R) BY <2>1
  <2> HIDE DEF gs
  <2> QED BY <2>1, <2>2, <2>3, AlikeNested DEF gs
<1>7. [fs EXCEPT ![Len(fs)].todo = v] = [fs EXCEPT ![n] = T] OBVIOUS
<1>8. [fs EXCEPT ![Len(fs)].out = v] = [fs EXCEPT ![n] = O] OBVIOUS
<1> HIDE DEF T, O
<1> QED BY <1>4, <1>5, <1>6, <1>7, <1>8

\* The call for an element or a fallback begins: no resource is entered.
LEMMA BeginsInside ==
    ASSUME NEW fs, NEW st, NEW f, AreCalls(fs), Nested(fs, st),
           IsCall(f), f.kind # "document"
    PROVE  AreCalls(Append(fs, f)) /\ Nested(Append(fs, f), st)
<1> DEFINE n == Len(fs)
           gs == Append(fs, f)
<1>1. n \in Nat /\ n >= 1 BY CalledForFinite DEF AreCalls
<1>2. PICK S : fs \in Seq(S) BY DEF AreCalls
<1>3. /\ gs \in Seq(S \cup {f}) /\ Len(gs) = n + 1 /\ gs[n + 1] = f
      /\ \A i \in 1 .. n : gs[i] = fs[i]
  BY <1>2, <1>1
<1> HIDE DEF gs, n
<1>4. \A i \in 1 .. n + 1 : i \in 1 .. n \/ i = n + 1 BY <1>1
<1>5. AreCalls(gs)
  <2>1. \A i \in 1 .. n : IsCall(fs[i]) BY DEF AreCalls, n
  <2>2. \A i \in 1 .. n + 1 : IsCall(gs[i]) BY <1>3, <1>4, <2>1
  <2>3. gs[1] = fs[1] /\ n + 1 >= 1 BY <1>3, <1>1
  <2>4. \E R : gs \in Seq(R) BY <1>3
  <2> QED BY <2>2, <2>3, <2>4, <1>3 DEF AreCalls
<1>6. CalledFor(gs) = CalledFor(fs)
  <2>1. \A i \in 2 .. n + 1 : i \in 2 .. n \/ i = n + 1 BY <1>1
  <2>2. \A i \in 2 .. n : i \in 2 .. n + 1 /\ i \in 1 .. n BY <1>1
  <2>3. \A i \in 2 .. n : gs[i] = fs[i] BY <2>2, <1>3
  <2> QED BY <2>1, <2>2, <2>3, <1>3 DEF CalledFor, n
<1>7. \A i : Above(gs, i) = Above(fs, i) BY <1>6 DEF Above
<1>8. \A i \in CalledFor(fs) : gs[i] = fs[i]
  <2>1. \A i \in 2 .. n : i \in 1 .. n BY <1>1
  <2> QED BY <2>1, <1>3 DEF CalledFor, n
<1>9. Nested(gs, st) BY <1>6, <1>7, <1>8 DEF Nested, Depth
<1> QED BY <1>5, <1>9 DEF gs

\* The call for a document begins: its resource is entered, once.
LEMMA BeginsDocument ==
    ASSUME NEW fs, NEW st, NEW f, AreCalls(fs), IsStack(st), Nested(fs, st),
           IsCall(f), f.kind = "document",
           \A i \in DOMAIN st : st[i] # f.item.href
    PROVE  LET gs == Append(fs, f)
               tt == Append(st, f.item.href)
           IN  AreCalls(gs) /\ IsStack(tt) /\ Nested(gs, tt)
<1> DEFINE n == Len(fs)
           m == Len(st)
           u == f.item.href
           gs == Append(fs, f)
           tt == Append(st, u)
<1>1. n \in Nat /\ n >= 1 BY CalledForFinite DEF AreCalls
<1>2. PICK S : fs \in Seq(S) BY DEF AreCalls
<1>3. /\ gs \in Seq(S \cup {f}) /\ Len(gs) = n + 1 /\ gs[n + 1] = f
      /\ \A i \in 1 .. n : gs[i] = fs[i]
  BY <1>2, <1>1
<1>4. PICK R : st \in Seq(R) BY DEF IsStack
<1>5. /\ m \in Nat /\ tt \in Seq(R \cup {u}) /\ Len(tt) = m + 1 /\ tt[m + 1] = u
      /\ \A i \in 1 .. m : tt[i] = st[i]
      /\ DOMAIN st = 1 .. m /\ DOMAIN tt = 1 .. m + 1
  BY <1>4
<1>6. \A i \in 1 .. m : st[i] # u BY <1>5
<1> HIDE DEF gs, n, tt, m, u
<1>7. AreCalls(gs)
  <2>1. \A i \in 1 .. n : IsCall(fs[i]) BY DEF AreCalls, n
  <2>2. \A i \in 1 .. n + 1 : i \in 1 .. n \/ i = n + 1 BY <1>1
  <2>3. \A i \in 1 .. n + 1 : IsCall(gs[i]) BY <1>3, <2>1, <2>2
  <2>4. gs[1] = fs[1] /\ n + 1 >= 1 BY <1>3, <1>1
  <2>5. \E T : gs \in Seq(T) BY <1>3
  <2> QED BY <2>3, <2>4, <2>5, <1>3 DEF AreCalls
<1>8. IsStack(tt) BY <1>5 DEF IsStack
<1>9. CalledFor(gs) = CalledFor(fs) \cup {n + 1} /\ n + 1 \notin CalledFor(fs)
  <2>1. \A i \in 2 .. n + 1 : i \in 2 .. n \/ i = n + 1 BY <1>1
  <2>2. n + 1 \in 2 .. n + 1 /\ n + 1 \notin 2 .. n BY <1>1
  <2>3. \A i \in 2 .. n : i \in 2 .. n + 1 /\ i \in 1 .. n BY <1>1
  <2>4. \A i \in 2 .. n : gs[i] = fs[i] BY <2>3, <1>3
  <2> QED BY <2>1, <2>2, <2>3, <2>4, <1>3 DEF CalledFor, n
<1>10. Cardinality(CalledFor(gs)) = Cardinality(CalledFor(fs)) + 1
  BY <1>9, CalledForFinite, FS_AddElement
<1>11. Cardinality(CalledFor(fs)) \in Nat BY CalledForFinite
<1>12. m - Cardinality(CalledFor(fs)) \in {0, 1} BY DEF Nested, m
<1>13. ASSUME NEW i \in CalledFor(fs)
       PROVE  tt[Depth(gs, tt, i)] = gs[i].item.href
  <2> DEFINE c == Cardinality(Above(fs, i))
  <2>1. i \in 2 .. n /\ c \in Nat /\ c < Cardinality(CalledFor(fs))
        /\ IsFiniteSet(Above(fs, i))
    BY CalledForFinite DEF n
  <2>2. Above(gs, i) = Above(fs, i) \cup {n + 1} /\ n + 1 \notin Above(fs, i)
    <3>1. n + 1 > i BY <2>1, <1>1
    <3> QED BY <3>1, <1>9 DEF Above
  <2>3. Cardinality(Above(gs, i)) = c + 1 BY <2>1, <2>2, FS_AddElement
  <2>4. Depth(fs, st, i) = m - c BY DEF Depth, m
  <2>5. st[m - c] = fs[i].item.href BY <2>4 DEF Nested
  <2> HIDE DEF c
  <2>6. Depth(gs, tt, i) = m + 1 - (c + 1)
    <3>1. /\ Len(tt) = m + 1 /\ Cardinality(Above(gs, i)) = c + 1
          /\ m \in Nat /\ c \in Nat
      BY <2>1, <2>3, <1>5
    <3> QED BY <3>1 DEF Depth
  <2>7. m + 1 - (c + 1) = m - c /\ m - c \in 1 .. m BY <2>1, <1>5, <1>11, <1>12
  <2>8. i \in 1 .. n BY <2>1
  <2>9. tt[m - c] = st[m - c] BY <2>7, <1>5
  <2> QED BY <2>5, <2>6, <2>7, <2>8, <2>9, <1>3
<1>14. tt[Depth(gs, tt, n + 1)] = gs[n + 1].item.href
  <2>1. Above(gs, n + 1) = {}
    <3>1. \A i \in CalledFor(fs) : i \in 2 .. n BY CalledForFinite DEF n
    <3>2. \A i \in 2 .. n : ~(i > n + 1) BY <1>1
    <3>3. ~(n + 1 > n + 1) BY <1>1
    <3> QED BY <3>1, <3>2, <3>3, <1>9 DEF Above
  <2>2. Cardinality(Above(gs, n + 1)) = 0 BY <2>1, FS_EmptySet
  <2>3. Depth(gs, tt, n + 1) = m + 1 BY <2>2, <1>5 DEF Depth
  <2> QED BY <2>3, <1>3, <1>5 DEF u
<1>15. \A i, j \in DOMAIN tt : tt[i] = tt[j] => i = j
  <2>1. \A i \in 1 .. m + 1 : i \in 1 .. m \/ i = m + 1 BY <1>5
  <2>2. \A i, j \in 1 .. m : st[i] = st[j] => i = j BY <1>5 DEF Nested
  <2> QED BY <2>1, <2>2, <1>5, <1>6
<1>16. Len(tt) - Cardinality(CalledFor(gs)) \in {0, 1} BY <1>5, <1>10, <1>11, <1>12
<1>17. \A i \in CalledFor(gs) : tt[Depth(gs, tt, i)] = gs[i].item.href
  BY <1>9, <1>13, <1>14
<1>18. Nested(gs, tt) BY <1>15, <1>16, <1>17 DEF Nested
<1> QED BY <1>7, <1>8, <1>18 DEF gs, tt, u

\* A call that is inside another one ends: what is left are calls, and if it was
\* not for a document no resource is left.
LEMMA Ends ==
    ASSUME NEW fs, AreCalls(fs), Len(fs) # 1
    PROVE  LET n  == Len(fs)
               gs == SubSeq(fs, 1, n - 1)
           IN  /\ AreCalls(gs) /\ n \in Nat /\ n >= 2 /\ Len(gs) = n - 1
               /\ \A i \in 1 .. n - 1 : gs[i] = fs[i]
               /\ CalledFor(gs) = CalledFor(fs) \ {n}
<1> DEFINE n == Len(fs)
           gs == SubSeq(fs, 1, n - 1)
<1>1. n \in Nat /\ n >= 1 BY CalledForFinite DEF AreCalls
<1>2. n >= 2 /\ n - 1 \in Nat BY <1>1
<1>3. PICK S : fs \in Seq(S) BY DEF AreCalls
<1>4. gs \in Seq(S) /\ Len(gs) = n - 1 /\ \A i \in 1 .. n - 1 : gs[i] = fs[i]
  BY <1>2, <1>3
<1> HIDE DEF gs, n
<1>5. AreCalls(gs)
  <2>1. \A i \in 1 .. n : IsCall(fs[i]) BY DEF AreCalls, n
  <2>2. \A i \in 1 .. n - 1 : i \in 1 .. n BY <1>1
  <2>3. 1 \in 1 .. n - 1 /\ n - 1 >= 1 BY <1>1, <1>2
  <2>4. fs[1].kind = "document" BY DEF AreCalls
  <2> QED BY <2>1, <2>2, <2>3, <2>4, <1>4 DEF AreCalls
<1>6. CalledFor(gs) = CalledFor(fs) \ {n}
  <2>1. \A i : i \in 2 .. n - 1 <=> i \in 2 .. n /\ i # n BY <1>1
  <2>2. \A i \in 2 .. n - 1 : i \in 1 .. n - 1 BY <1>2
  <2> QED BY <2>1, <2>2, <1>4 DEF CalledFor, n
<1> QED BY <1>1, <1>2, <1>4, <1>5, <1>6 DEF gs, n

LEMMA EndsInside ==
    ASSUME NEW fs, NEW st, AreCalls(fs), Nested(fs, st), fs[Len(fs)].kind # "document"
    PROVE  LET gs == SubSeq(fs, 1, Len(fs) - 1)
           IN  AreCalls(gs) /\ Nested(gs, st)
<1> DEFINE n == Len(fs)
           gs == SubSeq(fs, 1, n - 1)
<1>1. n # 1 BY DEF AreCalls
<1>2. /\ AreCalls(gs) /\ n \in Nat /\ n >= 2 /\ Len(gs) = n - 1
      /\ \A i \in 1 .. n - 1 : gs[i] = fs[i]
      /\ CalledFor(gs) = CalledFor(fs) \ {n}
  BY <1>1, Ends
<1>3. n \notin CalledFor(fs) BY DEF CalledFor
<1> HIDE DEF gs, n
<1>4. CalledFor(gs) = CalledFor(fs) BY <1>2, <1>3
<1>5. \A i : Above(gs, i) = Above(fs, i) BY <1>4 DEF Above
<1>6. \A i \in CalledFor(gs) : i \in 1 .. n - 1
  <2>1. \A i \in CalledFor(gs) : i \in 2 .. n - 1 BY <1>2 DEF CalledFor
  <2> QED BY <2>1, <1>2
<1>7. \A i \in CalledFor(fs) : gs[i] = fs[i] BY <1>2, <1>4, <1>6
<1>8. Nested(gs, st) BY <1>4, <1>5, <1>7 DEF Nested, Depth
<1> QED BY <1>2, <1>8 DEF gs, n

\* The call for a document ends: its resource is left.
LEMMA EndsDocument ==
    ASSUME NEW fs, NEW st, AreCalls(fs), IsStack(st), Nested(fs, st),
           Len(fs) # 1, fs[Len(fs)].kind = "document"
    PROVE  LET gs == SubSeq(fs, 1, Len(fs) - 1)
               tt == SubSeq(st, 1, Len(st) - 1)
           IN  AreCalls(gs) /\ IsStack(tt) /\ Nested(gs, tt)
<1> DEFINE n == Len(fs)
           m == Len(st)
           gs == SubSeq(fs, 1, n - 1)
           tt == SubSeq(st, 1, m - 1)
<1>1. /\ AreCalls(gs) /\ n \in Nat /\ n >= 2 /\ Len(gs) = n - 1
      /\ \A i \in 1 .. n - 1 : gs[i] = fs[i]
      /\ CalledFor(gs) = CalledFor(fs) \ {n}
  BY Ends
<1>2. n \in CalledFor(fs)
  <2>1. n \in 2 .. n BY <1>1
  <2> QED BY <2>1 DEF CalledFor
<1>3. Cardinality(CalledFor(fs)) \in Nat /\ IsFiniteSet(CalledFor(fs)) BY CalledForFinite
<1>4. Cardinality(CalledFor(gs)) = Cardinality(CalledFor(fs)) - 1
  BY <1>1, <1>2, <1>3, FS_RemoveElement
<1>5. Cardinality(CalledFor(gs)) \in Nat BY <1>1, CalledForFinite
<1>6. m - Cardinality(CalledFor(fs)) \in {0, 1} BY DEF Nested
<1>7. PICK R : st \in Seq(R) BY DEF IsStack
<1>8. m \in Nat /\ DOMAIN st = 1 .. m BY <1>7
<1>9. m >= 1 BY <1>3, <1>4, <1>5, <1>6, <1>8
<1>10. /\ tt \in Seq(R) /\ Len(tt) = m - 1 /\ DOMAIN tt = 1 .. m - 1
       /\ \A i \in 1 .. m - 1 : tt[i] = st[i]
  BY <1>7, <1>8, <1>9
<1> HIDE DEF gs, n, tt, m
<1>11. IsStack(tt) BY <1>10 DEF IsStack
<1>12. Len(tt) - Cardinality(CalledFor(gs)) \in {0, 1} BY <1>3, <1>4, <1>6, <1>8, <1>10
<1>13. ASSUME NEW i \in CalledFor(gs)
       PROVE  tt[Depth(gs, tt, i)] = gs[i].item.href
  <2> DEFINE c == Cardinality(Above(gs, i))
  <2>1. i \in 2 .. n - 1 /\ c \in Nat /\ c < Cardinality(CalledFor(gs))
        /\ IsFiniteSet(Above(gs, i))
    BY <1>1, CalledForFinite
  <2>2. i \in CalledFor(fs) BY <1>1
  <2>3. Above(fs, i) = Above(gs, i) \cup {n} /\ n \notin Above(gs, i)
    <3>1. n > i BY <2>1, <1>1
    <3> QED BY <3>1, <1>1, <1>2 DEF Above
  <2>4. Cardinality(Above(fs, i)) = c + 1 BY <2>1, <2>3, FS_AddElement
  <2>5. Depth(fs, st, i) = m - (c + 1) BY <2>4 DEF Depth, m
  <2>6. st[m - (c + 1)] = fs[i].item.href BY <2>2, <2>5 DEF Nested
  <2>7. Depth(gs, tt, i) = m - 1 - c BY <1>10 DEF Depth
  <2> HIDE DEF c
  <2>8. m - 1 - c = m - (c + 1) /\ m - (c + 1) \in 1 .. m - 1
    BY <2>1, <1>4, <1>3, <1>5, <1>6, <1>8
  <2>9. i \in 1 .. n - 1 BY <2>1, <1>1
  <2>10. tt[m - (c + 1)] = st[m - (c + 1)] BY <2>8, <1>10
  <2> QED BY <2>6, <2>7, <2>8, <2>9, <2>10, <1>1
<1>14. \A i, j \in DOMAIN tt : tt[i] = tt[j] => i = j
  <2>1. \A i \in 1 .. m - 1 : i \in 1 .. m BY <1>8
  <2>2. \A i, j \in 1 .. m : st[i] = st[j] => i = j BY <1>8 DEF Nested
  <2> QED BY <2>1, <2>2, <1>10
<1>15. Nested(gs, tt) BY <1>12, <1>13, <1>14 DEF Nested
<1> QED BY <1>1, <1>11, <1>15 DEF gs, tt, n, m

-----------------------------------------------------------------------------
(* How deep calls are. *)

\* Calls alike are as deep, whatever was fetched meanwhile.
LEMMA AlikeShallow ==
    ASSUME NEW fs, NEW gs, NEW top \in Nat, AreCalls(fs), Shallow(fs, top),
           Len(gs) = Len(fs),
           \A i \in 1 .. Len(fs) : /\ gs[i].kind = fs[i].kind /\ gs[i].depth = fs[i].depth
                                   /\ gs[i].serial = fs[i].serial
    PROVE  Shallow(gs, top) /\ Shallow(gs, top + 1)
<1> DEFINE n == Len(fs)
<1>1. n \in Nat BY CalledForFinite
<1> HIDE DEF n
<1>2. \A i \in 2 .. n : i \in 1 .. n /\ i - 1 \in 1 .. n BY <1>1
<1>3. CalledFor(gs) = CalledFor(fs) BY <1>2 DEF CalledFor, n
<1>4. \A i : UpTo(gs, i) = UpTo(fs, i) BY <1>3 DEF UpTo
<1>5. 0 .. top \subseteq 0 .. top + 1 OBVIOUS
<1>6. ASSUME NEW i \in 1 .. n
      PROVE  /\ gs[i].kind \in {"document", "element", "fallback"}
             /\ gs[i].depth \in 0 .. MaxIncludeDepth /\ gs[i].serial \in 0 .. top
             /\ Cardinality(UpTo(gs, i)) <= gs[i].depth
  BY <1>4 DEF Shallow, n
<1>7. ASSUME NEW i \in 2 .. n, gs[i].kind = "document"
      PROVE  gs[i - 1].depth < gs[i].depth
  <2>1. i \in 1 .. n /\ i - 1 \in 1 .. n BY <1>2
  <2>2. fs[i].kind = "document" BY <1>7, <2>1 DEF n
  <2>3. fs[i - 1].depth < fs[i].depth BY <2>2 DEF Shallow, n
  <2> QED BY <2>1, <2>3 DEF n
<1> QED BY <1>5, <1>6, <1>7 DEF Shallow, n

LEMMA ShallowGoesOn ==
    ASSUME NEW fs, NEW top \in Nat, NEW v, AreCalls(fs), Shallow(fs, top)
    PROVE  /\ LET gs == [fs EXCEPT ![Len(fs)].todo = v] IN Shallow(gs, top) /\ Shallow(gs, top + 1)
           /\ LET gs == [fs EXCEPT ![Len(fs)].out = v] IN Shallow(gs, top) /\ Shallow(gs, top + 1)
<1> DEFINE n == Len(fs)
           T == [fs[n] EXCEPT !.todo = v]
           O == [fs[n] EXCEPT !.out = v]
<1>1. n \in Nat /\ n \in 1 .. n
  BY CalledForFinite DEF AreCalls
<1>2. PICK S : fs \in Seq(S) BY DEF AreCalls
<1>3. IsCall(fs[n]) BY <1>1 DEF AreCalls
<1>4. T.kind = fs[n].kind /\ T.depth = fs[n].depth /\ T.serial = fs[n].serial
  BY <1>3 DEF IsCall
<1>5. O.kind = fs[n].kind /\ O.depth = fs[n].depth /\ O.serial = fs[n].serial
  BY <1>3 DEF IsCall
<1>6. ASSUME NEW f, f.kind = fs[n].kind, f.depth = fs[n].depth, f.serial = fs[n].serial
      PROVE  LET gs == [fs EXCEPT ![n] = f] IN Shallow(gs, top) /\ Shallow(gs, top + 1)
  <2> DEFINE gs == [fs EXCEPT ![n] = f]
  <2>1. Len(gs) = n
    <3>1. fs \in [1 .. n -> S] BY <1>2
    <3>2. gs \in [1 .. n -> S \cup {f}] BY <3>1
    <3> HIDE DEF gs, n
    <3>3. gs \in Seq(S \cup {f}) BY <3>2, <1>1
    <3>4. DOMAIN gs = 1 .. n BY <3>2
    <3> QED BY <3>3, <3>4, <1>1
  <2>2. ASSUME NEW i \in 1 .. n
        PROVE  /\ gs[i].kind = fs[i].kind /\ gs[i].depth = fs[i].depth
               /\ gs[i].serial = fs[i].serial
    <3>1. DOMAIN fs = 1 .. n BY <1>2
    <3>2. gs[i] = IF i = n THEN f ELSE fs[i] BY <3>1
    <3> HIDE DEF gs
    <3> QED BY <3>2, <1>6
  <2> HIDE DEF gs
  <2> QED BY <2>1, <2>2, AlikeShallow DEF gs
<1>7. [fs EXCEPT ![Len(fs)].todo = v] = [fs EXCEPT ![n] = T] OBVIOUS
<1>8. [fs EXCEPT ![Len(fs)].out = v] = [fs EXCEPT ![n] = O] OBVIOUS
<1> HIDE DEF T, O
<1> QED BY <1>4, <1>5, <1>6, <1>7, <1>8

\* A call that begins is as deep as the one around it, or one deeper.
LEMMA BeginsShallow ==
    ASSUME NEW fs, NEW f, NEW top \in Nat, AreCalls(fs), Shallow(fs, top),
           f.kind \in {"document", "element", "fallback"}, f.serial \in 0 .. top,
           f.depth \in 0 .. MaxIncludeDepth,
           f.depth = fs[Len(fs)].depth + (IF f.kind = "element" THEN 0 ELSE 1)
    PROVE  Shallow(Append(fs, f), top)
<1> DEFINE n == Len(fs)
           gs == Append(fs, f)
           dp == fs[n].depth
<1>1. n \in Nat /\ n >= 1 BY CalledForFinite DEF AreCalls
<1>2. PICK S : fs \in Seq(S) BY DEF AreCalls
<1>3. /\ Len(gs) = n + 1 /\ gs[n + 1] = f
      /\ \A i \in 1 .. n : gs[i] = fs[i]
  BY <1>2, <1>1
<1>4. n \in 1 .. n /\ n + 1 - 1 = n BY <1>1
<1>5. dp \in 0 .. MaxIncludeDepth /\ Cardinality(UpTo(fs, n)) <= dp BY <1>4 DEF Shallow
<1>6. f.depth = dp + (IF f.kind = "element" THEN 0 ELSE 1) OBVIOUS
<1> HIDE DEF gs, n, dp
<1>7. \A i \in 1 .. n + 1 : i \in 1 .. n \/ i = n + 1 BY <1>1
<1>8. \A i \in 2 .. n + 1 : i \in 2 .. n \/ i = n + 1 BY <1>1
<1>9. \A i \in 2 .. n : i \in 1 .. n /\ i - 1 \in 1 .. n BY <1>1
<1>10. CalledFor(gs) \subseteq CalledFor(fs) \cup {n + 1} /\ CalledFor(fs) \subseteq 2 .. n
       /\ CalledFor(fs) \subseteq CalledFor(gs)
       /\ (f.kind # "document" => CalledFor(gs) = CalledFor(fs))
  <2>1. \A i \in 2 .. n : i \in 2 .. n + 1 BY <1>1
  <2>2. \A i \in 2 .. n : gs[i] = fs[i] BY <1>3, <1>9
  <2> QED BY <2>1, <2>2, <1>3, <1>8 DEF CalledFor, n
<1>11. \A i \in 1 .. n : ~(n + 1 <= i) BY <1>1
<1>12. \A i \in 1 .. n : UpTo(gs, i) = UpTo(fs, i) BY <1>10, <1>11 DEF UpTo
<1>13. UpTo(fs, n) = CalledFor(fs)
  <2>1. \A i \in 2 .. n : i <= n BY <1>1
  <2> QED BY <2>1, <1>10 DEF UpTo
<1>14. Cardinality(UpTo(gs, n + 1)) <= f.depth
  <2> DEFINE U == UpTo(gs, n + 1)
             C == CalledFor(fs)
  <2>1. Cardinality(C) \in Nat /\ IsFiniteSet(C) BY CalledForFinite
  <2>2. Cardinality(C) <= dp BY <1>5, <1>13
  <2>3. CASE f.kind = "document"
    <3>1. U \subseteq C \cup {n + 1} BY <1>10 DEF UpTo
    <3>2. IsFiniteSet(C \cup {n + 1}) /\ Cardinality(C \cup {n + 1}) \in {Cardinality(C), Cardinality(C) + 1}
      BY <2>1, FS_AddElement
    <3>3. Cardinality(U) <= Cardinality(C \cup {n + 1}) /\ IsFiniteSet(U)
      BY <3>1, <3>2, FS_Subset
    <3>4. Cardinality(U) \in Nat BY <3>3, FS_CardinalityType
    <3>5. f.depth = dp + 1 BY <2>3, <1>6
    <3> HIDE DEF U, C
    <3>6. Cardinality(U) <= Cardinality(C) + 1 BY <2>1, <3>2, <3>3, <3>4
    <3>7. Cardinality(U) <= f.depth BY <2>1, <2>2, <3>4, <3>5, <3>6, <1>5, InclusionAssumption
    <3> QED BY <3>7 DEF U
  <2>4. CASE f.kind # "document"
    <3>1. U \subseteq C BY <1>10, <2>4 DEF UpTo
    <3>2. Cardinality(U) <= Cardinality(C) /\ IsFiniteSet(U) BY <3>1, <2>1, FS_Subset
    <3>3. Cardinality(U) \in Nat BY <3>2, FS_CardinalityType
    <3>4. dp <= f.depth BY <1>5, <1>6, InclusionAssumption
    <3> HIDE DEF U, C
    <3>5. Cardinality(U) <= f.depth BY <2>1, <2>2, <3>2, <3>3, <3>4, <1>5, InclusionAssumption
    <3> QED BY <3>5 DEF U
  <2> QED BY <2>3, <2>4
<1>15. ASSUME NEW i \in 1 .. n + 1
       PROVE  /\ gs[i].kind \in {"document", "element", "fallback"}
              /\ gs[i].depth \in 0 .. MaxIncludeDepth /\ gs[i].serial \in 0 .. top
              /\ Cardinality(UpTo(gs, i)) <= gs[i].depth
  <2>1. CASE i = n + 1 BY <2>1, <1>3, <1>14
  <2>2. CASE i \in 1 .. n
    <3>1. gs[i] = fs[i] /\ UpTo(gs, i) = UpTo(fs, i) BY <2>2, <1>3, <1>12
    <3> QED BY <2>2, <3>1 DEF Shallow, n
  <2> QED BY <2>1, <2>2, <1>7
<1>16. ASSUME NEW i \in 2 .. n + 1, gs[i].kind = "document"
       PROVE  gs[i - 1].depth < gs[i].depth
  <2>1. CASE i = n + 1
    <3>1. gs[i - 1] = fs[n] /\ gs[i] = f BY <2>1, <1>3, <1>4
    <3>2. f.depth = dp + 1 BY <3>1, <1>16, <1>6
    <3>3. dp < f.depth BY <3>2, <1>5, InclusionAssumption
    <3> QED BY <3>1, <3>3 DEF dp
  <2>2. CASE i \in 2 .. n
    <3>1. gs[i] = fs[i] /\ gs[i - 1] = fs[i - 1] BY <2>2, <1>9, <1>3
    <3> QED BY <2>2, <3>1, <1>16 DEF Shallow, n
  <2> QED BY <2>1, <2>2, <1>8
<1> QED BY <1>3, <1>15, <1>16 DEF Shallow, gs

\* A call that ends leaves the one around it, which is less deep than a document.
LEMMA EndsShallow ==
    ASSUME NEW fs, NEW top \in Nat, AreCalls(fs), Shallow(fs, top), Len(fs) # 1
    PROVE  LET gs == SubSeq(fs, 1, Len(fs) - 1)
           IN  /\ Shallow(gs, top)
               /\ fs[Len(fs)].kind = "document" => gs[Len(gs)].depth < MaxIncludeDepth
<1> DEFINE n == Len(fs)
           gs == SubSeq(fs, 1, n - 1)
<1>1. /\ AreCalls(gs) /\ n \in Nat /\ n >= 2 /\ Len(gs) = n - 1
      /\ \A i \in 1 .. n - 1 : gs[i] = fs[i]
      /\ CalledFor(gs) = CalledFor(fs) \ {n}
  BY Ends
<1> HIDE DEF gs, n
<1>2. \A i \in 1 .. n - 1 : i \in 1 .. n /\ ~(n <= i) BY <1>1
<1>3. \A i \in 2 .. n - 1 : i \in 2 .. n /\ i \in 1 .. n - 1 /\ i - 1 \in 1 .. n - 1 BY <1>1
<1>4. \A i \in 1 .. n - 1 : UpTo(gs, i) = UpTo(fs, i) BY <1>1, <1>2 DEF UpTo
<1>5. ASSUME NEW i \in 1 .. n - 1
      PROVE  /\ gs[i].kind \in {"document", "element", "fallback"}
             /\ gs[i].depth \in 0 .. MaxIncludeDepth /\ gs[i].serial \in 0 .. top
             /\ Cardinality(UpTo(gs, i)) <= gs[i].depth
  <2>1. gs[i] = fs[i] /\ UpTo(gs, i) = UpTo(fs, i) /\ i \in 1 .. n BY <1>1, <1>2, <1>4
  <2> QED BY <2>1 DEF Shallow, n
<1>6. ASSUME NEW i \in 2 .. n - 1, gs[i].kind = "document"
      PROVE  gs[i - 1].depth < gs[i].depth
  <2>1. gs[i] = fs[i] /\ gs[i - 1] = fs[i - 1] /\ i \in 2 .. n BY <1>1, <1>3
  <2> QED BY <2>1, <1>6 DEF Shallow, n
<1>7. Shallow(gs, top) BY <1>1, <1>5, <1>6 DEF Shallow
<1>8. ASSUME fs[n].kind = "document" PROVE gs[n - 1].depth < MaxIncludeDepth
  <2>1. n \in 2 .. n /\ n \in 1 .. n /\ n - 1 \in 1 .. n - 1 /\ n - 1 \in 1 .. n BY <1>1
  <2>2. fs[n - 1].depth < fs[n].depth BY <2>1, <1>8 DEF Shallow, n
  <2>3. fs[n].depth \in 0 .. MaxIncludeDepth /\ fs[n - 1].depth \in 0 .. MaxIncludeDepth
    BY <2>1 DEF Shallow, n
  <2>4. gs[n - 1] = fs[n - 1] BY <1>1, <2>1
  <2>5. fs[n - 1].depth < MaxIncludeDepth BY <2>2, <2>3, InclusionAssumption
  <2> QED BY <2>4, <2>5
<1> QED BY <1>1, <1>7, <1>8 DEF gs, n

-----------------------------------------------------------------------------
(* The steps. *)

\* The calls under way, the stack of resources, and how much was fetched.
CallsKept(fs, st, top) == AreCalls(fs) /\ Nested(fs, st) /\ Shallow(fs, top)

LEMMA FramesAreCalls ==
    \A kind, item, todo, out, depth, serial :
        LET f == Frame(kind, item, todo, out, depth, serial)
        IN  IsCall(f) /\ f.kind = kind /\ f.item = item /\ f.depth = depth /\ f.serial = serial
BY DEF IsCall, Frame

LEMMA LastCall ==
    ASSUME NEW fs, NEW top \in Nat, AreCalls(fs), Shallow(fs, top)
    PROVE  /\ Len(fs) \in 1 .. Len(fs)
           /\ fs[Len(fs)].kind \in {"document", "element", "fallback"}
           /\ fs[Len(fs)].depth \in 0 .. MaxIncludeDepth
           /\ fs[Len(fs)].serial \in 0 .. top
<1>1. Len(fs) \in 1 .. Len(fs) BY CalledForFinite DEF AreCalls
<1> QED BY <1>1 DEF Shallow

\* An include that failed is recovered from by a call for its fallback, or not.
LEMMA FailsKeeps ==
    ASSUME NEW fs, NEW st, NEW top \in Nat, NEW error \in {"plain", "loop", "limit"}, NEW inc,
           CallsKept(fs, st, top), fs[Len(fs)].depth < MaxIncludeDepth,
           Fails(error, inc, fs)
    PROVE  CallsKept(frames', st, top) /\ raised' \in {"none", "plain", "loop", "limit"}
<1> DEFINE at == fs[Len(fs)]
           f == Frame("fallback", inc, inc.fallback, at.out, at.depth + 1, at.serial)
<1>1. /\ frames' = fs \/ frames' = Append(fs, f)
      /\ raised' \in {"none", error}
  BY DEF Fails
<1>2. IsCall(f) /\ f.kind = "fallback" /\ f.depth = at.depth + 1 /\ f.serial = at.serial
  BY FramesAreCalls
<1>3. at.depth \in 0 .. MaxIncludeDepth /\ at.serial \in 0 .. top /\ at.depth < MaxIncludeDepth
  BY LastCall DEF CallsKept
<1> HIDE DEF f, at
<1>4. at.depth + 1 \in 0 .. MaxIncludeDepth BY <1>3, InclusionAssumption
<1>5. AreCalls(Append(fs, f)) /\ Nested(Append(fs, f), st)
  BY <1>2, BeginsInside DEF CallsKept
<1>6. Shallow(Append(fs, f), top)
  BY <1>2, <1>3, <1>4, BeginsShallow DEF CallsKept, at
<1> QED BY <1>1, <1>5, <1>6 DEF CallsKept

\* The calls after the next item is read, and after something is written.
LEMMA ReadOrWritten ==
    ASSUME NEW fs, NEW st, NEW top \in Nat, NEW content, CallsKept(fs, st, top)
    PROVE  CallsKept(Emitting(fs, content), st, top)
BY GoesOn, ShallowGoesOn DEF Emitting, CallsKept

LEMMA ConsumedKeeps ==
    ASSUME InclusionInv
    PROVE  /\ CallsKept(Consumed, including, fetches) /\ CallsKept(Consumed, including, fetches + 1)
           /\ Len(Consumed) = Len(frames)
           /\ Consumed[Len(Consumed)].depth = Inner.depth
           /\ Consumed[Len(Consumed)].serial = Inner.serial
<1> DEFINE n == Len(frames)
           T == [frames[n] EXCEPT !.todo = Tail(@)]
<1>1. fetches \in Nat BY InclusionAssumption DEF InclusionInv, Limits
<1>2. CallsKept(Consumed, including, fetches) /\ CallsKept(Consumed, including, fetches + 1)
  BY <1>1, GoesOn, ShallowGoesOn DEF Consumed, InclusionInv, CallsKept
<1>3. n \in Nat /\ n \in 1 .. n BY CalledForFinite DEF AreCalls, InclusionInv
<1>4. PICK S : frames \in Seq(S) BY DEF AreCalls, InclusionInv
<1>5. IsCall(frames[n]) BY <1>3 DEF AreCalls, InclusionInv
<1>6. T.depth = frames[n].depth /\ T.serial = frames[n].serial
  BY <1>5 DEF IsCall
<1>7. Consumed = [frames EXCEPT ![n] = T] BY DEF Consumed
<1> HIDE DEF T, n
<1>8. frames \in [1 .. n -> S] BY <1>4 DEF n
<1>9. Consumed \in [1 .. n -> S \cup {T}] BY <1>7, <1>8
<1>10. Consumed \in Seq(S \cup {T}) BY <1>3, <1>9
<1>11. Len(Consumed) = n BY <1>3, <1>9, <1>10
<1>12. Consumed[n] = T BY <1>3, <1>7, <1>8
<1> QED BY <1>2, <1>6, <1>11, <1>12 DEF n, Inner

\* A step that has only read or written, or has failed.
CopiesOrFails(fs) ==
    \/ (\E content : frames' = Emitting(fs, content)) /\ raised' = raised
    \/ /\ fs[Len(fs)].depth < MaxIncludeDepth
       /\ \E error \in {"plain", "loop", "limit"} : \E inc : Fails(error, inc, fs)

LEMMA CopiesOrFailsKeeps ==
    ASSUME NEW fs, NEW st, NEW top \in Nat, CallsKept(fs, st, top), CopiesOrFails(fs),
           raised \in {"none", "plain", "loop", "limit"}
    PROVE  CallsKept(frames', st, top) /\ raised' \in {"none", "plain", "loop", "limit"}
BY FailsKeeps, ReadOrWritten DEF CopiesOrFails

LEMMA InclusionInitially == InclusionInit => InclusionInv
<1> SUFFICES ASSUME InclusionInit PROVE InclusionInv
  OBVIOUS
<1> DEFINE f == Frame("document", IncludeItem(NoHref, "xml", NoPointer, NoFallback),
                      resources[TopUri].content, <<>>, 0, 0)
<1>1. frames = <<f>> BY DEF InclusionInit
<1>2. IsCall(f) /\ f.kind = "document" /\ f.depth = 0 /\ f.serial = 0 BY FramesAreCalls
<1> HIDE DEF f
<1>3. frames \in Seq({f}) /\ Len(frames) = 1 /\ frames[1] = f BY <1>1
<1>4. \A i \in 1 .. 1 : i = 1 OBVIOUS
<1>5. AreCalls(frames) BY <1>2, <1>3, <1>4 DEF AreCalls
<1>6. including \in Seq({TopUri}) /\ Len(including) \in {0, 1}
      /\ \A i, j \in DOMAIN including : i = j
  <2>1. including = <<>> \/ including = <<TopUri>> BY DEF InclusionInit
  <2>2. CASE including = <<>> BY <2>2
  <2>3. CASE including = <<TopUri>>
    <3>1. including \in Seq({TopUri}) /\ Len(including) = 1 BY <2>3
    <3>2. DOMAIN including = 1 .. 1 BY <3>1
    <3> QED BY <3>1, <3>2
  <2> QED BY <2>1, <2>2, <2>3
<1>7. CalledFor(frames) = {} BY <1>3 DEF CalledFor
<1>8. Cardinality(CalledFor(frames)) = 0 BY <1>7, FS_EmptySet
<1>9. Nested(frames, including)
  <2>1. Len(including) - 0 \in {0, 1} BY <1>6
  <2> QED BY <2>1, <1>6, <1>7, <1>8 DEF Nested
<1>10. Limits BY InclusionAssumption DEF InclusionInit, Limits
<1>11. fetches = 0 BY DEF InclusionInit
<1>12. Shallow(frames, 0)
  <2>1. \A i : UpTo(frames, i) = {} BY <1>7 DEF UpTo
  <2>2. \A i : Cardinality(UpTo(frames, i)) = 0 BY <2>1, FS_EmptySet
  <2>3. 0 \in 0 .. MaxIncludeDepth /\ 0 \in 0 .. 0 /\ 0 <= 0 BY InclusionAssumption
  <2>4. \A i \in 2 .. 1 : FALSE OBVIOUS
  <2> QED BY <2>2, <2>3, <2>4, <1>2, <1>3, <1>4 DEF Shallow
<1> QED BY <1>5, <1>6, <1>9, <1>10, <1>11, <1>12 DEF InclusionInv, IsStack

LEMMA InclusionStep == InclusionInv /\ [InclusionNext]_inclusionVars => InclusionInv'
<1> DEFINE Errors == {"none", "plain", "loop", "limit"}
<1> SUFFICES ASSUME InclusionInv, [InclusionNext]_inclusionVars
             PROVE  CallsKept(frames', including', fetches') /\ IsStack(including') /\ Limits'
  BY DEF InclusionInv, CallsKept
<1> USE DEF InclusionInv
<1>1. /\ CallsKept(frames, including, fetches) /\ IsStack(including)
      /\ resources \in Worlds /\ fetches \in 0 .. MaxIncludeFetches /\ fetches \in Nat
      /\ raised \in Errors
      /\ result \in {"working", "included", "plain", "loop", "limit"}
  BY InclusionAssumption DEF CallsKept, Limits
<1>2. /\ CallsKept(Consumed, including, fetches) /\ CallsKept(Consumed, including, fetches + 1)
      /\ Consumed[Len(Consumed)].depth = Inner.depth
      /\ Consumed[Len(Consumed)].serial = Inner.serial
  BY ConsumedKeeps
<1>3. ASSUME Len(frames) # 1
      PROVE  /\ Inner.kind = "document" => /\ IsStack(Popped) /\ CallsKept(Outer, Popped, fetches)
                                           /\ Outer[Len(Outer)].depth < MaxIncludeDepth
             /\ Inner.kind # "document" => CallsKept(Outer, including, fetches)
  <2>1. /\ Inner.kind = "document" => /\ AreCalls(Outer) /\ IsStack(Popped)
                                      /\ Nested(Outer, Popped)
        /\ Inner.kind # "document" => AreCalls(Outer) /\ Nested(Outer, including)
    BY <1>3, EndsInside, EndsDocument DEF Inner, Outer, Popped
  <2>2. /\ Shallow(Outer, fetches)
        /\ Inner.kind = "document" => Outer[Len(Outer)].depth < MaxIncludeDepth
    BY <1>1, <1>3, EndsShallow DEF Inner, Outer, CallsKept
  <2> QED BY <2>1, <2>2 DEF CallsKept
<1>4. Inner.kind # "document" => Len(frames) # 1
  BY DEF AreCalls, Inner
<1>5. /\ Inner.kind \in {"document", "element", "fallback"}
      /\ Inner.depth \in 0 .. MaxIncludeDepth /\ Inner.serial \in 0 .. fetches
  BY <1>1, LastCall DEF CallsKept, Inner
<1>6. ASSUME including' = including, fetches' = fetches, resources' = resources,
             result' = result, CallsKept(frames', including, fetches), raised' \in Errors
      PROVE  CallsKept(frames', including', fetches') /\ IsStack(including') /\ Limits'
  BY <1>1, <1>6 DEF Limits
<1> HIDE DEF InclusionInv
<1>7. CASE CopyLeaf
  <2>1. CallsKept(frames', including, fetches) BY <1>1, <1>2, <1>7, ReadOrWritten DEF CopyLeaf
  <2> QED BY <1>1, <1>6, <1>7, <2>1 DEF CopyLeaf
<1>8. CASE BeginElement
  <2> DEFINE f == Frame("element", ReadNext, ReadNext.content, <<>>,
                        Inner.depth, Inner.serial)
  <2>1. frames' = Append(Consumed, f) BY <1>8 DEF BeginElement
  <2>2. IsCall(f) /\ f.kind = "element" /\ f.depth = Inner.depth /\ f.serial = Inner.serial
    BY FramesAreCalls
  <2> HIDE DEF f
  <2>3. f.kind # "document" /\ f.depth = Inner.depth + 0 BY <2>2, <1>5
  <2>4. AreCalls(Append(Consumed, f)) /\ Nested(Append(Consumed, f), including)
    BY <1>2, <2>2, <2>3, BeginsInside DEF CallsKept
  <2>5. Shallow(Append(Consumed, f), fetches)
    BY <1>1, <1>2, <1>5, <2>2, <2>3, BeginsShallow DEF CallsKept
  <2>6. CallsKept(frames', including, fetches) BY <2>1, <2>4, <2>5 DEF CallsKept
  <2> QED BY <1>1, <1>6, <1>8, <2>6 DEF BeginElement
<1>9. CASE FinishElement
  <2>1. Inner.kind # "document" BY <1>9 DEF FinishElement, AtEnd
  <2>2. frames' = Emitting(Outer, <<ElementItem(Inner.item.id, Inner.out)>>)
    BY <1>9 DEF FinishElement
  <2>3. CallsKept(Outer, including, fetches) BY <2>1, <1>3, <1>4
  <2>4. CallsKept(frames', including, fetches) BY <1>1, <2>2, <2>3, ReadOrWritten
  <2> QED BY <1>1, <1>6, <1>9, <2>4 DEF FinishElement
<1>10. CASE RefuseMisplaced
  <2>1. CallsKept(frames', including, fetches) BY <1>1, <1>10 DEF RefuseMisplaced
  <2> QED BY <1>6, <1>10, <2>1 DEF RefuseMisplaced
<1>11. CASE FinishFallback
  <2>1. Inner.kind # "document" BY <1>11 DEF FinishFallback, AtEnd
  <2>2. frames' = [Outer EXCEPT ![Len(Outer)].out = Inner.out]
    BY <1>11 DEF FinishFallback
  <2>3. CallsKept(Outer, including, fetches) BY <2>1, <1>3, <1>4
  <2>4. CallsKept(frames', including, fetches)
    BY <1>1, <2>2, <2>3, GoesOn, ShallowGoesOn DEF CallsKept
  <2> QED BY <1>1, <1>6, <1>11, <2>4 DEF FinishFallback
<1>12. CASE FinishDocument
  <2>1. CASE Len(frames) = 1
    <3>1. /\ result' = "included" /\ frames' = frames /\ including' = including
          /\ raised' = raised /\ fetches' = fetches /\ resources' = resources
      BY <1>12, <2>1 DEF FinishDocument
    <3> QED BY <1>1, <3>1 DEF Limits
  <2>2. CASE Len(frames) # 1
    <3>1. Inner.kind = "document" BY <1>12 DEF FinishDocument, AtEnd
    <3>2. /\ IsStack(Popped) /\ CallsKept(Outer, Popped, fetches)
          /\ Outer[Len(Outer)].depth < MaxIncludeDepth
      BY <1>3, <2>2, <3>1
    <3>3. /\ including' = Popped /\ result' = result /\ fetches' = fetches
          /\ resources' = resources
      BY <1>12, <2>2 DEF FinishDocument
    <3>4. CopiesOrFails(Outer)
      BY <1>12, <2>2, <3>2 DEF FinishDocument, CopiesOrFails
    <3>5. CallsKept(frames', Popped, fetches) /\ raised' \in Errors
      BY <1>1, <3>2, <3>4, CopiesOrFailsKeeps
    <3> QED BY <1>1, <3>2, <3>3, <3>5 DEF Limits
  <2> QED BY <2>1, <2>2
<1>13. CASE TooDeep
  <2>1. CallsKept(frames', including, fetches) BY <1>1, <1>13 DEF TooDeep
  <2> QED BY <1>6, <1>13, <2>1 DEF TooDeep
<1>14. ASSUME Expanding PROVE Consumed[Len(Consumed)].depth < MaxIncludeDepth
  BY <1>2, <1>14 DEF Expanding
<1>15. CASE SelectLocal
  <2>1. CopiesOrFails(Consumed)
    BY <1>14, <1>15 DEF SelectLocal, CopiesOrFails
  <2>2. CallsKept(frames', including, fetches) /\ raised' \in Errors
    BY <1>1, <1>2, <2>1, CopiesOrFailsKeeps
  <2> QED BY <1>6, <1>15, <2>2 DEF SelectLocal
<1>16. \A top \in {fetches, fetches + 1} : CallsKept(Consumed, including, top) /\ top \in Nat
  BY <1>1, <1>2
<1>17. ASSUME fetches' \in {fetches, fetches + 1},
              fetches' = fetches + 1 => fetches < MaxIncludeFetches
       PROVE  fetches' \in 0 .. MaxIncludeFetches
  BY <1>1, <1>17, InclusionAssumption
<1>18. CASE IncludeText
  <2>1. CopiesOrFails(Consumed)
    BY <1>14, <1>18 DEF IncludeText, CopiesOrFails
  <2>2. /\ including' = including /\ resources' = resources /\ result' = result
        /\ fetches' \in {fetches, fetches + 1} /\ (fetches' = fetches + 1 => fetches < MaxIncludeFetches)
    BY <1>1, <1>18, InclusionAssumption DEF IncludeText
  <2>3. CallsKept(frames', including, fetches') /\ raised' \in Errors
    BY <1>1, <1>16, <2>1, <2>2, CopiesOrFailsKeeps
  <2> QED BY <1>1, <1>17, <2>2, <2>3 DEF Limits
<1>19. CASE FetchXML
  <2> DEFINE uri == Target(ReadNext)
             f == Frame("document", IncludeItem(uri, ReadNext.parse, ReadNext.xptr,
                                                ReadNext.fallback),
                        resources[uri].content, <<>>, Inner.depth + 1, fetches')
  <2>1. /\ resources' = resources /\ result' = result
        /\ fetches' \in {fetches, fetches + 1} /\ (fetches' = fetches + 1 => fetches < MaxIncludeFetches)
    BY <1>1, <1>19, InclusionAssumption DEF FetchXML
  <2>2. \/ /\ including' = including
           /\ CopiesOrFails(Consumed)
        \/ /\ ~ \E i \in DOMAIN including : including[i] = uri
           /\ including' = Append(including, uri)
           /\ frames' = Append(Consumed, f)
           /\ raised' = raised
    BY <1>14, <1>19 DEF FetchXML, CopiesOrFails
  <2>3. fetches' \in 0 .. MaxIncludeFetches /\ fetches' \in Nat BY <1>16, <1>17, <2>1
  <2>4. CallsKept(Consumed, including, fetches') BY <1>16, <2>1
  <2>5. CASE including' = including /\ CopiesOrFails(Consumed)
    <3>1. CallsKept(frames', including, fetches') /\ raised' \in Errors
      BY <1>1, <2>3, <2>4, <2>5, CopiesOrFailsKeeps
    <3> QED BY <1>1, <2>1, <2>3, <2>5, <3>1 DEF Limits
  <2>6. CASE /\ ~ \E i \in DOMAIN including : including[i] = uri
             /\ including' = Append(including, uri)
             /\ frames' = Append(Consumed, f)
             /\ raised' = raised
    <3>1. /\ IsCall(f) /\ f.kind = "document" /\ f.item.href = uri
          /\ f.depth = Inner.depth + 1 /\ f.serial = fetches'
      BY FramesAreCalls DEF IncludeItem
    <3> HIDE DEF f, uri
    <3>2. \A i \in DOMAIN including : including[i] # f.item.href BY <2>6, <3>1
    <3>3. /\ AreCalls(Append(Consumed, f)) /\ IsStack(Append(including, f.item.href))
          /\ Nested(Append(Consumed, f), Append(including, f.item.href))
      BY <1>1, <1>2, <3>1, <3>2, BeginsDocument DEF CallsKept
    <3>4. f.serial \in 0 .. fetches' BY <2>3, <3>1
    <3>5. f.depth \in 0 .. MaxIncludeDepth
      <4>1. Inner.depth < MaxIncludeDepth BY <1>19 DEF FetchXML, Expanding
      <4> QED BY <1>5, <3>1, <4>1, InclusionAssumption
    <3>6. f.depth = Consumed[Len(Consumed)].depth + 1 BY <1>2, <3>1
    <3>7. Shallow(Append(Consumed, f), fetches')
      BY <2>3, <2>4, <3>1, <3>4, <3>5, <3>6, BeginsShallow DEF CallsKept
    <3>8. CallsKept(frames', including', fetches') /\ IsStack(including')
      BY <2>6, <3>1, <3>3, <3>7 DEF CallsKept
    <3> QED BY <1>1, <2>1, <2>3, <2>6, <3>8 DEF Limits
  <2> QED BY <2>2, <2>5, <2>6
<1>20. CASE ReturnError
  <2>1. raised \in {"plain", "loop", "limit"} BY <1>1, <1>20 DEF ReturnError
  <2>2. fetches' = fetches /\ resources' = resources BY <1>20 DEF ReturnError
  <2>3. CASE Len(frames) = 1
    <3>1. /\ result' = raised /\ frames' = frames /\ including' = including /\ raised' = raised
      BY <1>20, <2>3 DEF ReturnError
    <3> QED BY <1>1, <2>1, <2>2, <3>1 DEF Limits
  <2>4. CASE Len(frames) # 1 /\ Inner.kind = "document"
    <3>1. including' = Popped /\ Fails(raised, Inner.item, Outer) /\ result' = result
      BY <1>20, <2>4 DEF ReturnError
    <3>2. /\ IsStack(Popped) /\ CallsKept(Outer, Popped, fetches)
          /\ Outer[Len(Outer)].depth < MaxIncludeDepth
      BY <1>3, <2>4
    <3>3. CallsKept(frames', Popped, fetches) /\ raised' \in Errors
      BY <1>1, <2>1, <3>1, <3>2, FailsKeeps
    <3> QED BY <1>1, <2>2, <3>1, <3>2, <3>3 DEF Limits
  <2>5. CASE Len(frames) # 1 /\ Inner.kind # "document"
    <3>1. /\ including' = including /\ frames' = Outer /\ raised' = raised
          /\ result' = result
      BY <1>20, <2>5 DEF ReturnError
    <3> QED BY <1>1, <1>3, <1>6, <2>2, <2>5, <3>1
  <2> QED BY <2>3, <2>4, <2>5
<1>21. CASE UNCHANGED inclusionVars
  <2>1. CallsKept(frames', including, fetches) BY <1>1, <1>21 DEF inclusionVars
  <2> QED BY <1>1, <1>6, <1>21, <2>1 DEF inclusionVars
<1> QED BY <1>7, <1>8, <1>9, <1>10, <1>11, <1>12, <1>13, <1>15, <1>18, <1>19, <1>20, <1>21
        DEF InclusionNext

\* Whatever the resolver answers, whatever pointers select and whichever errors
\* are recovered from, the stack that includeProc.fetch looks for loops in is the
\* documents it is inside of, each once, and no more of them than maxIncludeDepth
\* (xdm/xinclude.go:301-306, 557-633).
THEOREM InclusionNested == InclusionSpec => [](InclusionTypeOK /\ StackIsNesting)
<1>1. InclusionInv => StackIsNesting
  <2> SUFFICES ASSUME InclusionInv PROVE StackIsNesting
    OBVIOUS
  <2> DEFINE n == Len(frames)
  <2>1. fetches \in Nat BY InclusionAssumption DEF InclusionInv, Limits
  <2>2. /\ n \in Nat /\ n \in 1 .. n /\ frames[n].depth \in 0 .. MaxIncludeDepth
        /\ CalledFor(frames) \subseteq 2 .. n /\ Cardinality(CalledFor(frames)) \in Nat
    BY <2>1, LastCall, CalledForFinite DEF InclusionInv, CalledFor
  <2>3. UpTo(frames, n) = CalledFor(frames)
    <3>1. \A i \in 2 .. n : i <= n BY <2>2
    <3> QED BY <2>2, <3>1 DEF UpTo
  <2>4. Cardinality(CalledFor(frames)) <= frames[n].depth
    BY <2>2, <2>3 DEF InclusionInv, Shallow
  <2>5. Cardinality(CalledFor(frames)) <= MaxIncludeDepth
    BY <2>2, <2>4, InclusionAssumption
  <2> QED BY <2>5 DEF InclusionInv, Nested, CalledFor, Above, Depth, StackIsNesting,
                      DocumentsIncluded, Within
<1>2. InclusionInv => InclusionTypeOK
  <2> SUFFICES ASSUME InclusionInv PROVE InclusionTypeOK
    OBVIOUS
  <2>1. frames # <<>> BY DEF InclusionInv, AreCalls
  <2>2. DOMAIN frames = 1 .. Len(frames) BY DEF InclusionInv, AreCalls
  <2> QED BY <2>1, <2>2 DEF InclusionInv, InclusionTypeOK, Limits, Shallow, AreCalls
<1> QED BY <1>1, <1>2, InclusionInitially, InclusionStep, PTL DEF InclusionSpec

-----------------------------------------------------------------------------
(* Accumulators: the values of a walk and the arrays they are in. *)

Cell == Nat \cup {Blank}
Slices == [array : Nat, len : Nat, cap : Nat]

\* A slice lies in its array, and one without items is the empty one.
Lies(v, store) ==
    /\ v \in Slices /\ v.len <= v.cap
    /\ v.len = 0 => v = EmptySlice
    /\ v.len > 0 => v.array \in 1 .. Len(store) /\ v.cap <= Len(store[v.array])

Recorded == {before[n] : n \in DOMAIN before} \cup {after[n] : n \in DOMAIN after}

AccumTypes ==
    /\ walk \in Walks /\ event \in 0 .. Len(Events)
    /\ arrays \in Seq(Seq(Cell)) /\ charged \in 0 .. MaxStored
    /\ Lies(value, arrays) /\ \A r \in Recorded : Lies(r, arrays)
    /\ tip = value
    /\ value.len > 0 => value \in Recorded
    /\ before = [n \in DOMAIN before |-> before[n]] /\ after = [n \in DOMAIN after |-> after[n]]
    /\ DOMAIN before = {n \in Nodes : \E k \in 1 .. event : Events[k] = <<"start", n>>}
    /\ DOMAIN after = {n \in Nodes : \E k \in 1 .. event : Events[k] = <<"end", n>>}
    /\ outcome \in {"walking", "cached", "circular", "refused"}

ValueStands == Items(value) = ValueAfter[event]

\* Nothing recorded reaches into the room behind the value.
NothingBehind ==
    value.cap > value.len =>
        \A r \in Recorded : r.array = value.array => r.len <= value.len

\* While a node that restores its value is open, the value is the one it was entered
\* with, or longer, or in another array.
ScopesKept ==
    \A m \in Restoring(walk) : \A i, k \in DOMAIN Events :
        Events[i] = <<"start", m>> /\ Events[k] = <<"end", m>> /\ i <= event /\ event < k
            => \/ value = before[m] \/ value.array # before[m].array
               \/ value.len > before[m].len

RoomIsPaid ==
    LET room == RoomOf(RecordedArrays)
    IN  /\ room <= 4 * charged + event
        /\ room + 4 * value.len <= 4 * charged + 2 * value.cap + event + 2

AccumInv == AccumTypes /\ ValueStands /\ RecordedStand /\ NothingBehind /\ ScopesKept /\ RoomIsPaid
-----------------------------------------------------------------------------
(* Slices and what append does to them. *)

\* The items of a slice, cell by cell.
Cells(store, v) == [i \in 1 .. v.len |-> store[v.array][i]]

LEMMA SequenceIs ==
    ASSUME NEW S, NEW s \in Seq(S)
    PROVE  s = [i \in 1 .. Len(s) |-> s[i]]
OBVIOUS

LEMMA CellsAre ==
    ASSUME NEW store \in Seq(Seq(Cell)), NEW v, Lies(v, store)
    PROVE  /\ (IF v.len = 0 THEN <<>> ELSE SubSeq(store[v.array], 1, v.len)) = Cells(store, v)
           /\ Cells(store, v) \in Seq(Cell) /\ Len(Cells(store, v)) = v.len
<1>1. v.len \in Nat /\ v.cap \in Nat /\ v.array \in Nat
  BY DEF Lies, Slices
<1>2. CASE v.len = 0
  <2>1. Cells(store, v) = <<>>
    <3>1. 1 .. v.len = {}
      BY <1>2
    <3> QED BY <3>1 DEF Cells
  <2> QED BY <1>2, <2>1
<1>3. CASE v.len # 0
  <2> DEFINE s == store[v.array]
  <2>1. s \in Seq(Cell) /\ v.len <= Len(s) /\ Len(s) \in Nat
    BY <1>1, <1>3 DEF Lies
  <2> HIDE DEF s
  <2>2. SubSeq(s, 1, v.len) = [i \in 1 .. v.len |-> s[i]]
    <3>1. SubSeq(s, 1, v.len) \in Seq(Cell) /\ Len(SubSeq(s, 1, v.len)) = v.len
          /\ \A i \in 1 .. v.len : SubSeq(s, 1, v.len)[i] = s[i]
      BY <1>1, <1>3, <2>1
    <3> QED BY <1>1, <3>1
  <2>3. \A i \in 1 .. v.len : s[i] \in Cell
    BY <1>1, <2>1
  <2>4. [i \in 1 .. v.len |-> s[i]] \in Seq(Cell) /\ Len([i \in 1 .. v.len |-> s[i]]) = v.len
    BY <1>1, <2>3
  <2> QED BY <1>3, <2>2, <2>4 DEF Cells, s
<1> QED BY <1>2, <1>3

\* What append leaves when the slice has room: the new items behind the old ones.
InPlace(store, v, items, a) ==
    /\ v.len + Len(items) <= v.cap
    /\ a.slice = Slice(v.array, v.len + Len(items), v.cap)
    /\ a.store \in Seq(Seq(Cell)) /\ Len(a.store) = Len(store)
    /\ \A x \in 1 .. Len(store) :
          /\ Len(a.store[x]) = Len(store[x])
          /\ \A i \in 1 .. Len(store[x]) : (x # v.array \/ i <= v.len) => a.store[x][i] = store[x][i]

\* What it leaves when there is none: an array more.
InNewArray(store, v, items, a) ==
    LET n == v.len + Len(items)
        cap == IF n > 2 * v.cap THEN n ELSE 2 * v.cap
    IN  /\ n > v.cap
        /\ a.slice = Slice(Len(store) + 1, n, cap)
        /\ a.store \in Seq(Seq(Cell)) /\ Len(a.store) = Len(store) + 1
        /\ Len(a.store[Len(store) + 1]) = cap
        /\ \A x \in 1 .. Len(store) : a.store[x] = store[x]

LEMMA AppendingDoes ==
    ASSUME NEW store \in Seq(Seq(Cell)), NEW v, Lies(v, store),
           NEW items \in Seq(Cell), Len(items) > 0
    PROVE  LET a == Appending(store, v, items)
           IN  /\ InPlace(store, v, items, a) \/ InNewArray(store, v, items, a)
               /\ Lies(a.slice, a.store)
               /\ Cells(a.store, a.slice) = Cells(store, v) \o items
<1> DEFINE n == v.len + Len(items)
           kept == Cells(store, v)
           cap == IF n > 2 * v.cap THEN n ELSE 2 * v.cap
           a == Appending(store, v, items)
<1>1. /\ v.len \in Nat /\ v.cap \in Nat /\ v.array \in Nat /\ v.len <= v.cap
      /\ Len(items) \in Nat \ {0} /\ n \in Nat \ {0} /\ cap \in Nat /\ cap >= n
      /\ Len(store) \in Nat
  BY DEF Lies, Slices
<1>2. kept \in Seq(Cell) /\ Len(kept) = v.len
      /\ kept = (IF v.len = 0 THEN <<>> ELSE SubSeq(store[v.array], 1, v.len))
  BY CellsAre
<1>3. \A i \in 1 .. Len(items) : items[i] \in Cell
  OBVIOUS
<1> DEFINE joined == kept \o items
<1>4. /\ joined \in Seq(Cell) /\ Len(joined) = n
      /\ \A i \in 1 .. n : (i <= v.len => joined[i] = kept[i])
                            /\ (i > v.len => joined[i] = items[i - v.len])
  <2> HIDE DEF kept
  <2> QED BY <1>1, <1>2, <1>3
<1> HIDE DEF joined
<1>40. joined = [i \in 1 .. n |-> joined[i]]
  BY <1>4, SequenceIs
<1>5. items # <<>>
  BY <1>1
<1> DEFINE Done == /\ InPlace(store, v, items, a) \/ InNewArray(store, v, items, a)
                   /\ Lies(a.slice, a.store) /\ Cells(a.store, a.slice) = joined
<1>6. ASSUME n <= v.cap PROVE Done
  <2> DEFINE Cell2(x, i) == IF i \in v.len + 1 .. n THEN items[i - v.len] ELSE store[x][i]
             written == [i \in DOMAIN store[v.array] |-> Cell2(v.array, i)]
             after2 == [store EXCEPT ![v.array] = written]
  <2>1. a = [store |-> after2, slice |-> Slice(v.array, n, v.cap)]
    BY <1>5, <1>6 DEF Appending
  <2>2. v.len > 0
    BY <1>1, <1>6 DEF Lies, EmptySlice, Slice
  <2>3. v.array \in 1 .. Len(store) /\ v.cap <= Len(store[v.array]) /\ v.array \in DOMAIN store
        /\ store[v.array] \in Seq(Cell)
    BY <1>1, <2>2 DEF Lies
  <2>4. DOMAIN store[v.array] = 1 .. Len(store[v.array]) /\ Len(store[v.array]) \in Nat
    BY <2>3
  <2>5. \A i \in 1 .. Len(store[v.array]) : Cell2(v.array, i) \in Cell
    <3>1. \A i \in 1 .. Len(store[v.array]) : store[v.array][i] \in Cell
      BY <2>3
    <3>2. \A i \in v.len + 1 .. n : i - v.len \in 1 .. Len(items)
      BY <1>1
    <3> QED BY <1>3, <3>1, <3>2
  <2> HIDE DEF Cell2
  <2>6. written \in Seq(Cell) /\ Len(written) = Len(store[v.array])
        /\ \A i \in 1 .. Len(store[v.array]) : written[i] = Cell2(v.array, i)
    BY <2>4, <2>5
  <2> HIDE DEF written
  <2>7. after2 \in Seq(Seq(Cell)) /\ Len(after2) = Len(store) /\ after2[v.array] = written
        /\ \A x \in 1 .. Len(store) : x # v.array => after2[x] = store[x]
    BY <2>3, <2>6
  <2> HIDE DEF after2
  <2>8. InPlace(store, v, items, a)
    <3>1. \A i \in 1 .. Len(store[v.array]) : i <= v.len => written[i] = store[v.array][i]
      <4>1. \A i \in 1 .. Len(store[v.array]) : i <= v.len => i \notin v.len + 1 .. n
        BY <1>1, <2>4
      <4> QED BY <2>6, <4>1 DEF Cell2
    <3>2. a.store = after2 /\ a.slice = Slice(v.array, n, v.cap)
      BY <2>1
    <3> HIDE DEF a
    <3> QED BY <1>6, <2>6, <2>7, <3>1, <3>2 DEF InPlace
  <2>9. Lies(a.slice, a.store)
    <3>1. a.store = after2 /\ a.slice = Slice(v.array, n, v.cap)
      BY <2>1
    <3> HIDE DEF a
    <3> QED BY <1>1, <1>6, <2>3, <2>4, <2>6, <2>7, <3>1 DEF Lies, Slice, Slices
  <2>10. Cells(a.store, a.slice) = joined
    <3>1. \A i \in 1 .. n : written[i] = joined[i]
      <4> TAKE i \in 1 .. n
      <4>1. i \in 1 .. Len(store[v.array]) /\ i \in Nat
        BY <1>1, <1>6, <2>3, <2>4
      <4>2. CASE i <= v.len
        <5>1. kept[i] = store[v.array][i]
          BY <1>1, <4>1, <4>2 DEF Cells
        <5> HIDE DEF kept
        <5>2. written[i] = store[v.array][i]
          <6>1. i \notin v.len + 1 .. n
            BY <1>1, <4>1, <4>2
          <6> QED BY <2>6, <4>1, <6>1 DEF Cell2
        <5> QED BY <1>4, <4>2, <5>1, <5>2
      <4>3. CASE i > v.len
        <5>1. written[i] = items[i - v.len]
          <6>1. i \in v.len + 1 .. n
            BY <1>1, <4>1, <4>3
          <6> QED BY <2>6, <4>1, <6>1 DEF Cell2
        <5> HIDE DEF kept
        <5> QED BY <1>4, <4>3, <5>1
      <4> QED BY <1>1, <4>1, <4>2, <4>3
    <3>2. Cells(a.store, a.slice) = [i \in 1 .. n |-> written[i]]
      BY <2>1, <2>7 DEF Cells, Slice
    <3> HIDE DEF a
    <3> QED BY <1>40, <3>1, <3>2
  <2> QED BY <2>8, <2>9, <2>10
<1>7. ASSUME ~(n <= v.cap) PROVE Done
  <2> DEFINE Cell3(i) == IF i <= n THEN joined[i] ELSE Blank
             made == [i \in 1 .. cap |-> Cell3(i)]
             after3 == Append(store, made)
  <2>1. a = [store |-> after3, slice |-> Slice(Len(store) + 1, n, cap)]
    BY <1>2, <1>5, <1>7 DEF Appending, joined
  <2>2. \A i \in 1 .. cap : Cell3(i) \in Cell
    BY <1>1, <1>4 DEF Cell
  <2>3. \A i \in 1 .. n : Cell3(i) = joined[i] /\ i \in 1 .. cap
    <3>1. \A i \in 1 .. n : i <= n /\ i \in 1 .. cap
      <4> HIDE DEF n, cap
      <4> QED BY <1>1
    <3> HIDE DEF n, cap
    <3> QED BY <3>1
  <2> HIDE DEF Cell3
  <2>4. made \in Seq(Cell) /\ Len(made) = cap /\ \A i \in 1 .. cap : made[i] = Cell3(i)
    <3>1. cap \in Nat
      BY <1>1
    <3> HIDE DEF cap
    <3> QED BY <2>2, <3>1
  <2> HIDE DEF made
  <2>5. after3 \in Seq(Seq(Cell)) /\ Len(after3) = Len(store) + 1
        /\ after3[Len(store) + 1] = made
        /\ \A x \in 1 .. Len(store) : after3[x] = store[x]
    BY <2>4
  <2> HIDE DEF after3
  <2>6. a.store = after3 /\ a.slice = Slice(Len(store) + 1, n, cap)
    BY <2>1
  <2> HIDE DEF a, kept
  <2>7. InNewArray(store, v, items, a)
    <3>1. n > v.cap
      BY <1>1, <1>7
    <3> QED BY <2>4, <2>5, <2>6, <3>1 DEF InNewArray
  <2>8. Lies(a.slice, a.store)
    <3> HIDE DEF cap, n
    <3> QED BY <1>1, <2>4, <2>5, <2>6 DEF Lies, Slice, Slices
  <2>9. Cells(a.store, a.slice) = joined
    <3>1. Cells(a.store, a.slice) = [i \in 1 .. n |-> made[i]]
      BY <2>5, <2>6 DEF Cells, Slice
    <3>2. \A i \in 1 .. n : made[i] = joined[i]
      BY <2>3, <2>4
    <3> QED BY <1>40, <3>1, <3>2
  <2> QED BY <2>7, <2>8, <2>9
<1>8. Done
  <2> HIDE DEF Done, n
  <2> QED BY <1>6, <1>7
<1> HIDE DEF a, kept
<1> QED BY <1>8, Zenon DEF a, joined, kept

-----------------------------------------------------------------------------
(* The events of a walk, and the values they make. *)

LEMMA WalkIs ==
    ASSUME walk \in Walks
    PROVE  /\ Len(walk.parent) \in Nat /\ Len(Events) = 2 * Len(walk.parent)
           /\ Len(Events) \in Nat /\ DOMAIN Events = 1 .. Len(Events)
           /\ walk.start \in [Nodes -> RuleKinds] /\ walk.end \in [Nodes -> RuleKinds]
           /\ \A i, j \in DOMAIN Events : Events[i] = Events[j] => i = j
           /\ \A n \in Nodes : \E i, j \in DOMAIN Events :
                 Events[i] = <<"start", n>> /\ Events[j] = <<"end", n>> /\ i < j
           /\ \A k \in 1 .. Len(Events) :
                 /\ Events[k][1] \in {"start", "end"} /\ Events[k][2] \in Nodes
                 /\ Events[k] = <<Events[k][1], Events[k][2]>>
<1> DEFINE w == walk
           nodes == 1 .. Len(w.parent)
           es == EventsOf(w.parent)
<1>1. /\ w.parent \in Seq(Nat)
      /\ w.start \in [nodes -> RuleKinds] /\ w.end \in [nodes -> RuleKinds]
      /\ es \in Seq({"start", "end"} \X nodes) /\ Len(es) = 2 * Len(w.parent)
      /\ \A i, j \in DOMAIN es : es[i] = es[j] => i = j
      /\ \A n \in nodes : \E i, j \in DOMAIN es :
            es[i] = <<"start", n>> /\ es[j] = <<"end", n>> /\ i < j
  BY WalksAssumption
<1>2. nodes = Nodes /\ es = Events
  BY DEF Nodes, Events
<1> HIDE DEF nodes, es
<1>3. Len(w.parent) \in Nat /\ Len(es) \in Nat /\ DOMAIN es = 1 .. Len(es)
  BY <1>1
<1>4. \A k \in 1 .. Len(es) : es[k] \in {"start", "end"} \X nodes
  BY <1>1, <1>3
<1>5. \A k \in 1 .. Len(es) : /\ es[k][1] \in {"start", "end"} /\ es[k][2] \in nodes
                              /\ es[k] = <<es[k][1], es[k][2]>>
  BY <1>4
<1> QED BY <1>1, <1>2, <1>3, <1>5

LEMMA RuleIsOne ==
    ASSUME walk \in Walks, NEW k \in 1 .. Len(Events)
    PROVE  RuleOfEvent(k) \in RuleKinds
BY WalkIs DEF RuleOfEvent

\* A node is entered before it is left.
LEMMA EnteredIs ==
    ASSUME walk \in Walks, NEW n \in Nodes
    PROVE  /\ Entered(n) \in DOMAIN Events /\ Events[Entered(n)] = <<"start", n>>
           /\ \A k \in DOMAIN Events : Events[k] = <<"end", n>> => Entered(n) < k
<1>1. PICK i \in DOMAIN Events, j \in DOMAIN Events :
         Events[i] = <<"start", n>> /\ Events[j] = <<"end", n>> /\ i < j
  BY WalkIs
<1>2. Entered(n) \in DOMAIN Events /\ Events[Entered(n)] = <<"start", n>>
  BY <1>1 DEF Entered
<1>3. Entered(n) = i
  BY <1>1, <1>2, WalkIs
<1>4. \A k \in DOMAIN Events : Events[k] = <<"end", n>> => k = j
  BY <1>1, WalkIs
<1> QED BY <1>1, <1>2, <1>3, <1>4

LEMMA BroughtBackIs ==
    ASSUME walk \in Walks, NEW k \in 1 .. Len(Events)
    PROVE  BroughtBack(k) \in 0 .. k - 1
<1>1. Entered(Events[k][2]) \in 1 .. Len(Events) /\ Len(Events) \in Nat
  BY WalkIs, EnteredIs
<1> QED BY <1>1 DEF BroughtBack

\* The values after the first n events, of which each is made from earlier ones.
NextValue(f, k) ==
    IF k = 0 THEN <<>>
    ELSE CASE RuleOfEvent(k) = "none" -> f[k - 1]
           [] RuleOfEvent(k) = "append" -> f[k - 1] \o ItemsOfEvent(k, 1)
           [] RuleOfEvent(k) = "append two" -> f[k - 1] \o ItemsOfEvent(k, 2)
           [] RuleOfEvent(k) = "replace" -> ItemsOfEvent(k, 2)
           [] RuleOfEvent(k) = "reset" -> <<>>
           [] RuleOfEvent(k) = "before" -> f[BroughtBack(k)]
AreValues(f, n) == f = [k \in 0 .. n |-> NextValue(f, k)]

LEMMA NextValueSame ==
    ASSUME walk \in Walks, NEW k \in 0 .. Len(Events), NEW f, NEW g,
           \A i \in 0 .. k - 1 : f[i] = g[i]
    PROVE  NextValue(f, k) = NextValue(g, k)
<1>1. CASE k = 0
  BY <1>1 DEF NextValue
<1>2. CASE k # 0
  <2>1. k \in 1 .. Len(Events) /\ k - 1 \in 0 .. k - 1
    <3>1. Len(Events) \in Nat
      BY WalkIs
    <3> QED BY <1>2, <3>1
  <2>2. f[k - 1] = g[k - 1] /\ f[BroughtBack(k)] = g[BroughtBack(k)]
    BY <2>1, BroughtBackIs
  <2> QED BY <1>2, <2>2 DEF NextValue
<1> QED BY <1>1, <1>2

LEMMA ValuesExist ==
    ASSUME walk \in Walks
    PROVE  \E f : AreValues(f, Len(Events))
<1> DEFINE Bad == {n \in Nat : n <= Len(Events) /\ ~ \E f : AreValues(f, n)}
<1>1. Len(Events) \in Nat
  BY WalkIs
<1>2. SUFFICES ASSUME Bad # {} PROVE FALSE
  BY <1>1
<1>3. PICK n \in Bad : \A m \in Bad : n <= m
  <2>1. Bad \in SUBSET Nat
    OBVIOUS
  <2> HIDE DEF Bad
  <2> QED BY <1>2, <2>1, LeastNumber
<1>4. n \in Nat /\ n <= Len(Events) /\ ~ \E f : AreValues(f, n)
  OBVIOUS
<1>5. n # 0
  <2> DEFINE none == [k \in 0 .. 0 |-> <<>>]
  <2>1. none = [k \in 0 .. 0 |-> NextValue(none, k)]
    <3>1. \A k \in 0 .. 0 : k = 0
      OBVIOUS
    <3> HIDE DEF none
    <3>2. \A k \in 0 .. 0 : NextValue(none, k) = <<>>
      BY <3>1, Zenon DEF NextValue
    <3> QED BY <3>2, Zenon DEF none
  <2> HIDE DEF none
  <2>2. AreValues(none, 0)
    BY <2>1, Zenon DEF AreValues
  <2> QED BY <1>4, <2>2
<1>6. PICK f : AreValues(f, n - 1)
  <2>1. n - 1 \in Nat /\ n - 1 <= Len(Events) /\ ~(n <= n - 1)
    BY <1>1, <1>4, <1>5
  <2>2. n - 1 \notin Bad
    BY <1>3, <2>1
  <2> QED BY <2>1, <2>2
<1> DEFINE g == [k \in 0 .. n |-> IF k < n THEN f[k] ELSE NextValue(f, n)]
<1> HIDE DEF Bad
<1>7. \A k \in 0 .. n : k \in 0 .. Len(Events) /\ \A i \in 0 .. k - 1 : i \in 0 .. n /\ i < n
  BY <1>1, <1>4
<1>8. \A k \in 0 .. n : \A i \in 0 .. k - 1 : g[i] = f[i]
  BY <1>7
<1>9. \A k \in 0 .. n : NextValue(g, k) = NextValue(f, k)
  <2> HIDE DEF g
  <2> QED BY <1>7, <1>8, NextValueSame
<1>10. \A k \in 0 .. n : g[k] = NextValue(g, k)
  <2> TAKE k \in 0 .. n
  <2>1. CASE k < n
    <3>1. k \in 0 .. n - 1
      BY <1>4, <2>1
    <3>2. f[k] = NextValue(f, k)
      BY <1>6, <3>1, Zenon DEF AreValues
    <3>3. g[k] = f[k]
      BY <2>1, Zenon
    <3> HIDE DEF g
    <3> QED BY <1>9, <3>2, <3>3, Zenon
  <2>2. CASE ~(k < n)
    <3>1. k = n
      BY <1>4, <2>2
    <3>2. g[k] = NextValue(f, n)
      BY <2>2, Zenon
    <3> HIDE DEF g
    <3> QED BY <1>9, <3>1, <3>2, Zenon
  <2> QED BY <2>1, <2>2
<1>11. AreValues(g, n)
  <2>1. g = [k \in 0 .. n |-> g[k]]
    BY Zenon
  <2> HIDE DEF g
  <2>2. g = [k \in 0 .. n |-> NextValue(g, k)]
    BY <1>10, <2>1, Zenon
  <2> QED BY <2>2, Zenon DEF AreValues
<1> QED BY <1>4, <1>11

\* What the value is after an event, by what it was after earlier ones.
LEMMA ValueIs ==
    ASSUME walk \in Walks, NEW k \in 0 .. Len(Events)
    PROVE  ValueAfter[k] = NextValue(ValueAfter, k)
<1>1. ValueAfter = CHOOSE f : AreValues(f, Len(Events))
  BY Zenon DEF ValueAfter, AreValues, NextValue
<1>2. AreValues(ValueAfter, Len(Events))
  BY <1>1, ValuesExist, Zenon
<1> QED BY <1>2, Zenon DEF AreValues

-----------------------------------------------------------------------------
(* What a rule yields. *)

\* Arrays were added to a store, and none was written.
Grows(store, larger) ==
    /\ larger \in Seq(Seq(Cell)) /\ Len(larger) >= Len(store)
    /\ \A x \in 1 .. Len(store) : larger[x] = store[x]

LEMMA StillLies ==
    ASSUME NEW store \in Seq(Seq(Cell)), NEW larger, Grows(store, larger), NEW v, Lies(v, store)
    PROVE  Lies(v, larger) /\ Cells(larger, v) = Cells(store, v)
<1>1. v.len \in Nat /\ Len(store) \in Nat /\ Len(larger) \in Nat
  BY DEF Lies, Slices, Grows
<1>2. CASE v.len = 0
  <2>1. 1 .. v.len = {}
    BY <1>2
  <2> QED BY <1>2, <2>1 DEF Lies, Cells
<1>3. CASE v.len > 0
  <2>1. v.array \in 1 .. Len(store) /\ larger[v.array] = store[v.array]
    BY <1>3 DEF Lies, Grows
  <2>2. v.array \in 1 .. Len(larger)
    BY <1>1, <2>1 DEF Grows
  <2> QED BY <1>3, <2>1, <2>2 DEF Lies, Cells
<1> QED BY <1>1, <1>2, <1>3

\* A slice in an array that was made after those of the store, which is at most twice
\* as long as the slice, and as long when the slice is one item.
Fresh(y, store) ==
    /\ y.slice.array \in Len(store) + 1 .. Len(y.store) /\ y.slice.len > 0
    /\ Len(y.store[y.slice.array]) <= 2 * y.slice.len
    /\ y.slice.len = 1 => Len(y.store[y.slice.array]) = 1

LEMMA EmptyLies ==
    ASSUME NEW store \in Seq(Seq(Cell))
    PROVE  Lies(EmptySlice, store) /\ Cells(store, EmptySlice) = <<>>
<1>1. 1 .. 0 = {}
  OBVIOUS
<1> QED BY <1>1 DEF Lies, Slices, EmptySlice, Slice, Cells

\* Appending to a slice with no room behind it makes an array.
LEMMA AppendingToFull ==
    ASSUME NEW store \in Seq(Seq(Cell)), NEW v, Lies(v, store), v.cap = v.len,
           NEW items \in Seq(Cell), Len(items) > 0
    PROVE  LET y == Appending(store, v, items)
           IN  /\ Grows(store, y.store) /\ Fresh(y, store) /\ Lies(y.slice, y.store)
               /\ Cells(y.store, y.slice) = Cells(store, v) \o items
               /\ v.len = 0 => y.slice.cap = y.slice.len
<1> DEFINE y == Appending(store, v, items)
<1>1. /\ InPlace(store, v, items, y) \/ InNewArray(store, v, items, y)
      /\ Lies(y.slice, y.store) /\ Cells(y.store, y.slice) = Cells(store, v) \o items
  BY AppendingDoes
<1> HIDE DEF y
<1>2. v.len \in Nat /\ Len(items) \in Nat /\ Len(store) \in Nat
  BY DEF Lies, Slices
<1> DEFINE n == v.len + Len(items)
           cap == IF n > 2 * v.len THEN n ELSE 2 * v.len
<1>3. ~InPlace(store, v, items, y)
  BY <1>2 DEF InPlace
<1>4. /\ y.slice = Slice(Len(store) + 1, n, cap)
      /\ y.store \in Seq(Seq(Cell)) /\ Len(y.store) = Len(store) + 1
      /\ Len(y.store[Len(store) + 1]) = cap
      /\ \A x \in 1 .. Len(store) : y.store[x] = store[x]
  BY <1>1, <1>3, Zenon DEF InNewArray
<1>5. n \in Nat /\ n > 0 /\ cap <= 2 * n /\ (n = 1 => cap = 1) /\ (v.len = 0 => cap = n)
  BY <1>2
<1> HIDE DEF n, cap
<1>6. y.slice.array = Len(store) + 1 /\ y.slice.len = n /\ y.slice.cap = cap
  BY <1>4 DEF Slice
<1>7. Grows(store, y.store)
  BY <1>2, <1>4 DEF Grows
<1>8. Fresh(y, store)
  <2>1. y.slice.array \in Len(store) + 1 .. Len(y.store)
    BY <1>2, <1>4, <1>6
  <2>2. Len(y.store[y.slice.array]) = cap
    BY <1>4, <1>6
  <2> QED BY <1>5, <1>6, <2>1, <2>2, Zenon DEF Fresh
<1>9. v.len = 0 => y.slice.cap = y.slice.len
  BY <1>5, <1>6
<1> QED BY <1>1, <1>7, <1>8, <1>9 DEF y

LEMMA ConstructedDoes ==
    ASSUME arrays \in Seq(Seq(Cell)), Lies(value, arrays), NEW items \in Seq(Cell), Len(items) > 0
    PROVE  LET y == Constructed(items)
           IN  /\ Grows(arrays, y.store) /\ Fresh(y, arrays) /\ Lies(y.slice, y.store)
               /\ Cells(y.store, y.slice) = Cells(arrays, value) \o items
<1> DEFINE own == Cells(arrays, value)
           copied == Appending(arrays, EmptySlice, Items(value))
           y == Appending(copied.store, copied.slice, items)
<1>1. own \in Seq(Cell) /\ Len(own) = value.len /\ Items(value) = own /\ value.len \in Nat
  BY CellsAre DEF Items, Lies, Slices
<1>2. /\ Lies(EmptySlice, arrays) /\ Cells(arrays, EmptySlice) = <<>>
      /\ EmptySlice.len = 0 /\ EmptySlice.cap = 0
  BY EmptyLies DEF EmptySlice, Slice
<1> HIDE DEF own
<1>3. /\ Grows(arrays, copied.store) /\ Lies(copied.slice, copied.store)
      /\ copied.slice.cap = copied.slice.len /\ Cells(copied.store, copied.slice) = own
  <2>1. CASE value.len = 0
    <3>1. own = <<>>
      BY <1>1, <2>1
    <3>2. copied = [store |-> arrays, slice |-> EmptySlice]
      BY <1>1, <3>1 DEF Appending
    <3>3. Grows(arrays, arrays)
      BY DEF Grows
    <3> HIDE DEF copied
    <3> QED BY <1>2, <3>1, <3>2, <3>3
  <2>2. CASE value.len # 0
    <3>1. Len(own) > 0
      BY <1>1, <2>2
    <3>2. /\ Grows(arrays, copied.store) /\ Lies(copied.slice, copied.store)
          /\ copied.slice.cap = copied.slice.len
          /\ Cells(copied.store, copied.slice) = <<>> \o own
      BY <1>1, <1>2, <3>1, AppendingToFull
    <3>3. <<>> \o own = own
      BY <1>1
    <3> QED BY <3>2, <3>3
  <2> QED BY <2>1, <2>2
<1> HIDE DEF copied
<1>4. copied.store \in Seq(Seq(Cell)) /\ Len(copied.store) >= Len(arrays)
      /\ Len(copied.store) \in Nat /\ Len(arrays) \in Nat
  BY <1>3 DEF Grows
<1>5. /\ Grows(copied.store, y.store) /\ Fresh(y, copied.store) /\ Lies(y.slice, y.store)
      /\ Cells(y.store, y.slice) = own \o items
  BY <1>3, <1>4, AppendingToFull
<1> HIDE DEF y
<1>6. Grows(arrays, y.store)
  BY <1>3, <1>4, <1>5 DEF Grows
<1>7. Fresh(y, arrays)
  BY <1>4, <1>5 DEF Fresh
<1>8. Constructed(items) = y
  BY DEF Constructed, y, copied
<1> QED BY <1>5, <1>6, <1>7, <1>8 DEF own

LEMMA ItemsAre ==
    ASSUME arrays \in Seq(Seq(Cell)), NEW v, Lies(v, arrays)
    PROVE  Items(v) = Cells(arrays, v)
BY CellsAre DEF Items

\* The event that comes.
LEMMA NextEvent ==
    ASSUME AccumTypes, event < Len(Events)
    PROVE  /\ event \in Nat /\ event + 1 \in 1 .. Len(Events) /\ event + 1 \in DOMAIN Events
           /\ (event + 1) - 1 = event /\ event + 1 # 0
           /\ event \in 0 .. Len(Events)
           /\ Here \in Nodes /\ Phase \in {"start", "end"}
           /\ Events[event + 1] = <<Phase, Here>> /\ Rule \in RuleKinds
<1>1. walk \in Walks /\ event \in 0 .. Len(Events)
  BY DEF AccumTypes
<1>2. Len(Events) \in Nat /\ DOMAIN Events = 1 .. Len(Events)
  BY <1>1, WalkIs
<1>3. /\ event \in Nat /\ event + 1 \in 1 .. Len(Events)
      /\ (event + 1) - 1 = event /\ event + 1 # 0
  BY <1>1, <1>2
<1>4. Here \in Nodes /\ Phase \in {"start", "end"} /\ Events[event + 1] = <<Phase, Here>>
  BY <1>1, <1>3, WalkIs DEF Here, Phase
<1>5. Rule \in RuleKinds
  BY <1>1, <1>3, RuleIsOne DEF Rule
<1> QED BY <1>1, <1>2, <1>3, <1>4, <1>5

\* The value a node was entered with is recorded by the time it is left.
LEMMA BeforeIsThere ==
    ASSUME AccumTypes, RecordedStand, event < Len(Events), Phase = "end"
    PROVE  /\ Here \in DOMAIN before /\ Lies(before[Here], arrays) /\ before[Here] \in Recorded
           /\ Items(before[Here]) = ValueAfter[BroughtBack(event + 1)]
<1> DEFINE i == Entered(Here)
<1>1. walk \in Walks /\ event \in Nat /\ Here \in Nodes /\ event + 1 \in DOMAIN Events
      /\ Events[event + 1] = <<"end", Here>>
  BY NextEvent DEF AccumTypes
<1>2. i \in DOMAIN Events /\ Events[i] = <<"start", Here>> /\ i < event + 1
  BY <1>1, EnteredIs
<1> HIDE DEF i
<1>3. i \in 1 .. event
  <2>1. i \in 1 .. Len(Events) /\ Len(Events) \in Nat
    BY <1>1, <1>2, WalkIs
  <2> QED BY <1>1, <1>2, <2>1
<1>4. Here \in DOMAIN before
  BY <1>1, <1>2, <1>3 DEF AccumTypes
<1>5. before[Here] \in Recorded
  BY <1>4 DEF Recorded
<1>6. Lies(before[Here], arrays)
  BY <1>5 DEF AccumTypes
<1>7. Items(before[Here]) = ValueAfter[i]
  BY <1>2, <1>3 DEF RecordedStand
<1>8. BroughtBack(event + 1) = i
  BY <1>1, <1>2 DEF BroughtBack, i
<1> QED BY <1>4, <1>5, <1>6, <1>7, <1>8

Yields(y) ==
    /\ Grows(arrays, y.store) /\ Lies(y.slice, y.store)
    /\ Cells(y.store, y.slice) = ValueAfter[event + 1]
    /\ \/ y.slice = value /\ y.store = arrays
       \/ y.slice = EmptySlice /\ y.store = arrays
       \/ Phase = "end" /\ Rule = "before" /\ y.slice = before[Here] /\ y.store = arrays
       \/ Fresh(y, arrays)

LEMMA ItemsOfEventAre ==
    ASSUME NEW k \in Nat, NEW n \in Nat
    PROVE  ItemsOfEvent(k, n) \in Seq(Cell) /\ Len(ItemsOfEvent(k, n)) = n
<1>1. \A i \in 1 .. n : 10 * k + i \in Cell
  BY DEF Cell
<1> QED BY <1>1 DEF ItemsOfEvent

LEMMA RuleYieldsNext ==
    ASSUME AccumTypes, ValueStands, RecordedStand, event < Len(Events),
           ~(Phase = "start" /\ Rule = "before")
    PROVE  Yields(RuleYields)
<1> DEFINE y == RuleYields
           old == ValueAfter[event]
           new == ValueAfter[event + 1]
           New(n) == ItemsOfEvent(event + 1, n)
<1>1. walk \in Walks /\ arrays \in Seq(Seq(Cell)) /\ Lies(value, arrays)
  BY DEF AccumTypes
<1>2. /\ event \in Nat /\ event + 1 \in 1 .. Len(Events) /\ event + 1 \in 0 .. Len(Events)
      /\ (event + 1) - 1 = event /\ event + 1 # 0 /\ Rule \in RuleKinds
      /\ Phase \in {"start", "end"}
  BY NextEvent
<1>3. Cells(arrays, value) = old
  BY <1>1, ItemsAre DEF ValueStands
<1>4. Grows(arrays, arrays)
  BY <1>1 DEF Grows
<1>5. new = NextValue(ValueAfter, event + 1)
  BY <1>1, <1>2, ValueIs
<1>6. \A n \in {1, 2} : New(n) \in Seq(Cell) /\ Len(New(n)) = n /\ NewItems(n) = New(n)
  BY <1>2, ItemsOfEventAre DEF NewItems
<1>7. Rule = RuleOfEvent(event + 1)
  BY DEF Rule
<1> HIDE DEF y, old, new, New
<1>8. CASE Rule = "none"
  <2>1. y = [store |-> arrays, slice |-> value]
    BY <1>8 DEF y, RuleYields
  <2>2. new = old
    BY <1>2, <1>5, <1>7, <1>8 DEF NextValue, old
  <2>3. y.store = arrays /\ y.slice = value
    BY <2>1
  <2> QED BY <1>1, <1>3, <1>4, <2>2, <2>3 DEF Yields, y, new
<1>9. CASE Rule = "append"
  <2>1. y = Constructed(NewItems(1))
    BY <1>9 DEF y, RuleYields
  <2>2. new = old \o New(1)
    BY <1>2, <1>5, <1>7, <1>9 DEF NextValue, old, New
  <2>3. /\ Grows(arrays, y.store) /\ Fresh(y, arrays) /\ Lies(y.slice, y.store)
        /\ Cells(y.store, y.slice) = Cells(arrays, value) \o New(1)
    <3>1. New(1) \in Seq(Cell) /\ Len(New(1)) = 1 /\ NewItems(1) = New(1)
      BY <1>6
    <3>2. Len(New(1)) > 0 /\ y = Constructed(New(1))
      BY <2>1, <3>1
    <3> QED BY <1>1, <3>1, <3>2, ConstructedDoes, Zenon
  <2> QED BY <1>3, <2>2, <2>3 DEF Yields, y, new
<1>10. CASE Rule = "append two"
  <2>1. y = Constructed(NewItems(2))
    BY <1>10 DEF y, RuleYields
  <2>2. new = old \o New(2)
    BY <1>2, <1>5, <1>7, <1>10 DEF NextValue, old, New
  <2>3. /\ Grows(arrays, y.store) /\ Fresh(y, arrays) /\ Lies(y.slice, y.store)
        /\ Cells(y.store, y.slice) = Cells(arrays, value) \o New(2)
    <3>1. New(2) \in Seq(Cell) /\ Len(New(2)) > 0 /\ y = Constructed(New(2))
      BY <1>6, <2>1
    <3> QED BY <1>1, <3>1, ConstructedDoes, Zenon
  <2> QED BY <1>3, <2>2, <2>3 DEF Yields, y, new
<1>11. CASE Rule = "replace"
  <2>1. y = Appending(arrays, EmptySlice, NewItems(2))
    BY <1>11 DEF y, RuleYields
  <2>2. new = New(2)
    BY <1>2, <1>5, <1>7, <1>11 DEF NextValue, New
  <2>3. Lies(EmptySlice, arrays) /\ Cells(arrays, EmptySlice) = <<>> /\ EmptySlice.cap = EmptySlice.len
    BY <1>1, EmptyLies DEF EmptySlice, Slice
  <2>4. /\ Grows(arrays, y.store) /\ Fresh(y, arrays) /\ Lies(y.slice, y.store)
        /\ Cells(y.store, y.slice) = <<>> \o New(2)
    <3>1. New(2) \in Seq(Cell) /\ Len(New(2)) > 0 /\ y = Appending(arrays, EmptySlice, New(2))
      BY <1>6, <2>1
    <3> QED BY <1>1, <2>3, <3>1, AppendingToFull, Zenon
  <2>5. <<>> \o New(2) = New(2)
    BY <1>6
  <2> QED BY <2>2, <2>4, <2>5 DEF Yields, y, new
<1>12. CASE Rule = "reset"
  <2>1. y = [store |-> arrays, slice |-> EmptySlice]
    BY <1>12 DEF y, RuleYields
  <2>2. new = <<>>
    BY <1>2, <1>5, <1>7, <1>12 DEF NextValue
  <2>3. y.store = arrays /\ y.slice = EmptySlice
    BY <2>1
  <2>4. Lies(EmptySlice, arrays) /\ Cells(arrays, EmptySlice) = <<>>
    BY <1>1, EmptyLies
  <2> QED BY <1>4, <2>2, <2>3, <2>4 DEF Yields, y, new
<1>13. CASE Rule = "before"
  <2>1. Phase = "end"
    BY <1>2, <1>13
  <2>2. y = [store |-> arrays, slice |-> before[Here]]
    BY <1>13 DEF y, RuleYields
  <2>3. new = ValueAfter[BroughtBack(event + 1)]
    BY <1>2, <1>5, <1>7, <1>13 DEF NextValue
  <2>4. y.store = arrays /\ y.slice = before[Here]
    BY <2>2
  <2>5. Lies(before[Here], arrays) /\ Items(before[Here]) = new
    BY <2>1, <2>3, BeforeIsThere
  <2>6. Cells(arrays, before[Here]) = new
    BY <1>1, <2>5, ItemsAre
  <2> QED BY <1>4, <1>13, <2>1, <2>4, <2>5, <2>6 DEF Yields, y, new
<1> QED BY <1>2, <1>8, <1>9, <1>10, <1>11, <1>12, <1>13 DEF RuleKinds, y

-----------------------------------------------------------------------------
(* What extend stores. *)

\* The recorded slices it does not write to: those that do not reach behind the value.
Spares(e) ==
    /\ e.store \in Seq(Seq(Cell)) /\ Len(e.store) >= Len(arrays)
    /\ \A x \in 1 .. Len(arrays) : Len(e.store[x]) = Len(arrays[x])
    /\ \A r : Lies(r, arrays)
                /\ (value.cap > value.len /\ r.array = value.array => r.len <= value.len)
                => Lies(r, e.store) /\ Cells(e.store, r) = Cells(arrays, r)

\* The value stays as it is.
KeptAs(e) == e.slice = value /\ e.store = arrays /\ e.charged = charged

\* The value grows, in its array or in a larger one.
GrownAs(e) ==
    /\ value.len > 0 /\ e.slice.len > value.len
    /\ e.charged = charged + e.slice.len - value.len
    /\ \/ e.slice.array = value.array /\ e.slice.cap = value.cap
       \/ /\ e.slice.array \in Len(arrays) + 1 .. Len(e.store)
          /\ e.slice.len > value.cap /\ Len(e.store[e.slice.array]) = e.slice.cap
          /\ e.slice.cap = IF e.slice.len > 2 * value.cap THEN e.slice.len ELSE 2 * value.cap

\* The value is stored with no room behind it.
AnewAs(e) ==
    /\ e.slice.cap = e.slice.len
    /\ e.charged = HeldForOther(e.slice)
    /\ \/ e.slice = EmptySlice
       \/ Phase = "end" /\ Rule = "before" /\ e.slice.array = before[Here].array
       \/ Fresh(e, arrays)

Stores(e) ==
    /\ Spares(e) /\ Lies(e.slice, e.store) /\ e.tip = e.slice
    /\ Cells(e.store, e.slice) = ValueAfter[event + 1]
    /\ KeptAs(e) \/ GrownAs(e) \/ AnewAs(e)

LEMMA GrowsSpares ==
    ASSUME arrays \in Seq(Seq(Cell)), NEW e, Grows(arrays, e.store)
    PROVE  Spares(e)
BY StillLies DEF Spares, Grows

\* A value that a rule yields and that starts where the value does, and is as long, is
\* the value: a node that restores its value meets it as it was or not at all.
LEMMA SameIsValue ==
    ASSUME AccumTypes, ScopesKept, RecordedStand, event < Len(Events), NEW y, Yields(y),
           y.slice.len = value.len, y.slice.len = 0 \/ SameStart(y.slice, value)
    PROVE  y.slice = value /\ y.store = arrays
<1>1. /\ walk \in Walks /\ Lies(value, arrays) /\ arrays \in Seq(Seq(Cell))
      /\ Len(arrays) \in Nat /\ value.len \in Nat
  BY DEF AccumTypes, Lies, Slices
<1>2. CASE y.slice.len = 0
  <2>1. value = EmptySlice /\ y.slice = EmptySlice
    BY <1>1, <1>2 DEF Lies, Yields
  <2>2. ~Fresh(y, arrays)
    BY <1>2 DEF Fresh
  <2> QED BY <2>1, <2>2 DEF Yields
<1>3. CASE y.slice.len # 0
  <2>1. y.slice.array = value.array /\ value.len > 0
    BY <1>1, <1>3 DEF SameStart
  <2>2. value.array \in 1 .. Len(arrays)
    BY <1>1, <2>1 DEF Lies
  <2>3. ~Fresh(y, arrays)
    BY <1>1, <2>1, <2>2 DEF Fresh, Yields, Grows
  <2>4. y.slice # EmptySlice
    BY <1>3 DEF EmptySlice, Slice
  <2>5. CASE Phase = "end" /\ Rule = "before" /\ y.slice = before[Here] /\ y.store = arrays
    <3>1. /\ Here \in Nodes /\ event + 1 \in DOMAIN Events /\ event \in Nat
          /\ Events[event + 1] = <<"end", Here>>
      BY <2>5, NextEvent
    <3>2. Here \in Restoring(walk)
      <4>1. Rule = walk.end[Here]
        BY <2>5 DEF Rule, RuleOfEvent, Here, Phase
      <4>2. DOMAIN walk.end = Nodes
        BY <1>1, WalkIs
      <4> QED BY <2>5, <3>1, <4>1, <4>2 DEF Restoring
    <3> DEFINE i == Entered(Here)
    <3>3. i \in DOMAIN Events /\ Events[i] = <<"start", Here>> /\ i < event + 1
      BY <1>1, <3>1, EnteredIs
    <3> HIDE DEF i
    <3>4. i \in Nat
      <4>1. DOMAIN Events = 1 .. Len(Events)
        BY <1>1, WalkIs
      <4> QED BY <3>3, <4>1
    <3>5. i <= event /\ event < event + 1
      BY <3>1, <3>3, <3>4
    <3>6. \/ value = before[Here] \/ value.array # before[Here].array
          \/ value.len > before[Here].len
      BY <3>1, <3>2, <3>3, <3>5 DEF ScopesKept
    <3> QED BY <1>1, <2>1, <2>5, <3>6
  <2> QED BY <2>3, <2>4, <2>5 DEF Yields
<1> QED BY <1>2, <1>3

LEMMA ExtendedKept ==
    ASSUME AccumTypes, ScopesKept, RecordedStand, event < Len(Events), NEW y, Yields(y),
           y.slice.len = value.len, y.slice.len = 0 \/ SameStart(y.slice, value)
    PROVE  Stores(Extended(y))
<1> DEFINE e == Extended(y)
<1>1. e = [store |-> y.store, slice |-> y.slice, tip |-> tip, charged |-> charged]
  BY DEF Extended
<1>2. y.slice = value /\ y.store = arrays
  BY SameIsValue
<1>3. tip = value /\ arrays \in Seq(Seq(Cell)) /\ Lies(value, arrays)
  BY DEF AccumTypes
<1> HIDE DEF e
<1>4. e.store = arrays /\ e.slice = value /\ e.tip = value /\ e.charged = charged
  BY <1>1, <1>2, <1>3
<1>5. Spares(e)
  <2>1. Grows(arrays, e.store)
    BY <1>3, <1>4 DEF Grows
  <2> QED BY <1>3, <2>1, GrowsSpares
<1>6. Cells(e.store, e.slice) = ValueAfter[event + 1]
  BY <1>2, <1>4 DEF Yields
<1> QED BY <1>3, <1>4, <1>5, <1>6 DEF Stores, KeptAs, e

\* A sequence is its beginning and the rest.
LEMMA Split ==
    ASSUME NEW S, NEW s \in Seq(S), NEW n \in Nat, n < Len(s)
    PROVE  /\ SubSeq(s, n + 1, Len(s)) \in Seq(S) /\ Len(SubSeq(s, n + 1, Len(s))) = Len(s) - n
           /\ SubSeq(s, 1, n) \o SubSeq(s, n + 1, Len(s)) = s
<1> DEFINE front == SubSeq(s, 1, n)
           back == SubSeq(s, n + 1, Len(s))
<1>1. front \in Seq(S) /\ Len(front) = n /\ \A i \in 1 .. n : front[i] = s[i]
  OBVIOUS
<1>2. back \in Seq(S) /\ Len(back) = Len(s) - n
      /\ \A i \in 1 .. Len(s) - n : back[i] = s[i + n]
  OBVIOUS
<1> HIDE DEF front, back
<1>3. Len(s) \in Nat
  OBVIOUS
<1> DEFINE both == front \o back
<1>4. /\ both \in Seq(S) /\ Len(both) = Len(s)
      /\ \A i \in 1 .. Len(s) : (i <= n => both[i] = front[i]) /\ (i > n => both[i] = back[i - n])
  <2>1. front \in Seq(S) /\ back \in Seq(S) /\ Len(front) = n /\ Len(back) = Len(s) - n
    BY <1>1, <1>2
  <2>2. both \in Seq(S) /\ Len(both) = Len(front) + Len(back)
        /\ \A i \in 1 .. Len(front) + Len(back) :
              both[i] = IF i <= Len(front) THEN front[i] ELSE back[i - Len(front)]
    BY <2>1
  <2> HIDE DEF both
  <2>3. Len(front) + Len(back) = Len(s)
    BY <1>3, <2>1
  <2>4. \A i \in 1 .. Len(s) : both[i] = IF i <= n THEN front[i] ELSE back[i - n]
    BY <2>1, <2>2, <2>3
  <2>5. \A i \in 1 .. Len(s) : i > n => ~(i <= n)
    BY <1>3
  <2> QED BY <2>2, <2>3, <2>4, <2>5
<1> HIDE DEF both
<1>5. \A i \in 1 .. Len(s) : both[i] = s[i]
  <2> TAKE i \in 1 .. Len(s)
  <2>1. CASE i <= n
    <3>1. i \in 1 .. n
      BY <1>3, <2>1
    <3> QED BY <1>1, <1>4, <2>1, <3>1
  <2>2. CASE i > n
    <3>1. both[i] = back[i - n] /\ i - n \in 1 .. Len(s) - n /\ (i - n) + n = i
      BY <1>3, <1>4, <2>2
    <3>2. back[i - n] = s[(i - n) + n]
      BY <1>2, <3>1
    <3> QED BY <3>1, <3>2
  <2> QED BY <2>1, <2>2
<1>6. both = s
  <2>1. both = [i \in 1 .. Len(s) |-> both[i]] /\ s = [i \in 1 .. Len(s) |-> s[i]]
    BY <1>4, SequenceIs
  <2> QED BY <1>5, <2>1
<1> QED BY <1>2, <1>6 DEF both, front, back

\* Appending to the value writes over nothing that does not reach behind it.
LEMMA AppendingSpares ==
    ASSUME arrays \in Seq(Seq(Cell)), NEW store, Grows(arrays, store), Lies(value, arrays),
           NEW items \in Seq(Cell), Len(items) > 0,
           NEW e, e.store = Appending(store, value, items).store
    PROVE  Spares(e)
<1> DEFINE a == Appending(store, value, items)
<1>1. store \in Seq(Seq(Cell)) /\ Lies(value, store)
      /\ Len(store) \in Nat /\ Len(arrays) \in Nat /\ Len(store) >= Len(arrays)
  BY StillLies DEF Grows
<1>2. InPlace(store, value, items, a) \/ InNewArray(store, value, items, a)
  BY <1>1, AppendingDoes
<1> HIDE DEF a
<1>3. CASE InNewArray(store, value, items, a)
  <2>1. Grows(arrays, a.store)
    BY <1>1, <1>3 DEF InNewArray, Grows
  <2> QED BY <2>1, GrowsSpares DEF a
<1>4. CASE InPlace(store, value, items, a)
  <2>1. value.cap > value.len /\ value.len \in Nat
    BY <1>4 DEF InPlace, Lies, Slices
  <2>2. /\ a.store \in Seq(Seq(Cell)) /\ Len(a.store) = Len(store)
        /\ \A x \in 1 .. Len(arrays) :
              /\ Len(a.store[x]) = Len(arrays[x])
              /\ \A i \in 1 .. Len(arrays[x]) :
                    (x # value.array \/ i <= value.len) => a.store[x][i] = arrays[x][i]
    <3>1. \A x \in 1 .. Len(arrays) : x \in 1 .. Len(store) /\ store[x] = arrays[x]
      BY <1>1 DEF Grows
    <3>2. /\ a.store \in Seq(Seq(Cell)) /\ Len(a.store) = Len(store)
          /\ \A x \in 1 .. Len(store) :
                /\ Len(a.store[x]) = Len(store[x])
                /\ \A i \in 1 .. Len(store[x]) :
                      (x # value.array \/ i <= value.len) => a.store[x][i] = store[x][i]
      BY <1>4, Zenon DEF InPlace
    <3> QED BY <3>1, <3>2
  <2>3. ASSUME NEW r, Lies(r, arrays), r.array = value.array => r.len <= value.len
        PROVE  Lies(r, a.store) /\ Cells(a.store, r) = Cells(arrays, r)
    <3>1. r.len \in Nat /\ r.cap \in Nat /\ r.len <= r.cap
      BY <2>3 DEF Lies, Slices
    <3>2. CASE r.len = 0
      <4>1. 1 .. r.len = {}
        BY <3>2
      <4> QED BY <2>3, <3>2, <4>1 DEF Lies, Cells
    <3>3. CASE r.len > 0
      <4>1. r.array \in 1 .. Len(arrays) /\ r.cap <= Len(arrays[r.array])
        BY <2>3, <3>3 DEF Lies
      <4>2. Len(arrays[r.array]) \in Nat
        BY <4>1
      <4>3. \A i \in 1 .. r.len : i \in 1 .. Len(arrays[r.array])
                                  /\ (r.array # value.array \/ i <= value.len)
        BY <2>1, <2>3, <3>1, <4>1, <4>2
      <4>4. \A i \in 1 .. r.len : a.store[r.array][i] = arrays[r.array][i]
        BY <2>2, <4>1, <4>3
      <4>5. Cells(a.store, r) = Cells(arrays, r)
        BY <4>4 DEF Cells
      <4>6. r.array \in 1 .. Len(a.store)
        BY <1>1, <2>2, <4>1
      <4> QED BY <2>2, <2>3, <3>3, <4>1, <4>5, <4>6 DEF Lies
    <3> QED BY <3>1, <3>2, <3>3
  <2>4. e.store = a.store
    BY DEF a
  <2> QED BY <1>1, <2>1, <2>2, <2>3, <2>4 DEF Spares
<1> QED BY <1>2, <1>3, <1>4

LEMMA ExtendedGrown ==
    ASSUME AccumTypes, NEW y, Yields(y), value.len > 0, y.slice.len > value.len,
           Cells(y.store, value) = SubSeq(Cells(y.store, y.slice), 1, value.len),
           NEW e,
           LET a == Appending(y.store, value, SubSeq(Cells(y.store, y.slice),
                                                     value.len + 1, y.slice.len))
           IN  e = [store |-> a.store, slice |-> a.slice, tip |-> a.slice,
                    charged |-> charged + y.slice.len - value.len]
    PROVE  Stores(e)
<1> DEFINE whole == Cells(y.store, y.slice)
           rest == SubSeq(whole, value.len + 1, y.slice.len)
           a == Appending(y.store, value, rest)
<1>1. /\ arrays \in Seq(Seq(Cell)) /\ Lies(value, arrays) /\ Grows(arrays, y.store)
      /\ Lies(y.slice, y.store) /\ whole = ValueAfter[event + 1]
      /\ value.len \in Nat /\ value.cap \in Nat /\ y.slice.len \in Nat /\ Len(arrays) \in Nat
  BY DEF AccumTypes, Yields, Lies, Slices
<1>2. y.store \in Seq(Seq(Cell)) /\ Len(y.store) >= Len(arrays) /\ Len(y.store) \in Nat
  BY <1>1 DEF Grows
<1>3. Lies(value, y.store)
  BY <1>1, StillLies
<1>4. whole \in Seq(Cell) /\ Len(whole) = y.slice.len
  BY <1>1, <1>2, CellsAre
<1>5. Cells(y.store, value) = SubSeq(whole, 1, value.len)
  OBVIOUS
<1>6. e = [store |-> a.store, slice |-> a.slice, tip |-> a.slice,
           charged |-> charged + y.slice.len - value.len]
  OBVIOUS
<1> HIDE DEF whole
<1>7. /\ rest \in Seq(Cell) /\ Len(rest) = y.slice.len - value.len
      /\ SubSeq(whole, 1, value.len) \o rest = whole
  BY <1>1, <1>4, Split
<1> HIDE DEF rest
<1>8. /\ InPlace(y.store, value, rest, a) \/ InNewArray(y.store, value, rest, a)
      /\ Lies(a.slice, a.store) /\ Cells(a.store, a.slice) = whole
  <2>1. Len(rest) > 0
    BY <1>1, <1>7
  <2> QED BY <1>2, <1>3, <1>5, <1>7, <2>1, AppendingDoes
<1>9. e.store = a.store /\ e.slice = a.slice /\ e.tip = a.slice
      /\ e.charged = charged + y.slice.len - value.len
  BY <1>6
<1>10. Spares(e)
  <2>1. Len(rest) > 0
    BY <1>1, <1>7
  <2> QED BY <1>1, <1>7, <1>9, <2>1, AppendingSpares
<1> HIDE DEF a
<1>11. value.len + Len(rest) = y.slice.len
  BY <1>1, <1>7
<1>12. GrownAs(e)
  <2>1. CASE InPlace(y.store, value, rest, a)
    <3>1. e.slice = Slice(value.array, y.slice.len, value.cap)
      BY <1>9, <1>11, <2>1 DEF InPlace
    <3>2. e.slice.array = value.array /\ e.slice.cap = value.cap /\ e.slice.len = y.slice.len
      BY <3>1 DEF Slice
    <3> QED BY <1>9, <3>2 DEF GrownAs
  <2>2. CASE InNewArray(y.store, value, rest, a)
    <3> DEFINE cap == IF y.slice.len > 2 * value.cap THEN y.slice.len ELSE 2 * value.cap
    <3>1. /\ e.slice = Slice(Len(y.store) + 1, y.slice.len, cap)
          /\ Len(e.store) = Len(y.store) + 1 /\ Len(e.store[Len(y.store) + 1]) = cap
          /\ y.slice.len > value.cap
      BY <1>9, <1>11, <2>2 DEF InNewArray
    <3>2. /\ e.slice.array = Len(y.store) + 1 /\ e.slice.cap = cap
          /\ e.slice.len = y.slice.len
      BY <3>1 DEF Slice
    <3>3. e.slice.array \in Len(arrays) + 1 .. Len(e.store)
      BY <1>1, <1>2, <3>1, <3>2
    <3> QED BY <1>9, <3>1, <3>2, <3>3 DEF GrownAs
  <2> QED BY <1>8, <2>1, <2>2
<1> QED BY <1>1, <1>8, <1>9, <1>10, <1>12 DEF Stores

LEMMA ExtendedAnew ==
    ASSUME AccumTypes, NEW y, Yields(y), y.slice # value,
           NEW e, e = [store |-> y.store, slice |-> Clamped(y.slice), tip |-> Clamped(y.slice),
                       charged |-> HeldForOther(y.slice)]
    PROVE  Stores(e)
<1> DEFINE next == y.slice
<1>1. /\ arrays \in Seq(Seq(Cell)) /\ Grows(arrays, y.store) /\ Lies(next, y.store)
      /\ next.len \in Nat /\ next.cap \in Nat /\ next.array \in Nat
  BY DEF AccumTypes, Yields, Lies, Slices
<1>2. /\ e.store = y.store /\ e.slice = Clamped(next) /\ e.tip = Clamped(next)
      /\ e.charged = HeldForOther(next)
  OBVIOUS
<1>3. e.slice.array = next.array /\ e.slice.len = next.len /\ e.slice.cap = next.len
      /\ e.slice \in Slices
  BY <1>1, <1>2 DEF Clamped, Slice, Slices
<1>4. Spares(e)
  BY <1>1, <1>2, GrowsSpares
<1>5. Cells(e.store, e.slice) = ValueAfter[event + 1]
  BY <1>2, <1>3 DEF Yields, Cells
<1>6. next = EmptySlice => e.slice = EmptySlice
  BY <1>2 DEF Clamped, EmptySlice, Slice
<1>7. Lies(e.slice, e.store)
  <2>1. next.len = 0 => e.slice = EmptySlice
    BY <1>1, <1>6 DEF Lies
  <2>2. next.len > 0 => next.array \in 1 .. Len(e.store) /\ next.len <= Len(e.store[next.array])
    <3>1. SUFFICES ASSUME next.len > 0
                   PROVE  next.array \in 1 .. Len(e.store) /\ next.len <= Len(e.store[next.array])
      OBVIOUS
    <3>2. next.array \in 1 .. Len(y.store) /\ next.cap <= Len(y.store[next.array])
          /\ next.len <= next.cap
      BY <1>1, <3>1 DEF Lies
    <3>3. y.store[next.array] \in Seq(Cell)
      BY <1>1, <3>2 DEF Grows
    <3>4. Len(y.store[next.array]) \in Nat
      BY <3>3
    <3> QED BY <1>1, <1>2, <3>2, <3>4
  <2> QED BY <1>1, <1>3, <2>1, <2>2 DEF Lies
<1>8. AnewAs(e)
  <2>1. e.charged = HeldForOther(e.slice)
    BY <1>2, <1>3 DEF HeldForOther
  <2>2. \/ next = EmptySlice
        \/ Phase = "end" /\ Rule = "before" /\ next = before[Here]
        \/ Fresh(y, arrays)
    BY DEF Yields
  <2>3. Fresh(y, arrays) => Fresh(e, arrays)
    BY <1>2, <1>3 DEF Fresh
  <2> QED BY <1>3, <1>6, <2>1, <2>2, <2>3 DEF AnewAs
<1> QED BY <1>2, <1>4, <1>5, <1>7, <1>8 DEF Stores

\* What extend stores is the value after the event, by one of its three ways.
LEMMA ExtendedStores ==
    ASSUME AccumTypes, ScopesKept, RecordedStand, event < Len(Events), NEW y, Yields(y)
    PROVE  Stores(Extended(y))
<1> DEFINE next == y.slice
           same == next.len = value.len /\ (next.len = 0 \/ SameStart(next, value))
           Found(v) == IF v.len = 0 THEN <<>> ELSE SubSeq(y.store[v.array], 1, v.len)
           grown == Appending(y.store, value, SubSeq(Found(next), value.len + 1, next.len))
           grows == /\ value.len > 0 /\ next.len > value.len
                    /\ tip.len = value.len /\ SameStart(tip, value)
                    /\ Found(value) = SubSeq(Found(next), 1, value.len)
<1>1. /\ arrays \in Seq(Seq(Cell)) /\ Lies(value, arrays) /\ Grows(arrays, y.store)
      /\ Lies(next, y.store) /\ y.store \in Seq(Seq(Cell))
  BY DEF AccumTypes, Yields, Grows
<1>2. Found(next) = Cells(y.store, next) /\ Found(value) = Cells(y.store, value)
  BY <1>1, StillLies, CellsAre
<1>3. CASE same
  BY <1>3, ExtendedKept
<1>4. CASE ~same /\ grows
  <2>1. Extended(y) = [store |-> grown.store, slice |-> grown.slice, tip |-> grown.slice,
                       charged |-> charged + next.len - value.len]
    BY <1>4 DEF Extended
  <2>2. Cells(y.store, value) = SubSeq(Cells(y.store, next), 1, value.len)
        /\ value.len > 0 /\ next.len > value.len
    BY <1>2, <1>4
  <2>3. grown = Appending(y.store, value, SubSeq(Cells(y.store, next), value.len + 1, next.len))
    BY <1>2
  <2> HIDE DEF grown
  <2> QED BY <2>1, <2>2, <2>3, ExtendedGrown
<1>5. CASE ~same /\ ~grows
  <2>1. Extended(y) = [store |-> y.store, slice |-> Clamped(next), tip |-> Clamped(next),
                       charged |-> HeldForOther(next)]
    BY <1>5 DEF Extended
  <2>2. next # value
    <3>1. next = value => same
      BY DEF SameStart
    <3> QED BY <1>5, <3>1
  <2> QED BY <2>1, <2>2, ExtendedAnew
<1> QED BY <1>3, <1>4, <1>5

-----------------------------------------------------------------------------
(* A visit. *)

LEMMA WalkKept ==
    ASSUME walk' = walk
    PROVE  /\ Events' = Events /\ Nodes' = Nodes /\ Restoring(walk)' = Restoring(walk)
           /\ ValueAfter' = ValueAfter
BY DEF Events, Nodes, Restoring, ValueAfter, RuleOfEvent, BroughtBack, Entered

\* A node is visited and e is what is stored.
Visited(e, phase) ==
    /\ event < Len(Events) /\ Phase = phase /\ Stores(e) /\ e.charged <= MaxStored
    /\ arrays' = e.store /\ value' = e.slice /\ tip' = e.tip /\ charged' = e.charged
    /\ before' = IF phase = "start"
                 THEN [n \in DOMAIN before \cup {Here} |-> IF n = Here THEN e.slice ELSE before[n]]
                 ELSE before
    /\ after' = IF phase = "end"
                THEN [n \in DOMAIN after \cup {Here} |-> IF n = Here THEN e.slice ELSE after[n]]
                ELSE after
    /\ event' = event + 1 /\ walk' = walk /\ outcome' = outcome

LEMMA VisitDoes ==
    ASSUME AccumInv, NEW phase, Visit(phase)
    PROVE  \/ Visited(Extended(RuleYields), phase)
           \/ outcome' = "refused" /\ UNCHANGED <<walk, event, arrays, value, tip, charged, before, after>>
<1> DEFINE e == Extended(RuleYields)
<1>1. Yields(RuleYields)
  BY RuleYieldsNext DEF AccumInv, Visit
<1>2. Stores(e)
  BY <1>1, ExtendedStores DEF AccumInv, Visit
<1>3. e.charged \in Int
  <2>1. charged \in Nat /\ value.len \in Nat
    BY WalksAssumption DEF AccumInv, AccumTypes, Lies, Slices
  <2>2. e.slice.len \in Nat
    BY <1>2 DEF Stores, Lies, Slices
  <2> HIDE DEF e
  <2> QED BY <1>2, <2>1, <2>2 DEF Stores, KeptAs, GrownAs, AnewAs, HeldForOther
<1> HIDE DEF e
<1>4. CASE e.charged > MaxStored
  BY <1>4 DEF Visit, e
<1>5. CASE ~(e.charged > MaxStored)
  <2>1. e.charged <= MaxStored
    BY <1>3, <1>5, WalksAssumption
  <2> QED BY <1>2, <1>5, <2>1 DEF Visit, Visited, e
<1> QED BY <1>4, <1>5 DEF e

\* The events behind, one later.
LEMMA OneMoreBehind ==
    ASSUME NEW n \in Nat
    PROVE  \A k : k \in 1 .. n + 1 <=> (k \in 1 .. n \/ k = n + 1)
OBVIOUS

LEMMA VisitedRecords ==
    ASSUME AccumTypes, NEW phase \in {"start", "end"}, NEW e, Visited(e, phase)
    PROVE  /\ \A n \in DOMAIN before : n \in DOMAIN before' /\ before'[n] = before[n]
           /\ \A n \in DOMAIN after : n \in DOMAIN after' /\ after'[n] = after[n]
           /\ phase = "start" => Here \in DOMAIN before' /\ before'[Here] = e.slice
           /\ phase = "end" => Here \in DOMAIN after' /\ after'[Here] = e.slice
           /\ Recorded' = Recorded \cup {e.slice}
           /\ (before = [n \in DOMAIN before |-> before[n]])'
           /\ (after = [n \in DOMAIN after |-> after[n]])'
           /\ (DOMAIN before = {n \in Nodes : \E k \in 1 .. event : Events[k] = <<"start", n>>})'
           /\ (DOMAIN after = {n \in Nodes : \E k \in 1 .. event : Events[k] = <<"end", n>>})'
<1>1. /\ walk \in Walks /\ event \in Nat /\ event + 1 \in DOMAIN Events
      /\ Here \in Nodes /\ Events[event + 1] = <<phase, Here>>
      /\ DOMAIN Events = 1 .. Len(Events) /\ Len(Events) \in Nat
  BY NextEvent, WalkIs DEF AccumTypes, Visited
<1>2. /\ DOMAIN before = {n \in Nodes : \E k \in 1 .. event : Events[k] = <<"start", n>>}
      /\ DOMAIN after = {n \in Nodes : \E k \in 1 .. event : Events[k] = <<"end", n>>}
      /\ before = [n \in DOMAIN before |-> before[n]] /\ after = [n \in DOMAIN after |-> after[n]]
  BY DEF AccumTypes
<1>3. Events' = Events /\ Nodes' = Nodes /\ event' = event + 1
  BY WalkKept DEF Visited
<1>4. \A k \in 1 .. event : k \in DOMAIN Events /\ k # event + 1
  <2>1. event + 1 \in 1 .. Len(Events)
    BY <1>1
  <2> QED BY <1>1, <2>1
<1>5. \A k \in 1 .. event : Events[k] # <<phase, Here>>
  BY <1>1, <1>4, WalkIs
<1>6. \A k : k \in 1 .. event + 1 <=> (k \in 1 .. event \/ k = event + 1)
  BY <1>1, OneMoreBehind
<1>7. CASE phase = "start"
  <2>1. /\ before' = [n \in DOMAIN before \cup {Here} |-> IF n = Here THEN e.slice ELSE before[n]]
        /\ after' = after
    BY <1>7 DEF Visited
  <2>2. Here \notin DOMAIN before
    BY <1>2, <1>5, <1>7
  <2>3. DOMAIN before' = DOMAIN before \cup {Here} /\ before'[Here] = e.slice
        /\ \A n \in DOMAIN before : before'[n] = before[n]
    BY <2>1, <2>2
  <2>4. (DOMAIN before = {n \in Nodes : \E k \in 1 .. event : Events[k] = <<"start", n>>})'
    <3>1. DOMAIN before' = {n \in Nodes : \E k \in 1 .. event + 1 : Events[k] = <<"start", n>>}
      BY <1>1, <1>2, <1>6, <1>7, <2>3
    <3> QED BY <1>3, <3>1
  <2>5. (DOMAIN after = {n \in Nodes : \E k \in 1 .. event : Events[k] = <<"end", n>>})'
    <3>1. DOMAIN after = {n \in Nodes : \E k \in 1 .. event + 1 : Events[k] = <<"end", n>>}
      <4>1. \A n : Events[event + 1] # <<"end", n>>
        BY <1>1, <1>7
      <4> QED BY <1>2, <1>6, <4>1
    <3> QED BY <1>3, <2>1, <3>1
  <2>6. Recorded' = Recorded \cup {e.slice}
    BY <2>1, <2>2, <2>3 DEF Recorded
  <2>7. (before = [n \in DOMAIN before |-> before[n]])'
    BY <2>1, <2>3
  <2>8. (after = [n \in DOMAIN after |-> after[n]])'
    BY <1>2, <2>1
  <2> QED BY <1>7, <2>1, <2>3, <2>4, <2>5, <2>6, <2>7, <2>8
<1>8. CASE phase = "end"
  <2>1. /\ after' = [n \in DOMAIN after \cup {Here} |-> IF n = Here THEN e.slice ELSE after[n]]
        /\ before' = before
    BY <1>8 DEF Visited
  <2>2. Here \notin DOMAIN after
    BY <1>2, <1>5, <1>8
  <2>3. DOMAIN after' = DOMAIN after \cup {Here} /\ after'[Here] = e.slice
        /\ \A n \in DOMAIN after : after'[n] = after[n]
    BY <2>1, <2>2
  <2>4. (DOMAIN after = {n \in Nodes : \E k \in 1 .. event : Events[k] = <<"end", n>>})'
    <3>1. DOMAIN after' = {n \in Nodes : \E k \in 1 .. event + 1 : Events[k] = <<"end", n>>}
      BY <1>1, <1>2, <1>6, <1>8, <2>3
    <3> QED BY <1>3, <3>1
  <2>5. (DOMAIN before = {n \in Nodes : \E k \in 1 .. event : Events[k] = <<"start", n>>})'
    <3>1. DOMAIN before = {n \in Nodes : \E k \in 1 .. event + 1 : Events[k] = <<"start", n>>}
      <4>1. \A n : Events[event + 1] # <<"start", n>>
        BY <1>1, <1>8
      <4> QED BY <1>2, <1>6, <4>1
    <3> QED BY <1>3, <2>1, <3>1
  <2>6. Recorded' = Recorded \cup {e.slice}
    BY <2>1, <2>2, <2>3 DEF Recorded
  <2>7. (after = [n \in DOMAIN after |-> after[n]])'
    BY <2>1, <2>3
  <2>8. (before = [n \in DOMAIN before |-> before[n]])'
    BY <1>2, <2>1
  <2> QED BY <1>8, <2>1, <2>3, <2>4, <2>5, <2>6, <2>7, <2>8
<1> QED BY <1>7, <1>8

\* No value recorded is written to.
LEMMA RecordedSpared ==
    ASSUME AccumInv, NEW phase \in {"start", "end"}, NEW e, Visited(e, phase), NEW r \in Recorded
    PROVE  /\ Lies(r, arrays) /\ Lies(r, e.store)
           /\ Cells(e.store, r) = Cells(arrays, r)
           /\ r.len \in Nat /\ r.array \in 0 .. Len(arrays)
<1>1. Lies(r, arrays)
  BY DEF AccumInv, AccumTypes
<1>2. Lies(r, e.store) /\ Cells(e.store, r) = Cells(arrays, r)
  BY <1>1 DEF AccumInv, NothingBehind, Visited, Stores, Spares
<1>3. Len(arrays) \in Nat
  BY DEF AccumInv, AccumTypes
<1>4. r.len \in Nat /\ r.array \in 0 .. Len(arrays)
  <2>1. CASE r.len = 0
    BY <1>1, <1>3, <2>1 DEF Lies, EmptySlice, Slice
  <2>2. CASE r.len # 0
    BY <1>1, <1>3, <2>2 DEF Lies, Slices
  <2> QED BY <2>1, <2>2
<1> QED BY <1>1, <1>2, <1>4

LEMMA TypesKept ==
    ASSUME AccumInv, NEW phase \in {"start", "end"}, NEW e, Visited(e, phase)
    PROVE  AccumTypes'
<1>1. /\ walk \in Walks /\ event \in 0 .. Len(Events) /\ Len(Events) \in Nat
      /\ charged \in 0 .. MaxStored /\ MaxStored \in Nat
      /\ value.len \in Nat /\ outcome \in {"walking", "cached", "circular", "refused"}
  BY WalkIs, WalksAssumption DEF AccumInv, AccumTypes, Lies, Slices
<1>2. /\ Stores(e) /\ arrays' = e.store /\ value' = e.slice /\ tip' = e.slice /\ charged' = e.charged
      /\ event' = event + 1 /\ walk' = walk /\ outcome' = outcome /\ e.charged <= MaxStored
      /\ event < Len(Events)
  BY DEF Visited, Stores
<1>3. Recorded' = Recorded \cup {e.slice}
  BY VisitedRecords DEF AccumInv
<1>4. walk' \in Walks /\ event' \in 0 .. Len(Events')
  <2>1. Events' = Events
    BY <1>2, WalkKept
  <2> QED BY <1>1, <1>2, <2>1
<1>5. arrays' \in Seq(Seq(Cell)) /\ Lies(value', arrays')
  BY <1>2 DEF Stores, Spares
<1>6. \A r \in Recorded' : Lies(r, arrays')
  BY <1>2, <1>3, <1>5, RecordedSpared
<1>7. charged' \in 0 .. MaxStored'
  <2>1. e.slice.len \in Nat
    BY <1>2 DEF Stores, Lies, Slices
  <2>2. charged \in Nat
    BY <1>1
  <2>3. e.charged \in Nat
    <3>1. CASE KeptAs(e)
      BY <2>2, <3>1 DEF KeptAs
    <3>2. CASE GrownAs(e)
      BY <1>1, <2>1, <2>2, <3>2 DEF GrownAs
    <3>3. CASE AnewAs(e)
      BY <2>1, <2>2, <3>3 DEF AnewAs, HeldForOther
    <3> QED BY <1>2, <3>1, <3>2, <3>3 DEF Stores
  <2> QED BY <1>1, <1>2, <2>3
<1>8. (value.len > 0 => value \in Recorded)'
  BY <1>2, <1>3
<1>9. /\ (before = [n \in DOMAIN before |-> before[n]])'
      /\ (after = [n \in DOMAIN after |-> after[n]])'
      /\ (DOMAIN before = {n \in Nodes : \E k \in 1 .. event : Events[k] = <<"start", n>>})'
      /\ (DOMAIN after = {n \in Nodes : \E k \in 1 .. event : Events[k] = <<"end", n>>})'
  BY VisitedRecords DEF AccumInv
<1> QED BY <1>1, <1>2, <1>4, <1>5, <1>6, <1>7, <1>8, <1>9 DEF AccumTypes

LEMMA ValuesStand ==
    ASSUME AccumInv, NEW phase \in {"start", "end"}, NEW e, Visited(e, phase)
    PROVE  ValueStands' /\ RecordedStand'
<1>1. /\ walk \in Walks /\ event \in Nat /\ event + 1 \in DOMAIN Events
      /\ Events[event + 1] = <<phase, Here>> /\ arrays \in Seq(Seq(Cell))
      /\ DOMAIN Events = 1 .. Len(Events) /\ Len(Events) \in Nat /\ event < Len(Events)
      /\ \A k \in 1 .. Len(Events) : /\ Events[k][1] \in {"start", "end"} /\ Events[k][2] \in Nodes
                                     /\ Events[k] = <<Events[k][1], Events[k][2]>>
  BY NextEvent, WalkIs DEF AccumInv, AccumTypes, Visited
<1>2. /\ Events' = Events /\ ValueAfter' = ValueAfter /\ event' = event + 1
      /\ arrays' = e.store /\ value' = e.slice
  BY WalkKept DEF Visited
<1>3. /\ e.store \in Seq(Seq(Cell)) /\ Lies(e.slice, e.store)
      /\ Cells(e.store, e.slice) = ValueAfter[event + 1]
  BY DEF Visited, Stores, Spares
<1> DEFINE Found(v) == IF v.len = 0 THEN <<>> ELSE SubSeq(e.store[v.array], 1, v.len)
<1>4. \A v : Lies(v, e.store) => Found(v) = Cells(e.store, v)
  BY <1>3, CellsAre
<1>5. ValueStands'
  <2>1. Items(value)' = Found(e.slice)
    BY <1>2 DEF Items
  <2> HIDE DEF Found
  <2> QED BY <1>2, <1>3, <1>4, <2>1 DEF ValueStands
<1>6. \A k \in 1 .. event : k \in 1 .. Len(Events)
  BY <1>1
<1>7. ASSUME NEW k \in 1 .. event
      PROVE  Found(IF Events[k][1] = "start" THEN before'[Events[k][2]] ELSE after'[Events[k][2]])
                = ValueAfter[k]
  <2> DEFINE n == Events[k][2]
             r == IF Events[k][1] = "start" THEN before[n] ELSE after[n]
             later == IF Events[k][1] = "start" THEN before'[n] ELSE after'[n]
  <2>1. r \in Recorded /\ later = r
    <3>1. CASE Events[k][1] = "start"
      <4>1. n \in DOMAIN before
        BY <1>1, <1>6, <3>1 DEF AccumInv, AccumTypes
      <4> QED BY <3>1, <4>1, VisitedRecords DEF AccumInv, Recorded
    <3>2. CASE Events[k][1] = "end"
      <4>1. n \in DOMAIN after
        BY <1>1, <1>6, <3>2 DEF AccumInv, AccumTypes
      <4> QED BY <3>2, <4>1, VisitedRecords DEF AccumInv, Recorded
    <3> QED BY <1>1, <1>6, <3>1, <3>2
  <2>2. Items(r) = ValueAfter[k]
    BY DEF AccumInv, RecordedStand
  <2> HIDE DEF r, later, Found
  <2>3. Lies(r, arrays) /\ Lies(r, e.store) /\ Cells(e.store, r) = Cells(arrays, r)
    BY <2>1, RecordedSpared
  <2>4. Items(r) = Cells(arrays, r)
    BY <1>1, <2>3, ItemsAre
  <2>5. Found(later) = ValueAfter[k]
    BY <1>4, <2>1, <2>2, <2>3, <2>4
  <2> QED BY <2>5 DEF later, n
<1>8. Found(IF Events[event + 1][1] = "start" THEN before'[Events[event + 1][2]]
            ELSE after'[Events[event + 1][2]]) = ValueAfter[event + 1]
  <2>1. Events[event + 1][1] = phase /\ Events[event + 1][2] = Here
    BY <1>1
  <2>2. (IF phase = "start" THEN before'[Here] ELSE after'[Here]) = e.slice
    BY VisitedRecords DEF AccumInv
  <2> HIDE DEF Found
  <2> QED BY <1>3, <1>4, <2>1, <2>2
<1>9. RecordedStand'
  <2> HIDE DEF Found
  <2>1. \A k \in 1 .. event + 1 :
           Found(IF Events[k][1] = "start" THEN before'[Events[k][2]] ELSE after'[Events[k][2]])
              = ValueAfter[k]
    BY <1>1, <1>7, <1>8, OneMoreBehind
  <2> QED BY <1>2, <2>1 DEF RecordedStand, Items, Found
<1> QED BY <1>5, <1>9

LEMMA NothingBehindKept ==
    ASSUME AccumInv, NEW phase \in {"start", "end"}, NEW e, Visited(e, phase)
    PROVE  NothingBehind'
<1>1. /\ Recorded' = Recorded \cup {e.slice} /\ value' = e.slice
      /\ Lies(value, arrays) /\ Lies(e.slice, e.store) /\ Len(arrays) \in Nat
      /\ value.len \in Nat /\ value.cap \in Nat /\ e.slice.len \in Nat /\ e.slice.cap \in Nat
  <2>1. Recorded' = Recorded \cup {e.slice} /\ value' = e.slice
    BY VisitedRecords DEF AccumInv, Visited
  <2>2. Lies(value, arrays) /\ Lies(e.slice, e.store) /\ Len(arrays) \in Nat
    BY DEF AccumInv, AccumTypes, Visited, Stores
  <2> QED BY <2>1, <2>2 DEF Lies, Slices
<1>2. SUFFICES ASSUME e.slice.cap > e.slice.len, NEW r \in Recorded, r.array = e.slice.array
               PROVE  r.len <= e.slice.len
  BY <1>1 DEF NothingBehind
<1>3. r.len \in Nat /\ r.array \in 0 .. Len(arrays)
  BY RecordedSpared
<1>4. CASE KeptAs(e)
  BY <1>2, <1>4 DEF KeptAs, AccumInv, NothingBehind
<1>5. CASE GrownAs(e)
  <2>1. CASE e.slice.array = value.array /\ e.slice.cap = value.cap
    <3>1. value.cap > value.len /\ r.array = value.array
      BY <1>1, <1>2, <1>5, <2>1 DEF GrownAs
    <3>2. r.len <= value.len
      BY <3>1 DEF AccumInv, NothingBehind
    <3> QED BY <1>1, <1>3, <1>5, <3>2 DEF GrownAs
  <2>2. CASE e.slice.array \in Len(arrays) + 1 .. Len(e.store)
    BY <1>1, <1>2, <1>3, <2>2
  <2> QED BY <1>5, <2>1, <2>2 DEF GrownAs
<1>6. CASE AnewAs(e)
  BY <1>1, <1>2, <1>6 DEF AnewAs
<1> QED BY <1>4, <1>5, <1>6 DEF Visited, Stores

LEMMA ScopesKeptKept ==
    ASSUME AccumInv, RestoredApart(walk), NEW phase \in {"start", "end"}, NEW e, Visited(e, phase)
    PROVE  ScopesKept'
<1>1. /\ walk \in Walks /\ event \in Nat /\ event + 1 \in DOMAIN Events
      /\ Here \in Nodes /\ Events[event + 1] = <<phase, Here>> /\ DOMAIN Events = 1 .. Len(Events)
  BY NextEvent, WalkIs DEF AccumInv, AccumTypes, Visited
<1>2. /\ Events' = Events /\ Restoring(walk)' = Restoring(walk) /\ event' = event + 1
      /\ value' = e.slice
  BY WalkKept DEF Visited
<1>3. SUFFICES ASSUME NEW m \in Restoring(walk), NEW i \in DOMAIN Events, NEW k \in DOMAIN Events,
                      Events[i] = <<"start", m>>, Events[k] = <<"end", m>>,
                      i <= event + 1, event + 1 < k
               PROVE  \/ e.slice = before'[m] \/ e.slice.array # before'[m].array
                      \/ e.slice.len > before'[m].len
  BY <1>2 DEF ScopesKept
<1>4. i \in Nat /\ k \in Nat
  BY <1>1
<1>5. CASE i = event + 1
  <2>1. phase = "start" /\ Here = m
    BY <1>1, <1>3, <1>5
  <2> QED BY <2>1, VisitedRecords DEF AccumInv
<1>6. CASE i # event + 1
  <2>1. i <= event /\ event < k /\ i < event + 1 /\ i \in 1 .. event
    BY <1>1, <1>3, <1>4, <1>6
  <2> DEFINE b == before[m]
  <2>2. m \in DOMAIN before
    <3>1. m \in Nodes
      <4>1. DOMAIN walk.end = Nodes
        BY <1>1, WalkIs
      <4> QED BY <4>1 DEF Restoring
    <3> QED BY <1>3, <2>1, <3>1 DEF AccumInv, AccumTypes
  <2>3. b \in Recorded /\ before'[m] = b
    BY <2>2, VisitedRecords DEF Recorded, AccumInv
  <2>4. value = b \/ value.array # b.array \/ value.len > b.len
    BY <1>3, <2>1 DEF AccumInv, ScopesKept
  <2> HIDE DEF b
  <2>5. /\ b.len \in Nat /\ b.array \in 0 .. Len(arrays) /\ Lies(b, arrays)
        /\ Len(arrays) \in Nat
    BY <2>3, RecordedSpared DEF AccumInv, AccumTypes
  <2>6. value.len \in Nat /\ e.slice.len \in Nat
    BY DEF AccumInv, AccumTypes, Lies, Slices, Visited, Stores
  <2>7. e.slice.array \in Len(arrays) + 1 .. Len(e.store) => e.slice.array # b.array
    BY <2>5
  <2>8. CASE KeptAs(e)
    BY <2>3, <2>4, <2>8 DEF KeptAs
  <2>9. CASE GrownAs(e)
    <3>1. CASE e.slice.array = value.array
      <4>1. e.slice.len > value.len
        BY <2>9 DEF GrownAs
      <4>2. value.array = b.array => e.slice.len > b.len
        BY <2>4, <2>5, <2>6, <4>1
      <4> QED BY <2>3, <3>1, <4>2
    <3>2. CASE e.slice.array \in Len(arrays) + 1 .. Len(e.store)
      BY <2>3, <2>7, <3>2
    <3> QED BY <2>9, <3>1, <3>2 DEF GrownAs
  <2>10. CASE AnewAs(e)
    <3>1. CASE e.slice = EmptySlice
      <4>1. b.array = 0 => b = EmptySlice
        BY <2>5 DEF Lies
      <4>2. e.slice.array = 0
        BY <3>1 DEF EmptySlice, Slice
      <4> QED BY <2>3, <3>1, <4>1, <4>2
    <3>2. CASE Phase = "end" /\ Rule = "before"
      <4>1. phase = "end"
        BY <3>2 DEF Visited
      <4>2. Here \in Restoring(walk)
        <5>1. Rule = walk.end[Here]
          BY <3>2 DEF Rule, RuleOfEvent, Here, Phase
        <5>2. DOMAIN walk.end = Nodes
          BY <1>1, WalkIs
        <5> QED BY <1>1, <3>2, <5>1, <5>2 DEF Restoring
      <4>3. i < event + 1 /\ event + 1 < k
        BY <1>3, <2>1
      <4> QED BY <1>1, <1>3, <4>1, <4>2, <4>3 DEF RestoredApart, Events
    <3>3. CASE Fresh(e, arrays)
      BY <2>3, <2>7, <3>3 DEF Fresh
    <3> QED BY <2>10, <3>1, <3>2, <3>3 DEF AnewAs
  <2> QED BY <2>8, <2>9, <2>10 DEF Visited, Stores
<1> QED BY <1>5, <1>6

-----------------------------------------------------------------------------
(* What is kept alive, and what is charged. *)

Room(store, as) == SumFunction([x \in as |-> Len(store[x])])

LEMMA RoomAdds ==
    ASSUME NEW store, NEW as, IsFiniteSet(as), NEW x, x \notin as,
           \A i \in as \cup {x} : Len(store[i]) \in Nat
    PROVE  Room(store, as \cup {x}) = Len(store[x]) + Room(store, as)
<1> DEFINE f == [i \in as |-> Len(store[i])]
           g == [i \in as \cup {x} |-> Len(store[i])]
<1>1. Room(store, as) = SumOver(f, as) /\ Room(store, as \cup {x}) = SumOver(g, as \cup {x})
  <2>1. DOMAIN f = as /\ DOMAIN g = as \cup {x}
    OBVIOUS
  <2> HIDE DEF f, g
  <2>2. SumFunction(f) = SumOver(f, as) /\ SumFunction(g) = SumOver(g, as \cup {x})
    BY <2>1, SumFunctionIs
  <2> QED BY <2>2, Zenon DEF Room, f, g
<1>2. /\ \A i \in as : f[i] = g[i]
      /\ \A i \in as \cup {x} : g[i] \in Nat
      /\ g[x] = Len(store[x])
  OBVIOUS
<1> HIDE DEF f, g
<1>3. SumOver(f, as) = SumOver(g, as)
  BY <1>2, SumSame
<1>4. SumOver(g, as \cup {x}) = g[x] + SumOver(g, as)
  BY <1>2, SumAdd
<1> QED BY <1>1, <1>2, <1>3, <1>4

LEMMA RoomType ==
    ASSUME NEW store, NEW as, IsFiniteSet(as), \A i \in as : Len(store[i]) \in Nat
    PROVE  Room(store, as) \in Nat
<1> DEFINE f == [i \in as |-> Len(store[i])]
<1>1. DOMAIN f = as /\ \A i \in as : f[i] \in Nat
  OBVIOUS
<1> HIDE DEF f
<1>2. Room(store, as) = SumOver(f, as)
  BY <1>1, SumFunctionIs DEF Room, f
<1> QED BY <1>1, <1>2, SumType

LEMMA RoomSame ==
    ASSUME NEW store, NEW other, NEW as, \A i \in as : Len(store[i]) = Len(other[i])
    PROVE  Room(store, as) = Room(other, as)
<1>1. [i \in as |-> Len(store[i])] = [i \in as |-> Len(other[i])]
  OBVIOUS
<1> QED BY <1>1, Zenon DEF Room

\* The arrays recorded are in the store.
LEMMA RecordedArraysAre ==
    ASSUME AccumTypes
    PROVE  /\ RecordedArrays \subseteq 1 .. Len(arrays) /\ IsFiniteSet(RecordedArrays)
           /\ \A x \in RecordedArrays : Len(arrays[x]) \in Nat
           /\ RoomOf(RecordedArrays) = Room(arrays, RecordedArrays)
           /\ RoomOf(RecordedArrays) \in Nat
           /\ \A r \in Recorded : r.array = 0 \/ r.array \in RecordedArrays
<1>1. RecordedArrays = {r.array : r \in Recorded} \ {0}
  BY DEF RecordedArrays, Recorded
<1>2. \A r \in Recorded : r.array # 0 => r.array \in 1 .. Len(arrays)
  BY DEF AccumTypes, Lies, Slices, EmptySlice, Slice
<1>3. RecordedArrays \subseteq 1 .. Len(arrays)
  BY <1>1, <1>2
<1>4. arrays \in Seq(Seq(Cell)) /\ Len(arrays) \in Nat
  BY DEF AccumTypes
<1>5. IsFiniteSet(RecordedArrays)
  <2>1. IsFiniteSet(1 .. Len(arrays))
    BY <1>4, FS_Interval
  <2> QED BY <1>3, <2>1, FS_Subset
<1>6. \A x \in 1 .. Len(arrays) : Len(arrays[x]) \in Nat
  <2> TAKE x \in 1 .. Len(arrays)
  <2>1. arrays[x] \in Seq(Cell)
    BY <1>4
  <2> QED BY <2>1
<1>7. RoomOf(RecordedArrays) = Room(arrays, RecordedArrays)
  BY DEF RoomOf, Room
<1>8. RoomOf(RecordedArrays) \in Nat
  BY <1>3, <1>5, <1>6, <1>7, RoomType
<1> QED BY <1>1, <1>3, <1>5, <1>6, <1>7, <1>8

\* The room kept alive after a visit.
LEMMA RoomAfter ==
    ASSUME AccumInv, NEW phase \in {"start", "end"}, NEW e, Visited(e, phase)
    PROVE  /\ (e.slice.array = 0 \/ e.slice.array \in RecordedArrays)
                 => (RoomOf(RecordedArrays))' = RoomOf(RecordedArrays)
           /\ e.slice.array \in Len(arrays) + 1 .. Len(e.store)
                 => (RoomOf(RecordedArrays))'
                       = Len(e.store[e.slice.array]) + RoomOf(RecordedArrays)
<1> DEFINE R == RecordedArrays
           x == e.slice.array
<1>1. /\ R \subseteq 1 .. Len(arrays) /\ IsFiniteSet(R) /\ RoomOf(R) = Room(arrays, R)
      /\ \A y \in R : Len(arrays[y]) \in Nat
  BY RecordedArraysAre DEF AccumInv
<1>2. arrays' = e.store /\ Recorded' = Recorded \cup {e.slice}
  BY VisitedRecords DEF AccumInv, Visited
<1>3. e.store \in Seq(Seq(Cell)) /\ \A y \in 1 .. Len(arrays) : Len(e.store[y]) = Len(arrays[y])
  BY DEF Visited, Stores, Spares
<1>4. (RecordedArrays)' = R \cup ({x} \ {0})
  <2>1. R = {r.array : r \in Recorded} \ {0}
    BY DEF RecordedArrays, Recorded
  <2>2. (RecordedArrays)' = {r.array : r \in Recorded'} \ {0}
    BY DEF RecordedArrays, Recorded
  <2> HIDE DEF R
  <2> QED BY <1>2, <2>1, <2>2
<1>5. (RoomOf(RecordedArrays))' = Room(e.store, R \cup ({x} \ {0}))
  <2>1. (RoomOf(RecordedArrays))' = Room(arrays', (RecordedArrays)')
    BY DEF RoomOf, Room
  <2> HIDE DEF R
  <2> QED BY <1>2, <1>4, <2>1
<1> HIDE DEF R, x
<1>6. Room(e.store, R) = Room(arrays, R)
  BY <1>1, <1>3, RoomSame
<1>7. ASSUME x = 0 \/ x \in R
      PROVE  (RoomOf(RecordedArrays))' = RoomOf(R)
  <2>1. R \cup ({x} \ {0}) = R
    BY <1>7
  <2> QED BY <1>1, <1>5, <1>6, <2>1
<1>8. ASSUME x \in Len(arrays) + 1 .. Len(e.store)
      PROVE  (RoomOf(RecordedArrays))' = Len(e.store[x]) + RoomOf(R)
  <2>1. Len(arrays) \in Nat /\ Len(e.store) \in Nat
    BY <1>3 DEF AccumInv, AccumTypes
  <2>2. x \notin R /\ x # 0 /\ x \in 1 .. Len(e.store)
    BY <1>1, <1>8, <2>1
  <2>3. R \cup ({x} \ {0}) = R \cup {x}
    BY <2>2
  <2>4. e.store[x] \in Seq(Cell)
    BY <1>3, <2>2
  <2>5. \A i \in R \cup {x} : Len(e.store[i]) \in Nat
    BY <1>1, <1>3, <2>4
  <2>6. Room(e.store, R \cup {x}) = Len(e.store[x]) + Room(e.store, R)
    BY <1>1, <2>2, <2>5, RoomAdds
  <2> QED BY <1>1, <1>5, <1>6, <2>3, <2>6
<1> QED BY <1>7, <1>8 DEF R, x

LEMMA RoomIsPaidKept ==
    ASSUME AccumInv, NEW phase \in {"start", "end"}, NEW e, Visited(e, phase)
    PROVE  RoomIsPaid'
<1> DEFINE room == RoomOf(RecordedArrays)
           next == (RoomOf(RecordedArrays))'
           len == value.len
           cap == value.cap
           newlen == e.slice.len
           newcap == e.slice.cap
<1>1. /\ Lies(value, arrays) /\ Lies(e.slice, e.store) /\ charged \in Nat /\ event \in Nat
      /\ room \in Nat /\ Len(arrays) \in Nat /\ e.store \in Seq(Seq(Cell))
  BY RecordedArraysAre DEF AccumInv, AccumTypes, Visited, Stores, Spares
<1>2. /\ len \in Nat /\ cap \in Nat /\ newlen \in Nat /\ newcap \in Nat
      /\ len <= cap /\ newlen <= newcap
  BY <1>1 DEF Lies, Slices
<1>3. /\ value' = e.slice /\ charged' = e.charged /\ event' = event + 1
  BY DEF Visited, Stores
<1>4. /\ room <= 4 * charged + event
      /\ room + 4 * len <= 4 * charged + 2 * cap + event + 2
  BY DEF AccumInv, RoomIsPaid
<1>5. SUFFICES /\ next <= 4 * e.charged + (event + 1)
               /\ next + 4 * newlen <= 4 * e.charged + 2 * newcap + (event + 1) + 2
  BY <1>3 DEF RoomIsPaid
<1>6. value.array = 0 \/ value.array \in RecordedArrays
  <2>1. CASE len = 0
    BY <1>1, <2>1 DEF Lies, EmptySlice, Slice
  <2>2. CASE len # 0
    <3>1. value \in Recorded
      BY <1>2, <2>2 DEF AccumInv, AccumTypes
    <3> QED BY <3>1, RecordedArraysAre DEF AccumInv
  <2> QED BY <2>1, <2>2
<1>7. (e.slice.array = 0 \/ e.slice.array \in RecordedArrays) => next = room
  BY RoomAfter
<1>8. e.slice.array \in Len(arrays) + 1 .. Len(e.store)
         => next = Len(e.store[e.slice.array]) + room
  BY RoomAfter
<1>9. e.slice.array \in Len(arrays) + 1 .. Len(e.store) => Len(e.store[e.slice.array]) \in Nat
  <2>1. SUFFICES ASSUME e.slice.array \in Len(arrays) + 1 .. Len(e.store)
                 PROVE  Len(e.store[e.slice.array]) \in Nat
    OBVIOUS
  <2>2. e.slice.array \in 1 .. Len(e.store)
    BY <1>1, <2>1
  <2>3. e.store[e.slice.array] \in Seq(Cell)
    BY <1>1, <2>2
  <2> QED BY <2>3
<1> HIDE DEF room, next
<1>10. CASE KeptAs(e)
  <2>1. next = room /\ newlen = len /\ newcap = cap /\ e.charged = charged
    BY <1>6, <1>7, <1>10 DEF KeptAs
  <2> HIDE DEF len, cap, newlen, newcap
  <2> QED BY <1>1, <1>2, <1>4, <2>1
<1>11. CASE GrownAs(e)
  <2>1. len > 0 /\ newlen > len /\ e.charged = charged + newlen - len
    BY <1>11 DEF GrownAs
  <2>2. CASE e.slice.array = value.array /\ e.slice.cap = value.cap
    <3>1. next = room /\ newcap = cap
      BY <1>6, <1>7, <2>2
    <3> HIDE DEF len, cap, newlen, newcap
    <3> QED BY <1>1, <1>2, <1>4, <2>1, <3>1
  <2>3. CASE /\ e.slice.array \in Len(arrays) + 1 .. Len(e.store)
             /\ newlen > cap /\ Len(e.store[e.slice.array]) = newcap
             /\ newcap = IF newlen > 2 * cap THEN newlen ELSE 2 * cap
    <3>1. next = newcap + room
      BY <1>8, <2>3
    <3> HIDE DEF len, cap, newlen, newcap
    <3> QED BY <1>1, <1>2, <1>4, <2>1, <2>3, <3>1
  <2> QED BY <1>11, <2>2, <2>3 DEF GrownAs
<1>12. CASE AnewAs(e)
  <2>1. newcap = newlen /\ e.charged = IF newlen > 1 THEN charged + newlen ELSE charged
    BY <1>12 DEF AnewAs, HeldForOther
  <2>2. CASE e.slice = EmptySlice \/ (Phase = "end" /\ Rule = "before" /\ e.slice.array = before[Here].array)
    <3>1. e.slice.array = 0 \/ e.slice.array \in RecordedArrays
      <4>1. CASE e.slice = EmptySlice
        BY <4>1 DEF EmptySlice, Slice
      <4>2. CASE Phase = "end" /\ e.slice.array = before[Here].array
        <5>1. before[Here] \in Recorded
          BY <4>2, BeforeIsThere DEF AccumInv, Visited
        <5> QED BY <4>2, <5>1, RecordedArraysAre DEF AccumInv
      <4> QED BY <2>2, <4>1, <4>2
    <3>2. next = room
      BY <1>7, <3>1
    <3> HIDE DEF len, cap, newlen, newcap
    <3> QED BY <1>1, <1>2, <1>4, <2>1, <3>2
  <2>3. CASE Fresh(e, arrays)
    <3> DEFINE made == Len(e.store[e.slice.array])
    <3>1. next = made + room /\ newlen > 0 /\ made <= 2 * newlen /\ (newlen = 1 => made = 1)
          /\ made \in Nat
      BY <1>8, <1>9, <2>3 DEF Fresh
    <3> HIDE DEF len, cap, newlen, newcap, made
    <3> QED BY <1>1, <1>2, <1>4, <2>1, <3>1
  <2> QED BY <1>12, <2>2, <2>3 DEF AnewAs
<1> QED BY <1>10, <1>11, <1>12 DEF Visited, Stores

-----------------------------------------------------------------------------
(* Every behaviour. *)

LEMMA AccumInitInv == AccumInit => AccumInv
<1> SUFFICES ASSUME AccumInit PROVE AccumInv
  OBVIOUS
<1>1. /\ walk \in Walks /\ event = 0 /\ arrays = <<>> /\ charged = 0
      /\ value = EmptySlice /\ tip = EmptySlice /\ before = <<>> /\ after = <<>>
      /\ outcome = "walking"
  BY DEF AccumInit
<1>2. Len(Events) \in Nat /\ DOMAIN Events = 1 .. Len(Events) /\ MaxStored \in Nat
  BY <1>1, WalkIs, WalksAssumption
<1>3. DOMAIN before = {} /\ DOMAIN after = {} /\ Recorded = {} /\ 1 .. event = {}
  BY <1>1 DEF Recorded
<1>4. arrays \in Seq(Seq(Cell)) /\ Len(arrays) = 0
  BY <1>1
<1>5. Lies(value, arrays) /\ value.len = 0 /\ value.cap = 0
  BY <1>1, <1>4, EmptyLies DEF EmptySlice, Slice
<1>6. AccumTypes
  <2>1. before = [n \in DOMAIN before |-> before[n]] /\ after = [n \in DOMAIN after |-> after[n]]
    BY <1>1
  <2> QED BY <1>1, <1>2, <1>3, <1>4, <1>5, <2>1 DEF AccumTypes
<1>7. ValueStands
  <2>1. ValueAfter[0] = <<>>
    <3>1. 0 \in 0 .. Len(Events)
      BY <1>2
    <3> QED BY <1>1, <3>1, ValueIs DEF NextValue
  <2> QED BY <1>1, <1>5, <2>1 DEF ValueStands, Items
<1>8. RecordedStand
  BY <1>3 DEF RecordedStand
<1>9. NothingBehind
  BY <1>3 DEF NothingBehind
<1>10. ScopesKept
  <2>1. \A i \in DOMAIN Events : ~(i <= event)
    BY <1>1, <1>2
  <2> QED BY <2>1 DEF ScopesKept
<1>11. RoomIsPaid
  <2>1. RecordedArrays = {}
    BY <1>3 DEF RecordedArrays, Recorded
  <2>2. RoomOf(RecordedArrays) = 0
    <3> DEFINE f == [x \in {} |-> Len(arrays[x])]
    <3>1. DOMAIN f = {}
      OBVIOUS
    <3> HIDE DEF f
    <3>2. SumFunction(f) = 0
      BY <3>1, SumFunctionIs, SumEmpty
    <3> QED BY <2>1, <3>2 DEF RoomOf, f
  <2> QED BY <1>1, <1>5, <2>2 DEF RoomIsPaid
<1> QED BY <1>6, <1>7, <1>8, <1>9, <1>10, <1>11 DEF AccumInv

LEMMA AccumStepInv ==
    ASSUME \A w \in Walks : RestoredApart(w), AccumInv, [AccumNext]_accumVars
    PROVE  AccumInv'
<1> DEFINE Still == UNCHANGED <<walk, event, arrays, value, tip, charged, before, after>>
<1>1. ASSUME Still, outcome' \in {"walking", "cached", "circular", "refused"}
      PROVE  AccumInv'
  <2>1. /\ Events' = Events /\ Nodes' = Nodes /\ Restoring(walk)' = Restoring(walk)
        /\ ValueAfter' = ValueAfter
    BY <1>1, WalkKept
  <2>2. /\ event' = event /\ arrays' = arrays /\ value' = value /\ tip' = tip
        /\ charged' = charged /\ before' = before /\ after' = after /\ walk' = walk
    BY <1>1
  <2>3. Recorded' = Recorded /\ (RoomOf(RecordedArrays))' = RoomOf(RecordedArrays)
    BY <2>2 DEF Recorded, RoomOf, RecordedArrays
  <2>4. AccumTypes'
    BY <1>1, <2>1, <2>2, <2>3 DEF AccumInv, AccumTypes
  <2>5. ValueStands' /\ RecordedStand'
    BY <2>1, <2>2 DEF AccumInv, ValueStands, RecordedStand, Items
  <2>6. NothingBehind' /\ ScopesKept' /\ RoomIsPaid'
    BY <2>1, <2>2, <2>3 DEF AccumInv, NothingBehind, ScopesKept, RoomIsPaid
  <2> QED BY <2>4, <2>5, <2>6 DEF AccumInv
<1>2. ASSUME NEW phase \in {"start", "end"}, Visit(phase) PROVE AccumInv'
  <2>1. CASE Visited(Extended(RuleYields), phase)
    <3>1. RestoredApart(walk)
      BY DEF AccumInv, AccumTypes
    <3> QED BY <2>1, <3>1, TypesKept, ValuesStand, NothingBehindKept, ScopesKeptKept,
               RoomIsPaidKept DEF AccumInv
  <2>2. CASE outcome' = "refused" /\ Still
    BY <1>1, <2>2
  <2> QED BY <1>2, <2>1, <2>2, VisitDoes
<1>3. outcome \in {"walking", "cached", "circular", "refused"}
  BY DEF AccumInv, AccumTypes
<1>4. CASE EnterNode
  BY <1>2, <1>4 DEF EnterNode
<1>5. CASE LeaveNode
  BY <1>2, <1>5 DEF LeaveNode
<1>6. CASE Circular
  BY <1>1, <1>6 DEF Circular
<1>7. CASE Cache
  BY <1>1, <1>7 DEF Cache
<1>8. CASE UNCHANGED accumVars
  BY <1>1, <1>3, <1>8 DEF accumVars
<1> QED BY <1>4, <1>5, <1>6, <1>7, <1>8 DEF AccumNext

\* The types of a walk.
LEMMA AccumTypesAreOK == AccumInv => AccumTypeOK
<1> SUFFICES ASSUME AccumInv PROVE AccumTypeOK
  OBVIOUS
<1>1. /\ walk \in Walks /\ arrays \in Seq(Seq(Cell)) /\ Lies(value, arrays) /\ tip = value
      /\ event \in 0 .. Len(Events) /\ charged \in 0 .. MaxStored
      /\ outcome \in {"walking", "cached", "circular", "refused"}
      /\ DOMAIN before = {n \in Nodes : \E k \in 1 .. event : Events[k] = <<"start", n>>}
      /\ DOMAIN after = {n \in Nodes : \E k \in 1 .. event : Events[k] = <<"end", n>>}
  BY DEF AccumInv, AccumTypes
<1>2. /\ Len(Events) = 2 * Len(walk.parent) /\ Len(Events) \in Nat
      /\ DOMAIN Events = 1 .. Len(Events)
  BY <1>1, WalkIs
<1>3. value.len <= value.cap /\ value.array \in 0 .. Len(arrays)
  <2>1. Len(arrays) \in Nat
    BY <1>1
  <2> QED BY <1>1, <2>1 DEF Lies, Slices, EmptySlice, Slice
<1>4. ASSUME NEW n \in DOMAIN after PROVE n \in DOMAIN before
  <2>1. PICK k \in 1 .. event : Events[k] = <<"end", n>>
    BY <1>1, <1>4
  <2>2. n \in Nodes /\ k \in DOMAIN Events
    BY <1>1, <1>2, <1>4, <2>1
  <2>3. Entered(n) \in DOMAIN Events /\ Events[Entered(n)] = <<"start", n>> /\ Entered(n) < k
    BY <1>1, <2>1, <2>2, EnteredIs
  <2>4. Entered(n) \in 1 .. event
    BY <1>1, <1>2, <2>1, <2>3
  <2> QED BY <1>1, <2>2, <2>3, <2>4
<1> QED BY <1>1, <1>2, <1>3, <1>4 DEF AccumTypeOK

\* The values a walk records stay as they were when they were recorded, and what is
\* kept alive for them is charged, in every walk over any tree under any rules, as
\* long as no node that restores its value is left inside another that does
\* (accumulatorValuesFor, extend).
THEOREM AccumulatorsHold ==
    ASSUME \A w \in Walks : RestoredApart(w)
    PROVE  AccumSpec => [](ValuesKept /\ AccumTypeOK)
<1>1. AccumInit => AccumInv
  BY AccumInitInv
<1>2. AccumInv /\ [AccumNext]_accumVars => AccumInv'
  BY AccumStepInv
<1>3. AccumInv => ValuesKept /\ AccumTypeOK
  <2> SUFFICES ASSUME AccumInv PROVE ValuesKept /\ AccumTypeOK
    OBVIOUS
  <2>1. StoredIsCharged
    BY DEF AccumInv, RoomIsPaid, StoredIsCharged
  <2> QED BY <2>1, AccumTypesAreOK DEF AccumInv, ValuesKept
<1> QED BY <1>1, <1>2, <1>3, PTL DEF AccumSpec

-----------------------------------------------------------------------------
(* The index of template rules. *)

\* A pattern that matches a node has it among the kinds or the names it is filed
\* under: ruleKeys mirrors nodeTestHolds.
LEMMA FiledUnderItsKeys ==
    ASSUME NEW alts, NEW node, node.kind \in NodeKinds, PatternMatches(alts, node)
    PROVE  \/ node.kind \in KindsOf(alts)
           \/ <<node.kind, node.name>> \in NamesOf(alts)
<1>1. PICK i \in DOMAIN alts : Widest(alts[i]) \/ NodeTestHolds(alts[i], node)
      BY DEF PatternMatches
<1> DEFINE p == alts[i]
           axis == IF p.on = "attribute" THEN {"attribute"} ELSE ChildKinds
           kinds == IF Widest(p) THEN NodeKinds
                    ELSE CASE p.test = "name" -> {}
                           [] p.test = "star" -> {Principal(p)}
                           [] p.test = "kind" -> axis \cap {p.name}
                           [] OTHER -> axis
<1>2. kinds \subseteq KindsOf(alts)
      BY <1>1 DEF KindsOf
<1>3. CASE Widest(p)
      BY <1>2, <1>3
<1>4. CASE ~Widest(p) /\ p.test = "name"
  <2>1. node.kind = Principal(p) /\ node.name = p.name
        BY <1>1, <1>4 DEF NodeTestHolds
  <2>2. <<Principal(p), p.name>> \in NamesOf(alts)
        BY <1>1, <1>4 DEF NamesOf
  <2> QED BY <2>1, <2>2
<1>5. CASE ~Widest(p) /\ p.test # "name"
  <2>1. node.kind \in axis
        BY <1>1, <1>5 DEF NodeTestHolds, NodeKinds
  <2>2. p.test = "star" => node.kind = Principal(p)
        BY <1>1, <1>5 DEF NodeTestHolds
  <2>3. p.test = "kind" => node.kind = p.name
        BY <1>1, <1>5 DEF NodeTestHolds
  <2>4. node.kind \in kinds
        BY <1>5, <2>1, <2>2, <2>3
  <2> QED BY <1>2, <2>4
<1> QED BY <1>3, <1>4, <1>5

\* buildRuleIndex and candidates (xslt/ruleindex.go): whatever a stylesheet's rules
\* are, the rules tried for a node that match it are those a scan of all the rules
\* of the mode finds.  So the winner is the same, and so is what xsl:next-match
\* resumes with.
THEOREM IndexHidesNothing ==
    ASSUME NEW s, NEW rules, NEW node, node.kind \in NodeKinds, NEW mode
    PROVE  {i \in CandidatesIn(rules, BuildRuleIndex(s, rules), node, mode) :
                PatternMatches(rules[i].alts, node)}
         = {i \in DOMAIN rules : MatchesMode(rules[i], mode) /\ PatternMatches(rules[i].alts, node)}
<1> DEFINE index == BuildRuleIndex(s, rules)
           key == <<node.kind, node.name>>
           ofMode == {i \in DOMAIN rules : MatchesMode(rules[i], mode)}
           named == UNION {NamesOf(rules[i].alts) : i \in ofMode}
           ofKind == {i \in ofMode : node.kind \in KindsOf(rules[i].alts)}
           ofName == {i \in ofMode : key \in NamesOf(rules[i].alts)}
<1>1. CASE mode \notin DOMAIN index
      BY <1>1 DEF CandidatesIn
<1>2. CASE mode \in DOMAIN index
  <2>1. /\ DOMAIN index[mode].byName = named
        /\ key \in named => index[mode].byName[key] = ofName \cup ofKind
        /\ index[mode].byKind[node.kind] = ofKind
        BY <1>2 DEF BuildRuleIndex
  <2>2. key \notin named => ofName = {}
        OBVIOUS
  <2>3. CandidatesIn(rules, index, node, mode) = ofName \cup ofKind
        BY <1>2, <2>1, <2>2 DEF CandidatesIn
  <2>4. ASSUME NEW i \in ofMode, PatternMatches(rules[i].alts, node)
        PROVE  i \in ofName \cup ofKind
        BY <2>4, FiledUnderItsKeys
  <2> QED BY <2>3, <2>4
<1> QED BY <1>1, <1>2

================================================================================
