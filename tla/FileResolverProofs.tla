------------------------- MODULE FileResolverProofs -------------------------
(***************************************************************************)
(* Proofs about FileResolver: its types, single flight, that a call is     *)
(* answered with a tree it may use, node identity while the cache keeps a  *)
(* path, the accounts and the bounds of the cache, and that it implements  *)
(* DocumentStore.                                                          *)
(***************************************************************************)
EXTENDS FileResolverStore, FiniteSums

-----------------------------------------------------------------------------
(* The inductive invariants, each relative to the ones before it.           *)

\* A run with a parse of its own.
Busy(r) == pc[r] \in {"parse", "publish", "admit", "close", "preload",
                      "admitPreload"}

\* What a run's registers hold where it stands.
RegistersOf(r) ==
    /\ pc[r] # "idle" => req[r] \in Request
    /\ pc[r] = "wait" => call[r] \in Tree
    /\ Busy(r) =>
        /\ call[r] \in Tree
        /\ parses[call[r]].path = req[r].path
        /\ parses[call[r]].pos = req[r].pos
        /\ parses[call[r]].by = r
        /\ parses[call[r]].host = Hosting(r)
        /\ parses[call[r]].end = IF Hosting(r) THEN "ok" ELSE "open"
    /\ Admitting(r) \/ pc[r] = "preload" => result[r].end = "ok"
    /\ Admitting(r) <=> mu = r

Registers == \A r \in Run : RegistersOf(r)

TypeInv == TypeOK /\ Registers

\* The table of loads in flight and the parses under way are one.
Flights ==
    /\ \A r \in Run : Parsing(r) =>
        /\ KeyOf(r) \in DOMAIN inflight
        /\ inflight[KeyOf(r)] = call[r]
    /\ \A k \in DOMAIN inflight : \E r \in Run :
        Parsing(r) /\ KeyOf(r) = k /\ call[r] = inflight[k]
    /\ \A t \in Tree : parses[t].end = "open" => \E r \in Run :
        (Parsing(r) \/ pc[r] = "close") /\ call[r] = t

\* A parse that succeeded, its end perhaps not announced yet.
Good(t) ==
    \/ parses[t].end = "ok"
    \/ /\ parses[t].end = "open"
       /\ \E r \in Run : /\ pc[r] = "close" /\ call[r] = t
                         /\ result[r].end = "ok"

\* What is cached and what was returned are successful parses of the path.
Sound ==
    /\ \A p \in DOMAIN cache : parses[cache[p]].path = p /\ Good(cache[p])
    /\ \A g \in got : /\ parses[g.tree].path = g.path
                      /\ Good(g.tree)
                      /\ g.pos => parses[g.tree].pos

\* While a path is not given up, the cache holds the tree everyone has.
Kept ==
    /\ \A r \in Run : Parsing(r) /\ req[r].path \in DOMAIN cache =>
        ~SameKind(cache[req[r].path], call[r])
    /\ \A r \in Run : Admitting(r) => req[r].path \notin DOMAIN cache
    /\ \A r \in Run : LET p == req[r].path IN
        pc[r] = "close" /\ result[r].end = "ok" /\ p \notin dropped =>
            p \in DOMAIN cache /\ cache[p] = call[r]
    /\ \A g \in got : g.path \notin dropped =>
        g.path \in DOMAIN cache /\ cache[g.path] = g.tree

-----------------------------------------------------------------------------
(* The list of parses.                                                      *)

\* A parse begins: those before it stay as they are.
LEMMA BeginFacts ==
    ASSUME NEW s \in Seq(ParseRec), NEW e \in ParseRec
    PROVE  /\ Append(s, e) \in Seq(ParseRec)
           /\ Len(Append(s, e)) = Len(s) + 1
           /\ Len(s) \in Nat
           /\ Append(s, e)[Len(s) + 1] = e
           /\ \A t \in 1..Len(s) : Append(s, e)[t] = s[t]
OBVIOUS

\* A parse ends: nothing but its end changes.
LEMMA EndFacts ==
    ASSUME NEW s \in Seq(ParseRec), NEW n \in 1..Len(s), NEW e \in Outcome
    PROVE  LET z == [s EXCEPT ![n].end = e]
           IN  /\ z \in Seq(ParseRec)
               /\ Len(z) = Len(s)
               /\ \A t \in 1..Len(s) :
                    /\ z[t].path = s[t].path /\ z[t].pos = s[t].pos
                    /\ z[t].by = s[t].by /\ z[t].host = s[t].host
                    /\ z[t].end = IF t = n THEN e ELSE s[t].end
<1>1. \A t \in 1..Len(s) : s[t] \in ParseRec
  OBVIOUS
<1> QED BY <1>1 DEF ParseRec

-----------------------------------------------------------------------------
(* Types.                                                                   *)

LEMMA TypeInit == Init => TypeInv
<1> SUFFICES ASSUME Init PROVE TypeInv
  OBVIOUS
<1> USE FileResolverAssumption
<1>1. TypeOK
  BY DEF Init, TypeOK, ParseRec, Outcome, Key, Request, NoRequest, Tree
<1>2. Registers
  BY DEF Init, Registers, RegistersOf, Busy, Admitting
<1> QED BY <1>1, <1>2 DEF TypeInv

LEMMA LoadType ==
    ASSUME TypeInv, NEW r \in Run, NEW p \in Path, NEW pos \in BOOLEAN,
           NEW own \in BOOLEAN, Load(r, p, pos, own)
    PROVE  TypeInv'
<1> USE FileResolverAssumption
<1>1. TypeOK'
  BY DEF TypeInv, TypeOK, Load, Tree, Request, cacheVars, history
<1>2. Registers'
  BY DEF TypeInv, TypeOK, Registers, RegistersOf, Busy, Hosting, Admitting, Load, Tree,
         Request, cacheVars, history
<1> QED BY <1>1, <1>2 DEF TypeInv

LEMMA HitType ==
    ASSUME TypeInv, NEW r \in Run, Hit(r)
    PROVE  TypeInv'
<1>1. TypeOK'
  BY DEF TypeInv, TypeOK, Registers, RegistersOf, Hit, Return, Serves, Tree, Request, cacheVars, runVars
<1>2. Registers'
  BY DEF TypeInv, TypeOK, Registers, RegistersOf, Busy, Hosting, Admitting, Hit, Return, Tree,
         cacheVars, runVars
<1> QED BY <1>1, <1>2 DEF TypeInv

LEMMA JoinType ==
    ASSUME TypeInv, NEW r \in Run, Join(r)
    PROVE  TypeInv'
<1> USE FileResolverAssumption
<1>1. TypeOK'
  <2>1. /\ parses' \in Seq(ParseRec) /\ mu' \in Run \cup {None}
        /\ loads' \in 0..LoadMax
    BY DEF TypeInv, TypeOK, Join, Serves, Tree
  <2>2. /\ DOMAIN cache' \subseteq Path
        /\ \A q \in DOMAIN cache' : cache'[q] \in Tree'
    BY DEF TypeInv, TypeOK, Join, Serves, Tree, cacheVars, With, Without,
       Registers, RegistersOf, Busy, Admitting
  <2>3. /\ DOMAIN sizes' \subseteq Path
        /\ \A q \in DOMAIN sizes' : sizes'[q] \in Nat
    BY DEF TypeInv, TypeOK, Join, Serves, cacheVars, With, Without,
       Registers, RegistersOf, Request, Admitting
  <2>4. cacheBytes' \in Int
    BY DEF TypeInv, TypeOK, Join, Serves, cacheVars
  <2>5. /\ DOMAIN inflight' \subseteq Key
        /\ \A k \in DOMAIN inflight' : inflight'[k] \in Tree'
    BY DEF TypeInv, TypeOK, Join, Serves, Tree, Key, KeyOf, With, Without,
       Registers, RegistersOf, Request
  <2>6. pc' \in [Run -> {"idle", "look", "wait", "parse", "publish",
                            "preload", "admit", "admitPreload", "close"}]
    BY DEF TypeInv, TypeOK, Join, Serves
  <2>7. req' \in [Run -> Request \cup {NoRequest}]
    BY DEF TypeInv, TypeOK, Join, Serves, runVars
  <2>8. /\ call' \in [Run -> 0..Len(parses')]
        /\ joined' \in [Run -> 0..Len(parses')]
    BY DEF TypeInv, TypeOK, Join, Serves, runVars, Tree
  <2>9. /\ result' \in [Run -> [size : Nat, end : Outcome]]
        /\ spent' \in [Run -> 0..Ceiling + 1]
    BY DEF TypeInv, TypeOK, Join, Serves, runVars, Outcome
  <2>10. got' \subseteq [to : Run, path : Path, pos : BOOLEAN, tree : Tree',
                        joined : 0..Len(parses')]
    BY DEF TypeInv, TypeOK, Join, Serves, Tree, Registers, RegistersOf, Request,
       history, Busy
  <2>11. denied' \subseteq [to : Run, by : Run, why : Outcome]
    BY DEF TypeInv, TypeOK, Join, Serves, Registers, RegistersOf, Busy, Tree, ParseRec,
       Outcome, history
  <2>12. dropped' \subseteq Path
    BY DEF TypeInv, TypeOK, Join, Serves, Registers, RegistersOf, Request, Admitting,
       Busy, history
  <2> QED BY <2>1, <2>2, <2>3, <2>4, <2>5, <2>6, <2>7, <2>8, <2>9, <2>10,
             <2>11, <2>12 DEF TypeOK
<1>2. Registers'
  BY DEF TypeInv, TypeOK, Registers, RegistersOf, Join, Serves, KeyOf, Key, Busy, Hosting, Admitting, Tree, Request, cacheVars, runVars, history
<1> QED BY <1>1, <1>2 DEF TypeInv

LEMMA StartFacts ==
    ASSUME TypeInv, NEW r \in Run, Start(r)
    PROVE  /\ /\ parses' \in Seq(ParseRec)
              /\ Len(parses') = Len(parses) + 1 /\ Len(parses) \in Nat
              /\ parses'[Len(parses')] = [path |-> req[r].path, pos |-> req[r].pos,
                                          by |-> r, host |-> FALSE, end |-> "open"]
              /\ \A t \in Tree : parses'[t] = parses[t]
           /\ /\ pc[r] = "look" /\ mu = None
              /\ inflight' = With(inflight, KeyOf(r), Len(parses'))
              /\ call' = [call EXCEPT ![r] = Len(parses')]
              /\ pc' = [pc EXCEPT ![r] = "parse"]
              /\ UNCHANGED <<cacheVars, mu, req, result, joined, spent, loads,
                             history>>
<1>0. /\ parses' \in Seq(ParseRec)
      /\ Len(parses') = Len(parses) + 1 /\ Len(parses) \in Nat
      /\ parses'[Len(parses')] = [path |-> req[r].path, pos |-> req[r].pos,
                                  by |-> r, host |-> FALSE, end |-> "open"]
      /\ \A t \in Tree : parses'[t] = parses[t]
  <2>1. [path |-> req[r].path, pos |-> req[r].pos, by |-> r, host |-> FALSE,
         end |-> "open"] \in ParseRec
    BY DEF Start, TypeInv, Registers, RegistersOf, Request, ParseRec
  <2> QED BY <2>1, BeginFacts DEF Start, TypeInv, TypeOK, Tree
<1>10. /\ pc[r] = "look" /\ mu = None
       /\ inflight' = With(inflight, KeyOf(r), Len(parses'))
       /\ call' = [call EXCEPT ![r] = Len(parses')]
       /\ pc' = [pc EXCEPT ![r] = "parse"]
       /\ UNCHANGED <<cacheVars, mu, req, result, joined, spent, loads,
                      history>>
  BY DEF Start
<1> QED BY <1>0, <1>10

LEMMA StartType ==
    ASSUME TypeInv, NEW r \in Run, Start(r)
    PROVE  TypeInv'
<1> USE FileResolverAssumption
<1>0. /\ parses' \in Seq(ParseRec)
      /\ Len(parses') = Len(parses) + 1 /\ Len(parses) \in Nat
      /\ parses'[Len(parses')] = [path |-> req[r].path, pos |-> req[r].pos,
                                  by |-> r, host |-> FALSE, end |-> "open"]
      /\ \A t \in Tree : parses'[t] = parses[t]
  BY StartFacts
<1>10. /\ pc[r] = "look" /\ mu = None
       /\ inflight' = With(inflight, KeyOf(r), Len(parses'))
       /\ call' = [call EXCEPT ![r] = Len(parses')]
       /\ pc' = [pc EXCEPT ![r] = "parse"]
       /\ UNCHANGED <<cacheVars, mu, req, result, joined, spent, loads,
                      history>>
  BY StartFacts
<1>1. TypeOK'
  <2>1. /\ parses' \in Seq(ParseRec) /\ mu' \in Run \cup {None}
        /\ loads' \in 0..LoadMax
    BY <1>0, <1>10 DEF TypeInv, TypeOK, Tree
  <2>2. /\ DOMAIN cache' \subseteq Path
        /\ \A q \in DOMAIN cache' : cache'[q] \in Tree'
    BY <1>0, <1>10 DEF TypeInv, TypeOK, Tree, cacheVars, With, Without,
       Registers, RegistersOf, Busy, Admitting
  <2>3. /\ DOMAIN sizes' \subseteq Path
        /\ \A q \in DOMAIN sizes' : sizes'[q] \in Nat
    BY <1>0, <1>10 DEF TypeInv, TypeOK, cacheVars, With, Without,
       Registers, RegistersOf, Request, Admitting
  <2>4. cacheBytes' \in Int
    BY <1>0, <1>10 DEF TypeInv, TypeOK, cacheVars
  <2>5. /\ DOMAIN inflight' \subseteq Key
        /\ \A k \in DOMAIN inflight' : inflight'[k] \in Tree'
    BY <1>0, <1>10 DEF TypeInv, TypeOK, Tree, Key, KeyOf, With, Without,
       Registers, RegistersOf, Request
  <2>6. pc' \in [Run -> {"idle", "look", "wait", "parse", "publish",
                            "preload", "admit", "admitPreload", "close"}]
    BY <1>0, <1>10 DEF TypeInv, TypeOK
  <2>7. req' \in [Run -> Request \cup {NoRequest}]
    BY <1>0, <1>10 DEF TypeInv, TypeOK, runVars
  <2>8. /\ call' \in [Run -> 0..Len(parses')]
        /\ joined' \in [Run -> 0..Len(parses')]
    BY <1>0, <1>10 DEF TypeInv, TypeOK, runVars, Tree
  <2>9. /\ result' \in [Run -> [size : Nat, end : Outcome]]
        /\ spent' \in [Run -> 0..Ceiling + 1]
    BY <1>0, <1>10 DEF TypeInv, TypeOK, runVars, Outcome
  <2>10. got' \subseteq [to : Run, path : Path, pos : BOOLEAN, tree : Tree',
                        joined : 0..Len(parses')]
    BY <1>0, <1>10 DEF TypeInv, TypeOK, Tree, Registers, RegistersOf, Request, history,
       Busy
  <2>11. denied' \subseteq [to : Run, by : Run, why : Outcome]
    BY <1>0, <1>10 DEF TypeInv, TypeOK, Registers, RegistersOf, Busy, Tree, ParseRec,
       Outcome, history
  <2>12. dropped' \subseteq Path
    BY <1>0, <1>10 DEF TypeInv, TypeOK, Registers, RegistersOf, Request, Admitting,
       Busy, history
  <2> QED BY <2>1, <2>2, <2>3, <2>4, <2>5, <2>6, <2>7, <2>8, <2>9, <2>10,
             <2>11, <2>12 DEF TypeOK
<1>2. Registers'
  <2>1. RegistersOf(r)'
    <3>1. /\ pc'[r] = "parse" /\ call'[r] = Len(parses') /\ mu' = None
          /\ req'[r] = req[r] /\ req[r] \in Request /\ mu' # r
      BY <1>10 DEF TypeInv, TypeOK, Registers, RegistersOf
    <3>2. Len(parses') \in Tree'
      BY <1>0 DEF Tree
    <3>3. /\ parses'[call'[r]].path = req'[r].path
          /\ parses'[call'[r]].pos = req'[r].pos
          /\ parses'[call'[r]].by = r
          /\ parses'[call'[r]].host = FALSE
          /\ parses'[call'[r]].end = "open"
      BY <1>0, <3>1
    <3>4. /\ Hosting(r)' = FALSE /\ Admitting(r)' = FALSE
          /\ pc'[r] # "wait" /\ pc'[r] # "preload"
      BY <3>1 DEF Hosting, Admitting
    <3> QED BY <3>1, <3>2, <3>3, <3>4 DEF RegistersOf
  <2>2. ASSUME NEW q \in Run, q # r PROVE RegistersOf(q)'
    <3>1. pc'[q] = pc[q] /\ call'[q] = call[q] /\ UNCHANGED <<req, result, mu>>
      BY <1>10, <2>2 DEF TypeInv, TypeOK
    <3>2. \A t \in Tree : t \in Tree' /\ parses'[t] = parses[t]
      BY <1>0 DEF Tree
    <3> QED BY <3>1, <3>2 DEF TypeInv, Registers, RegistersOf, Busy, Hosting,
            Admitting
  <2> QED BY <2>1, <2>2 DEF Registers
<1> QED BY <1>1, <1>2 DEF TypeInv

\* The spend is counted up to one past the ceiling.
LEMMA SpendType ==
    ASSUME TypeInv, NEW r \in Run, NEW n \in Nat, Spend(r, n)
    PROVE  spent' \in [Run -> 0..Ceiling + 1]
<1> DEFINE c == Charged(r, n)
<1>1. spent[r] \in 0..Ceiling + 1 /\ Ceiling \in Nat
  BY FileResolverAssumption DEF TypeInv, TypeOK
<1>2. c \in Nat
  BY <1>1 DEF Charged
<1>3. spent' = IF req[r].own
               THEN [spent EXCEPT ![r] = IF c > Ceiling THEN Ceiling + 1 ELSE c]
               ELSE spent
  BY DEF Spend
<1> HIDE DEF c
<1>4. (IF c > Ceiling THEN Ceiling + 1 ELSE c) \in 0..Ceiling + 1
  BY <1>1, <1>2
<1> QED BY <1>3, <1>4 DEF TypeInv, TypeOK

\* A parse ends, its spend typed.
LEMMA ParsedType ==
    ASSUME TypeInv, NEW r \in Run, pc[r] = "parse",
           NEW size \in Nat, NEW end \in Outcome, Parsed(r, size, end),
           NEW n \in Nat, Spend(r, n)
    PROVE  TypeInv'
<1>1. /\ UNCHANGED <<cacheVars, inflight, mu, parses, req, call, joined, loads,
                     history>>
      /\ pc' = [pc EXCEPT ![r] = "publish"]
      /\ result' \in [Run -> [size : Nat, end : Outcome]]
      /\ \A q \in Run : q # r => result'[q] = result[q]
  BY DEF TypeInv, TypeOK, Parsed
<1>2. pc' \in [Run -> {"idle", "look", "wait", "parse", "publish", "preload",
                      "admit", "admitPreload", "close"}]
  BY <1>1 DEF TypeInv, TypeOK
<1>3. TypeOK'
  BY <1>1, <1>2, SpendType DEF TypeInv, TypeOK, Tree, cacheVars, history
<1>4. ASSUME NEW q \in Run PROVE RegistersOf(q)'
  <2>1. CASE q = r
    BY <1>1, <2>1 DEF TypeInv, TypeOK, Registers, RegistersOf, Busy, Hosting,
       Admitting, Tree
  <2>2. CASE q # r
    <3>1. pc'[q] = pc[q] /\ result'[q] = result[q]
      BY <1>1, <2>2 DEF TypeInv, TypeOK
    <3> QED BY <1>1, <3>1 DEF TypeInv, Registers, RegistersOf, Busy, Hosting,
            Admitting, Tree
  <2> QED BY <2>1, <2>2
<1> QED BY <1>3, <1>4 DEF TypeInv, Registers

LEMMA ParseType ==
    ASSUME TypeInv, NEW r \in Run, NEW size \in Sizes, Parse(r, size)
    PROVE  TypeInv'
<1>1. Expand[req[r].path] \in Nat /\ size \in Nat /\ "ok" \in Outcome
  BY FileResolverAssumption
  DEF Parse, TypeInv, TypeOK, Registers, RegistersOf, Request, Outcome
<1> QED BY <1>1, ParsedType DEF Parse

LEMMA ExpandTooMuchType ==
    ASSUME TypeInv, NEW r \in Run, ExpandTooMuch(r)
    PROVE  TypeInv'
<1>1. Expand[req[r].path] \in Nat /\ "allowance" \in Outcome
  BY FileResolverAssumption
  DEF ExpandTooMuch, TypeInv, TypeOK, Registers, RegistersOf, Request, Outcome
<1> QED BY <1>1, ParsedType DEF ExpandTooMuch

LEMMA ReadFailsType ==
    ASSUME TypeInv, NEW r \in Run, ReadFails(r)
    PROVE  TypeInv'
<1>1. Expand[req[r].path] \in Nat /\ "file" \in Outcome
  BY FileResolverAssumption
  DEF ReadFails, TypeInv, TypeOK, Registers, RegistersOf, Request, Outcome
<1>2. PICK n \in 0..Expand[req[r].path] : Spend(r, n)
  BY DEF ReadFails
<1>3. n \in Nat
  BY <1>1, <1>2
<1> QED BY <1>1, <1>2, <1>3, ParsedType DEF ReadFails

LEMMA PublishType ==
    ASSUME TypeInv, NEW r \in Run, Publish(r)
    PROVE  TypeInv'
<1> USE FileResolverAssumption
<1>1. TypeOK'
  BY DEF TypeInv, TypeOK, Registers, RegistersOf, Publish, Forget, Without, Tree, Request, cacheVars, runVars, history
<1>2. Registers'
  BY DEF TypeInv, TypeOK, Registers, RegistersOf, Publish, Forget, Without, Busy, Hosting, Admitting, Tree, Request, cacheVars, runVars, history
<1> QED BY <1>1, <1>2 DEF TypeInv

LEMMA EvictType ==
    ASSUME TypeInv, NEW r \in Run, NEW victim \in Path, Evict(r, victim)
    PROVE  TypeInv'
<1> USE FileResolverAssumption
<1>1. TypeOK'
  <2>1. /\ parses' \in Seq(ParseRec) /\ mu' \in Run \cup {None}
        /\ loads' \in 0..LoadMax
    BY DEF TypeInv, TypeOK, Evict, Forget, Tree
  <2>2. /\ DOMAIN cache' \subseteq Path
        /\ \A q \in DOMAIN cache' : cache'[q] \in Tree'
    BY DEF TypeInv, TypeOK, Evict, Forget, Tree, cacheVars, With, Without,
       Registers, RegistersOf, Busy, Admitting
  <2>3. /\ DOMAIN sizes' \subseteq Path
        /\ \A q \in DOMAIN sizes' : sizes'[q] \in Nat
    BY DEF TypeInv, TypeOK, Evict, Forget, cacheVars, With, Without,
       Registers, RegistersOf, Request, Admitting
  <2>4. cacheBytes' \in Int
    BY DEF TypeInv, TypeOK, Evict, Forget, cacheVars
  <2>5. /\ DOMAIN inflight' \subseteq Key
        /\ \A k \in DOMAIN inflight' : inflight'[k] \in Tree'
    BY DEF TypeInv, TypeOK, Evict, Forget, Tree, Key, KeyOf, With,
       Without, Registers, RegistersOf, Request
  <2>6. pc' \in [Run -> {"idle", "look", "wait", "parse", "publish",
                            "preload", "admit", "admitPreload", "close"}]
    BY DEF TypeInv, TypeOK, Evict, Forget
  <2>7. req' \in [Run -> Request \cup {NoRequest}]
    BY DEF TypeInv, TypeOK, Evict, Forget, runVars
  <2>8. /\ call' \in [Run -> 0..Len(parses')]
        /\ joined' \in [Run -> 0..Len(parses')]
    BY DEF TypeInv, TypeOK, Evict, Forget, runVars, Tree
  <2>9. /\ result' \in [Run -> [size : Nat, end : Outcome]]
        /\ spent' \in [Run -> 0..Ceiling + 1]
    BY DEF TypeInv, TypeOK, Evict, Forget, runVars, Outcome
  <2>10. got' \subseteq [to : Run, path : Path, pos : BOOLEAN, tree : Tree',
                        joined : 0..Len(parses')]
    BY DEF TypeInv, TypeOK, Evict, Forget, Tree, Registers, RegistersOf, Request,
       history, Busy
  <2>11. denied' \subseteq [to : Run, by : Run, why : Outcome]
    BY DEF TypeInv, TypeOK, Evict, Forget, Registers, RegistersOf, Busy, Tree,
       ParseRec, Outcome, history
  <2>12. dropped' \subseteq Path
    BY DEF TypeInv, TypeOK, Evict, Forget, Registers, RegistersOf, Request, Admitting,
       Busy, history
  <2> QED BY <2>1, <2>2, <2>3, <2>4, <2>5, <2>6, <2>7, <2>8, <2>9, <2>10,
             <2>11, <2>12 DEF TypeOK
<1>2. Registers'
  BY DEF TypeInv, TypeOK, Registers, RegistersOf, Evict, Forget, Without, Busy, Hosting, Admitting, Tree, Request, cacheVars, runVars, history
<1> QED BY <1>1, <1>2 DEF TypeInv

LEMMA RejectType ==
    ASSUME TypeInv, NEW r \in Run, Reject(r)
    PROVE  TypeInv'
<1> USE FileResolverAssumption
<1>1. TypeOK'
  <2>1. /\ parses' \in Seq(ParseRec) /\ mu' \in Run \cup {None}
        /\ loads' \in 0..LoadMax
    BY DEF TypeInv, TypeOK, Reject, Unlock, Tree
  <2>2. /\ DOMAIN cache' \subseteq Path
        /\ \A q \in DOMAIN cache' : cache'[q] \in Tree'
    BY DEF TypeInv, TypeOK, Reject, Unlock, Tree, cacheVars, With,
       Without, Registers, RegistersOf, Busy, Admitting
  <2>3. /\ DOMAIN sizes' \subseteq Path
        /\ \A q \in DOMAIN sizes' : sizes'[q] \in Nat
    BY DEF TypeInv, TypeOK, Reject, Unlock, cacheVars, With, Without,
       Registers, RegistersOf, Request, Admitting
  <2>4. cacheBytes' \in Int
    BY DEF TypeInv, TypeOK, Reject, Unlock, cacheVars
  <2>5. /\ DOMAIN inflight' \subseteq Key
        /\ \A k \in DOMAIN inflight' : inflight'[k] \in Tree'
    BY DEF TypeInv, TypeOK, Reject, Unlock, Tree, Key, KeyOf, With,
       Without, Registers, RegistersOf, Request
  <2>6. pc' \in [Run -> {"idle", "look", "wait", "parse", "publish",
                            "preload", "admit", "admitPreload", "close"}]
    BY DEF TypeInv, TypeOK, Reject, Unlock
  <2>7. req' \in [Run -> Request \cup {NoRequest}]
    BY DEF TypeInv, TypeOK, Reject, Unlock, runVars
  <2>8. /\ call' \in [Run -> 0..Len(parses')]
        /\ joined' \in [Run -> 0..Len(parses')]
    BY DEF TypeInv, TypeOK, Reject, Unlock, runVars, Tree
  <2>9. /\ result' \in [Run -> [size : Nat, end : Outcome]]
        /\ spent' \in [Run -> 0..Ceiling + 1]
    BY DEF TypeInv, TypeOK, Reject, Unlock, runVars, Outcome
  <2>10. got' \subseteq [to : Run, path : Path, pos : BOOLEAN, tree : Tree',
                        joined : 0..Len(parses')]
    BY DEF TypeInv, TypeOK, Reject, Unlock, Tree, Registers, RegistersOf, Request,
       history, Busy
  <2>11. denied' \subseteq [to : Run, by : Run, why : Outcome]
    BY DEF TypeInv, TypeOK, Reject, Unlock, Registers, RegistersOf, Busy, Tree,
       ParseRec, Outcome, history
  <2>12. dropped' \subseteq Path
    BY DEF TypeInv, TypeOK, Reject, Unlock, Registers, RegistersOf, Request, Admitting,
       Busy, history
  <2> QED BY <2>1, <2>2, <2>3, <2>4, <2>5, <2>6, <2>7, <2>8, <2>9, <2>10,
             <2>11, <2>12 DEF TypeOK
<1>2. Registers'
  BY DEF TypeInv, TypeOK, Registers, RegistersOf, Reject, Unlock, Without, Busy, Hosting, Admitting, Tree, Request, cacheVars, runVars, history
<1> QED BY <1>1, <1>2 DEF TypeInv

LEMMA StoreType ==
    ASSUME TypeInv, NEW r \in Run, Store(r)
    PROVE  TypeInv'
<1> USE FileResolverAssumption
<1>1. TypeOK'
  <2>1. /\ parses' \in Seq(ParseRec) /\ mu' \in Run \cup {None}
        /\ loads' \in 0..LoadMax
    BY DEF TypeInv, TypeOK, Store, Unlock, Tree
  <2>2. /\ DOMAIN cache' \subseteq Path
        /\ \A q \in DOMAIN cache' : cache'[q] \in Tree'
    <3>1. req[r].path \in Path /\ call[r] \in Tree
      BY DEF TypeInv, Registers, RegistersOf, Store, Admitting, Busy, Request
    <3>2. UNCHANGED parses /\ cache' = With(cache, req[r].path, call[r])
      BY DEF Store, Unlock
    <3> QED BY <3>1, <3>2 DEF TypeInv, TypeOK, With, Tree
  <2>3. /\ DOMAIN sizes' \subseteq Path
        /\ \A q \in DOMAIN sizes' : sizes'[q] \in Nat
    BY DEF TypeInv, TypeOK, Store, Unlock, cacheVars, With, Without,
       Registers, RegistersOf, Request, Admitting
  <2>4. cacheBytes' \in Int
    BY DEF TypeInv, TypeOK, Store, Unlock, cacheVars
  <2>5. /\ DOMAIN inflight' \subseteq Key
        /\ \A k \in DOMAIN inflight' : inflight'[k] \in Tree'
    BY DEF TypeInv, TypeOK, Store, Unlock, Tree, Key, KeyOf, With,
       Without, Registers, RegistersOf, Request
  <2>6. pc' \in [Run -> {"idle", "look", "wait", "parse", "publish",
                            "preload", "admit", "admitPreload", "close"}]
    BY DEF TypeInv, TypeOK, Store, Unlock
  <2>7. req' \in [Run -> Request \cup {NoRequest}]
    BY DEF TypeInv, TypeOK, Store, Unlock, runVars
  <2>8. /\ call' \in [Run -> 0..Len(parses')]
        /\ joined' \in [Run -> 0..Len(parses')]
    BY DEF TypeInv, TypeOK, Store, Unlock, runVars, Tree
  <2>9. /\ result' \in [Run -> [size : Nat, end : Outcome]]
        /\ spent' \in [Run -> 0..Ceiling + 1]
    BY DEF TypeInv, TypeOK, Store, Unlock, runVars, Outcome
  <2>10. got' \subseteq [to : Run, path : Path, pos : BOOLEAN, tree : Tree',
                        joined : 0..Len(parses')]
    BY DEF TypeInv, TypeOK, Store, Unlock, Tree, Registers, RegistersOf, Request,
       history, Busy
  <2>11. denied' \subseteq [to : Run, by : Run, why : Outcome]
    BY DEF TypeInv, TypeOK, Store, Unlock, Registers, RegistersOf, Busy, Tree,
       ParseRec, Outcome, history
  <2>12. dropped' \subseteq Path
    BY DEF TypeInv, TypeOK, Store, Unlock, Registers, RegistersOf, Request, Admitting,
       Busy, history
  <2> QED BY <2>1, <2>2, <2>3, <2>4, <2>5, <2>6, <2>7, <2>8, <2>9, <2>10,
             <2>11, <2>12 DEF TypeOK
<1>2. Registers'
  BY DEF TypeInv, TypeOK, Registers, RegistersOf, Store, Unlock, With, Without, Busy, Hosting, Admitting, Tree, Request, cacheVars, runVars, history
<1> QED BY <1>1, <1>2 DEF TypeInv

LEMMA AbandonType ==
    ASSUME TypeInv, NEW r \in Run, Abandon(r)
    PROVE  TypeInv'
<1> USE FileResolverAssumption
<1>1. TypeOK'
  BY DEF TypeInv, TypeOK, Registers, RegistersOf, Abandon, Without, Tree, Request, cacheVars, runVars, history
<1>2. Registers'
  BY DEF TypeInv, TypeOK, Registers, RegistersOf, Abandon, Without, Busy, Hosting, Admitting, Tree, Request, cacheVars, runVars, history
<1> QED BY <1>1, <1>2 DEF TypeInv

LEMMA CloseFacts ==
    ASSUME TypeInv, NEW r \in Run, Close(r)
    PROVE  /\ /\ parses' \in Seq(ParseRec)
              /\ Len(parses') = Len(parses) /\ Len(parses) \in Nat
              /\ Tree' = Tree /\ call[r] \in Tree /\ req[r] \in Request
              /\ result[r].end \in Outcome
              /\ \A t \in Tree :
                    /\ parses'[t].path = parses[t].path
                    /\ parses'[t].pos = parses[t].pos
                    /\ parses'[t].by = parses[t].by
                    /\ parses'[t].host = parses[t].host
                    /\ parses'[t].end = IF t = call[r] THEN result[r].end
                                       ELSE parses[t].end
           /\ /\ pc[r] = "close" /\ pc' = [pc EXCEPT ![r] = "idle"]
              /\ UNCHANGED <<cacheVars, inflight, mu, runVars, spent, loads, dropped>>
           /\ /\ \/ UNCHANGED got
                 \/ got' = got \cup {[to |-> r, path |-> req[r].path,
                                      pos |-> req[r].pos, tree |-> call[r],
                                      joined |-> joined[r]]}
              /\ \/ UNCHANGED denied
                 \/ denied' = denied \cup {[to |-> r, by |-> parses[call[r]].by,
                                            why |-> result[r].end]}
           /\ parses[call[r]].by = r
<1> DEFINE e == result[r].end
<1>0. /\ parses' \in Seq(ParseRec)
      /\ Len(parses') = Len(parses) /\ Len(parses) \in Nat
      /\ Tree' = Tree /\ call[r] \in Tree /\ req[r] \in Request
      /\ e \in Outcome
      /\ \A t \in Tree :
            /\ parses'[t].path = parses[t].path
            /\ parses'[t].pos = parses[t].pos
            /\ parses'[t].by = parses[t].by
            /\ parses'[t].host = parses[t].host
            /\ parses'[t].end = IF t = call[r] THEN e ELSE parses[t].end
  <2>1. call[r] \in 1..Len(parses) /\ req[r] \in Request
    BY DEF Close, TypeInv, Registers, RegistersOf, Busy, Tree
  <2>2. e \in Outcome
    BY DEF TypeInv, TypeOK
  <2>3. parses' = [parses EXCEPT ![call[r]].end = e]
    BY DEF Close
  <2> HIDE DEF e
  <2> QED BY <2>1, <2>2, <2>3, EndFacts DEF TypeInv, TypeOK, Tree
<1>10. /\ pc[r] = "close" /\ pc' = [pc EXCEPT ![r] = "idle"]
       /\ UNCHANGED <<cacheVars, inflight, mu, runVars, spent, loads, dropped>>
  BY DEF Close, Return, Refuse
<1>11. /\ \/ UNCHANGED got
          \/ got' = got \cup {[to |-> r, path |-> req[r].path,
                               pos |-> req[r].pos, tree |-> call[r],
                               joined |-> joined[r]]}
       /\ \/ UNCHANGED denied
          \/ denied' = denied \cup {[to |-> r, by |-> parses[call[r]].by,
                                     why |-> e]}
  BY DEF Close, Return, Refuse
<1>12. parses[call[r]].by = r
  BY <1>10 DEF TypeInv, Registers, RegistersOf, Busy
<1> QED BY <1>0, <1>10, <1>11, <1>12

LEMMA CloseType ==
    ASSUME TypeInv, NEW r \in Run, Close(r)
    PROVE  TypeInv'
<1> USE FileResolverAssumption
<1> DEFINE e == result[r].end
<1>0. /\ parses' \in Seq(ParseRec)
      /\ Len(parses') = Len(parses) /\ Len(parses) \in Nat
      /\ Tree' = Tree /\ call[r] \in Tree /\ req[r] \in Request
      /\ e \in Outcome
      /\ \A t \in Tree :
            /\ parses'[t].path = parses[t].path
            /\ parses'[t].pos = parses[t].pos
            /\ parses'[t].by = parses[t].by
            /\ parses'[t].host = parses[t].host
            /\ parses'[t].end = IF t = call[r] THEN e ELSE parses[t].end
  BY CloseFacts
<1>10. /\ pc[r] = "close" /\ pc' = [pc EXCEPT ![r] = "idle"]
       /\ UNCHANGED <<cacheVars, inflight, mu, runVars, spent, loads, dropped>>
  BY CloseFacts
<1>11. /\ \/ UNCHANGED got
          \/ got' = got \cup {[to |-> r, path |-> req[r].path,
                               pos |-> req[r].pos, tree |-> call[r],
                               joined |-> joined[r]]}
       /\ \/ UNCHANGED denied
          \/ denied' = denied \cup {[to |-> r, by |-> parses[call[r]].by,
                                     why |-> e]}
  BY CloseFacts
<1>12. parses[call[r]].by = r
  BY CloseFacts
<1> HIDE DEF e
<1>1. TypeOK'
  <2>1. /\ parses' \in Seq(ParseRec) /\ mu' \in Run \cup {None}
        /\ loads' \in 0..LoadMax
    BY <1>0, <1>10 DEF TypeInv, TypeOK, Tree
  <2>2. /\ DOMAIN cache' \subseteq Path
        /\ \A q \in DOMAIN cache' : cache'[q] \in Tree'
    BY <1>0, <1>10 DEF TypeInv, TypeOK, Tree, cacheVars
  <2>3. /\ DOMAIN sizes' \subseteq Path
        /\ \A q \in DOMAIN sizes' : sizes'[q] \in Nat
    BY <1>0, <1>10 DEF TypeInv, TypeOK, cacheVars
  <2>4. cacheBytes' \in Int
    BY <1>0, <1>10 DEF TypeInv, TypeOK, cacheVars
  <2>5. /\ DOMAIN inflight' \subseteq Key
        /\ \A k \in DOMAIN inflight' : inflight'[k] \in Tree'
    BY <1>0, <1>10 DEF TypeInv, TypeOK, Tree, Key
  <2>6. pc' \in [Run -> {"idle", "look", "wait", "parse", "publish",
                            "preload", "admit", "admitPreload", "close"}]
    BY <1>0, <1>10 DEF TypeInv, TypeOK
  <2>7. req' \in [Run -> Request \cup {NoRequest}]
    BY <1>0, <1>10 DEF TypeInv, TypeOK, runVars
  <2>8. /\ call' \in [Run -> 0..Len(parses')]
        /\ joined' \in [Run -> 0..Len(parses')]
    BY <1>0, <1>10 DEF TypeInv, TypeOK, runVars, Tree
  <2>9. /\ result' \in [Run -> [size : Nat, end : Outcome]]
        /\ spent' \in [Run -> 0..Ceiling + 1]
    BY <1>0, <1>10 DEF TypeInv, TypeOK, runVars, Outcome
  <2>10. got' \subseteq [to : Run, path : Path, pos : BOOLEAN, tree : Tree',
                        joined : 0..Len(parses')]
    BY <1>0, <1>11 DEF TypeInv, TypeOK, Request
  <2>11. denied' \subseteq [to : Run, by : Run, why : Outcome]
    BY <1>0, <1>11, <1>12 DEF TypeInv, TypeOK
  <2>12. dropped' \subseteq Path
    BY <1>0, <1>10 DEF TypeInv, TypeOK, history
  <2> QED BY <2>1, <2>2, <2>3, <2>4, <2>5, <2>6, <2>7, <2>8, <2>9, <2>10,
             <2>11, <2>12 DEF TypeOK
<1>2. Registers'
  <2>1. RegistersOf(r)'
    <3>1. pc'[r] = "idle" /\ mu' = mu
      BY <1>10 DEF TypeInv, TypeOK
    <3>2. mu # r
      BY <1>10 DEF TypeInv, Registers, RegistersOf, Admitting
    <3> QED BY <3>1, <3>2 DEF RegistersOf, Busy, Admitting
  <2>2. ASSUME NEW q \in Run, q # r PROVE RegistersOf(q)'
    <3>1. pc'[q] = pc[q] /\ UNCHANGED <<call, req, result, mu>>
      BY <1>10, <2>2 DEF TypeInv, TypeOK, runVars
    <3>2. Busy(q) => call[q] \in Tree /\ call[q] # call[r]
      BY <1>12, <2>2 DEF TypeInv, Registers, RegistersOf
    <3> QED BY <1>0, <3>1, <3>2 DEF TypeInv, Registers, RegistersOf, Busy,
            Hosting, Admitting
  <2> QED BY <2>1, <2>2 DEF Registers
<1> QED BY <1>1, <1>2 DEF TypeInv

LEMMA WakeType ==
    ASSUME TypeInv, NEW r \in Run, Wake(r)
    PROVE  TypeInv'
<1> USE FileResolverAssumption
<1>0. /\ call[r] \in Tree /\ parses[call[r]] \in ParseRec
      /\ req[r] \in Request
  BY DEF Wake, TypeInv, TypeOK, Registers, RegistersOf, Tree
<1>10. /\ pc[r] = "wait"
       /\ \/ pc' = [pc EXCEPT ![r] = "look"]
          \/ pc' = [pc EXCEPT ![r] = "idle"]
       /\ joined' = [joined EXCEPT ![r] = call[r]]
       /\ UNCHANGED <<cacheVars, inflight, mu, parses, req, call, result,
                      spent, loads, got, dropped>>
  BY DEF Wake, Refuse
<1>11. \/ UNCHANGED denied
       \/ /\ denied' = denied \cup {[to |-> r, by |-> parses[call[r]].by,
                                     why |-> parses[call[r]].end]}
          /\ parses[call[r]].end # "open"
  BY DEF Wake, Refuse
<1>1. TypeOK'
  <2>1. /\ parses' \in Seq(ParseRec) /\ mu' \in Run \cup {None}
        /\ loads' \in 0..LoadMax
    BY <1>0, <1>10 DEF TypeInv, TypeOK, Tree
  <2>2. /\ DOMAIN cache' \subseteq Path
        /\ \A q \in DOMAIN cache' : cache'[q] \in Tree'
    BY <1>0, <1>10 DEF TypeInv, TypeOK, Tree, cacheVars
  <2>3. /\ DOMAIN sizes' \subseteq Path
        /\ \A q \in DOMAIN sizes' : sizes'[q] \in Nat
    BY <1>0, <1>10 DEF TypeInv, TypeOK, cacheVars
  <2>4. cacheBytes' \in Int
    BY <1>0, <1>10 DEF TypeInv, TypeOK, cacheVars
  <2>5. /\ DOMAIN inflight' \subseteq Key
        /\ \A k \in DOMAIN inflight' : inflight'[k] \in Tree'
    BY <1>0, <1>10 DEF TypeInv, TypeOK, Tree, Key
  <2>6. pc' \in [Run -> {"idle", "look", "wait", "parse", "publish",
                            "preload", "admit", "admitPreload", "close"}]
    BY <1>0, <1>10 DEF TypeInv, TypeOK
  <2>7. req' \in [Run -> Request \cup {NoRequest}]
    BY <1>0, <1>10 DEF TypeInv, TypeOK, runVars
  <2>8. /\ call' \in [Run -> 0..Len(parses')]
        /\ joined' \in [Run -> 0..Len(parses')]
    BY <1>0, <1>10 DEF TypeInv, TypeOK, runVars, Tree
  <2>9. /\ result' \in [Run -> [size : Nat, end : Outcome]]
        /\ spent' \in [Run -> 0..Ceiling + 1]
    BY <1>0, <1>10 DEF TypeInv, TypeOK, runVars, Outcome
  <2>10. got' \subseteq [to : Run, path : Path, pos : BOOLEAN, tree : Tree',
                        joined : 0..Len(parses')]
    BY <1>0, <1>10 DEF TypeInv, TypeOK, Tree, history
  <2>11. denied' \subseteq [to : Run, by : Run, why : Outcome]
    BY <1>0, <1>11 DEF TypeInv, TypeOK, ParseRec, Outcome
  <2>12. dropped' \subseteq Path
    BY <1>0, <1>10 DEF TypeInv, TypeOK, history
  <2> QED BY <2>1, <2>2, <2>3, <2>4, <2>5, <2>6, <2>7, <2>8, <2>9, <2>10,
             <2>11, <2>12 DEF TypeOK
<1>2. Registers'
  <2>1. RegistersOf(r)'
    BY <1>0, <1>10 DEF TypeInv, TypeOK, Registers, RegistersOf, Busy, Hosting,
       Admitting
  <2>2. ASSUME NEW q \in Run, q # r PROVE RegistersOf(q)'
    <3>1. pc'[q] = pc[q] /\ UNCHANGED <<call, req, result, mu, parses>>
      BY <1>10, <2>2 DEF TypeInv, TypeOK
    <3> QED BY <3>1 DEF TypeInv, Registers, RegistersOf, Busy, Hosting,
            Admitting, Tree
  <2> QED BY <2>1, <2>2 DEF Registers
<1> QED BY <1>1, <1>2 DEF TypeInv

LEMMA PreloadFacts ==
    ASSUME TypeInv, NEW r \in Run, NEW p \in Path, NEW pos \in BOOLEAN, Preload(r, p, pos)
    PROVE  /\ /\ parses' \in Seq(ParseRec)
              /\ Len(parses') = Len(parses) + 1 /\ Len(parses) \in Nat
              /\ parses'[Len(parses')] = [path |-> p, pos |-> pos, by |-> r,
                                          host |-> TRUE, end |-> "ok"]
              /\ \A t \in Tree : parses'[t] = parses[t]
           /\ /\ pc[r] = "idle" /\ loads < LoadMax /\ loads' = loads + 1
              /\ pc' = [pc EXCEPT ![r] = "preload"]
              /\ req' = [req EXCEPT ![r] = [path |-> p, pos |-> pos, own |-> FALSE]]
              /\ call' = [call EXCEPT ![r] = Len(parses')]
              /\ result' = [result EXCEPT ![r] = [size |-> 0, end |-> "ok"]]
              /\ UNCHANGED <<cacheVars, inflight, mu, joined, spent, history>>
<1>0. /\ parses' \in Seq(ParseRec)
      /\ Len(parses') = Len(parses) + 1 /\ Len(parses) \in Nat
      /\ parses'[Len(parses')] = [path |-> p, pos |-> pos, by |-> r,
                                  host |-> TRUE, end |-> "ok"]
      /\ \A t \in Tree : parses'[t] = parses[t]
  <2>1. [path |-> p, pos |-> pos, by |-> r, host |-> TRUE, end |-> "ok"]
            \in ParseRec
    BY DEF ParseRec, Outcome
  <2> QED BY <2>1, BeginFacts DEF Preload, TypeInv, TypeOK, Tree
<1>10. /\ pc[r] = "idle" /\ loads < LoadMax /\ loads' = loads + 1
       /\ pc' = [pc EXCEPT ![r] = "preload"]
       /\ req' = [req EXCEPT ![r] = [path |-> p, pos |-> pos, own |-> FALSE]]
       /\ call' = [call EXCEPT ![r] = Len(parses')]
       /\ result' = [result EXCEPT ![r] = [size |-> 0, end |-> "ok"]]
       /\ UNCHANGED <<cacheVars, inflight, mu, joined, spent, history>>
  BY DEF Preload
<1> QED BY <1>0, <1>10

LEMMA PreloadType ==
    ASSUME TypeInv, NEW r \in Run, NEW p \in Path, NEW pos \in BOOLEAN, Preload(r, p, pos)
    PROVE  TypeInv'
<1> USE FileResolverAssumption
<1>0. /\ parses' \in Seq(ParseRec)
      /\ Len(parses') = Len(parses) + 1 /\ Len(parses) \in Nat
      /\ parses'[Len(parses')] = [path |-> p, pos |-> pos, by |-> r,
                                  host |-> TRUE, end |-> "ok"]
      /\ \A t \in Tree : parses'[t] = parses[t]
  BY PreloadFacts
<1>10. /\ pc[r] = "idle" /\ loads < LoadMax /\ loads' = loads + 1
       /\ pc' = [pc EXCEPT ![r] = "preload"]
       /\ req' = [req EXCEPT ![r] = [path |-> p, pos |-> pos, own |-> FALSE]]
       /\ call' = [call EXCEPT ![r] = Len(parses')]
       /\ result' = [result EXCEPT ![r] = [size |-> 0, end |-> "ok"]]
       /\ UNCHANGED <<cacheVars, inflight, mu, joined, spent, history>>
  BY DEF Preload
<1>1. TypeOK'
  <2>1. /\ parses' \in Seq(ParseRec) /\ mu' \in Run \cup {None}
        /\ loads' \in 0..LoadMax
    BY <1>0, <1>10 DEF TypeInv, TypeOK, Tree
  <2>2. /\ DOMAIN cache' \subseteq Path
        /\ \A q \in DOMAIN cache' : cache'[q] \in Tree'
    BY <1>0, <1>10 DEF TypeInv, TypeOK, Tree, cacheVars
  <2>3. /\ DOMAIN sizes' \subseteq Path
        /\ \A q \in DOMAIN sizes' : sizes'[q] \in Nat
    BY <1>0, <1>10 DEF TypeInv, TypeOK, cacheVars
  <2>4. cacheBytes' \in Int
    BY <1>0, <1>10 DEF TypeInv, TypeOK, cacheVars
  <2>5. /\ DOMAIN inflight' \subseteq Key
        /\ \A k \in DOMAIN inflight' : inflight'[k] \in Tree'
    BY <1>0, <1>10 DEF TypeInv, TypeOK, Tree, Key
  <2>6. pc' \in [Run -> {"idle", "look", "wait", "parse", "publish",
                            "preload", "admit", "admitPreload", "close"}]
    BY <1>0, <1>10 DEF TypeInv, TypeOK
  <2>7. req' \in [Run -> Request \cup {NoRequest}]
    BY <1>0, <1>10 DEF TypeInv, TypeOK, Request
  <2>8. /\ call' \in [Run -> 0..Len(parses')]
        /\ joined' \in [Run -> 0..Len(parses')]
    BY <1>0, <1>10 DEF TypeInv, TypeOK, runVars, Tree
  <2>9. /\ result' \in [Run -> [size : Nat, end : Outcome]]
        /\ spent' \in [Run -> 0..Ceiling + 1]
    BY <1>0, <1>10 DEF TypeInv, TypeOK, runVars, Outcome
  <2>10. got' \subseteq [to : Run, path : Path, pos : BOOLEAN, tree : Tree',
                        joined : 0..Len(parses')]
    BY <1>0, <1>10 DEF TypeInv, TypeOK, Tree, history
  <2>11. denied' \subseteq [to : Run, by : Run, why : Outcome]
    BY <1>0, <1>10 DEF TypeInv, TypeOK, history
  <2>12. dropped' \subseteq Path
    BY <1>0, <1>10 DEF TypeInv, TypeOK, history
  <2> QED BY <2>1, <2>2, <2>3, <2>4, <2>5, <2>6, <2>7, <2>8, <2>9, <2>10,
             <2>11, <2>12 DEF TypeOK
<1>2. Registers'
  <2>1. RegistersOf(r)'
    <3>1. /\ pc'[r] = "preload" /\ call'[r] = Len(parses') /\ mu' = mu
          /\ req'[r] = [path |-> p, pos |-> pos, own |-> FALSE]
          /\ result'[r] = [size |-> 0, end |-> "ok"]
      BY <1>10 DEF TypeInv, TypeOK
    <3>2. Len(parses') \in Tree'
      BY <1>0 DEF Tree
    <3>3. req'[r] \in Request
      BY <3>1 DEF Request
    <3>4. mu # r
      BY <1>10 DEF TypeInv, Registers, RegistersOf, Admitting
    <3>5. /\ parses'[call'[r]].path = req'[r].path
          /\ parses'[call'[r]].pos = req'[r].pos
          /\ parses'[call'[r]].by = r
          /\ parses'[call'[r]].host = TRUE
          /\ parses'[call'[r]].end = "ok"
      BY <1>0, <3>1
    <3>6. Hosting(r)' = TRUE /\ Admitting(r)' = FALSE /\ pc'[r] # "wait"
      BY <3>1 DEF Hosting, Admitting
    <3>7. result'[r].end = "ok"
      BY <3>1
    <3>8. Admitting(r)' <=> mu' = r
      BY <3>1, <3>4, <3>6
    <3>9. /\ (IF Hosting(r)' THEN "ok" ELSE "open") = "ok"
          /\ parses'[call'[r]].host = Hosting(r)'
      BY <3>5, <3>6
    <3> QED BY <3>1, <3>2, <3>3, <3>5, <3>6, <3>7, <3>8, <3>9
            DEF RegistersOf
  <2>2. ASSUME NEW q \in Run, q # r PROVE RegistersOf(q)'
    <3>1. /\ pc'[q] = pc[q] /\ call'[q] = call[q] /\ req'[q] = req[q]
          /\ result'[q] = result[q] /\ UNCHANGED mu
      BY <1>10, <2>2 DEF TypeInv, TypeOK
    <3>2. \A t \in Tree : t \in Tree' /\ parses'[t] = parses[t]
      BY <1>0 DEF Tree
    <3> QED BY <3>1, <3>2 DEF TypeInv, Registers, RegistersOf, Busy, Hosting,
            Admitting
  <2> QED BY <2>1, <2>2 DEF Registers
<1> QED BY <1>1, <1>2 DEF TypeInv

LEMMA TypeStutter == TypeInv /\ UNCHANGED vars => TypeInv'
<1> SUFFICES ASSUME TypeInv, UNCHANGED vars PROVE TypeInv'
  OBVIOUS
<1>1. TypeOK'
  BY DEF TypeInv, TypeOK, Tree, vars
<1>2. Registers'
  BY DEF TypeInv, Registers, RegistersOf, Busy, Hosting, Admitting, Tree, vars
<1> QED BY <1>1, <1>2 DEF TypeInv

LEMMA TypeStep == TypeInv /\ [Next]_vars => TypeInv'
<1> SUFFICES ASSUME TypeInv, [Next]_vars PROVE TypeInv'
  OBVIOUS
<1>1. ASSUME NEW r \in Run, NEW p \in Path, NEW pos \in BOOLEAN,
                      NEW own \in BOOLEAN, Load(r, p, pos, own)
      PROVE  TypeInv'
  BY <1>1, LoadType
<1>2. ASSUME NEW r \in Run, Hit(r)
      PROVE  TypeInv'
  BY <1>2, HitType
<1>3. ASSUME NEW r \in Run, Join(r)
      PROVE  TypeInv'
  BY <1>3, JoinType
<1>4. ASSUME NEW r \in Run, Start(r)
      PROVE  TypeInv'
  BY <1>4, StartType
<1>5. ASSUME NEW r \in Run, NEW size \in Sizes, Parse(r, size)
      PROVE  TypeInv'
  BY <1>5, ParseType
<1>6. ASSUME NEW r \in Run, ExpandTooMuch(r)
      PROVE  TypeInv'
  BY <1>6, ExpandTooMuchType
<1>7. ASSUME NEW r \in Run, ReadFails(r)
      PROVE  TypeInv'
  BY <1>7, ReadFailsType
<1>8. ASSUME NEW r \in Run, Publish(r)
      PROVE  TypeInv'
  BY <1>8, PublishType
<1>9. ASSUME NEW r \in Run, NEW victim \in Path, Evict(r, victim)
      PROVE  TypeInv'
  BY <1>9, EvictType
<1>10. ASSUME NEW r \in Run, Reject(r)
      PROVE  TypeInv'
  BY <1>10, RejectType
<1>11. ASSUME NEW r \in Run, Store(r)
      PROVE  TypeInv'
  BY <1>11, StoreType
<1>12. ASSUME NEW r \in Run, Abandon(r)
      PROVE  TypeInv'
  BY <1>12, AbandonType
<1>13. ASSUME NEW r \in Run, Close(r)
      PROVE  TypeInv'
  BY <1>13, CloseType
<1>14. ASSUME NEW r \in Run, Wake(r)
      PROVE  TypeInv'
  BY <1>14, WakeType
<1>15. ASSUME NEW r \in Run, NEW p \in Path, NEW pos \in BOOLEAN,
                      Preload(r, p, pos)
      PROVE  TypeInv'
  BY <1>15, PreloadType
<1> QED
  BY <1>1, <1>2, <1>3, <1>4, <1>5, <1>6, <1>7, <1>8, <1>9, <1>10, <1>11, <1>12,
     <1>13, <1>14, <1>15, TypeStutter DEF Next, Step, Finished

\* TypeOK is an invariant: the variables keep their types, and every tree the
\* cache, the table of loads in flight and the answers name was parsed.
THEOREM TypeCorrect == Spec => []TypeOK
<1>1. TypeInv => TypeOK
  BY DEF TypeInv
<1> QED BY <1>1, TypeInit, TypeStep, PTL DEF Spec

-----------------------------------------------------------------------------
(* Single flight.                                                           *)

\* Two runs never have the same parse for their own.
LEMMA OwnParse ==
    ASSUME TypeInv, NEW q \in Run, NEW r \in Run, Busy(q), Busy(r),
           call[q] = call[r]
    PROVE  q = r
BY DEF TypeInv, Registers, RegistersOf

\* Nor, then, the same key.
LEMMA OwnKey ==
    ASSUME TypeInv, Flights, NEW q \in Run, NEW r \in Run,
           Parsing(q), Parsing(r), KeyOf(q) = KeyOf(r)
    PROVE  q = r
<1>1. call[q] = call[r]
  BY DEF Flights
<1>2. Busy(q) /\ Busy(r)
  BY DEF Parsing, Busy
<1> QED BY <1>1, <1>2, OwnParse

LEMMA FlightsInit == Init => Flights
BY DEF Init, Flights, Parsing, Tree

\* A step that neither starts nor ends a parse.
LEMMA FlightsFrame ==
    ASSUME Flights, UNCHANGED <<inflight, parses>>,
           \A r \in Run : /\ Parsing(r)' <=> Parsing(r)
                          /\ pc'[r] = "close" <=> pc[r] = "close"
                          /\ Parsing(r) \/ pc[r] = "close" =>
                                req'[r] = req[r] /\ call'[r] = call[r]
    PROVE  Flights'
<1>1. ASSUME NEW r \in Run, Parsing(r)'
      PROVE  KeyOf(r)' \in DOMAIN inflight' /\ inflight'[KeyOf(r)'] = call'[r]
  BY <1>1 DEF Flights, KeyOf
<1>2. ASSUME NEW k \in DOMAIN inflight'
      PROVE  \E r \in Run :
                Parsing(r)' /\ KeyOf(r)' = k /\ call'[r] = inflight'[k]
  BY <1>2 DEF Flights, KeyOf
<1>3. ASSUME NEW t \in Tree', parses'[t].end = "open"
      PROVE  \E r \in Run : (Parsing(r)' \/ pc'[r] = "close") /\ call'[r] = t
  BY <1>3 DEF Flights, Tree
<1> QED BY <1>1, <1>2, <1>3 DEF Flights

\* A step that takes a parse off the table of loads in flight.
LEMMA FlightsLeave ==
    ASSUME TypeInv, Flights, NEW r \in Run, Parsing(r),
           pc' = [pc EXCEPT ![r] = "close"],
           inflight' = Without(inflight, KeyOf(r)),
           UNCHANGED <<parses, req, call>>
    PROVE  Flights'
<1>1. /\ pc'[r] = "close" /\ ~Parsing(r)'
      /\ \A q \in Run : q # r => pc'[q] = pc[q]
  BY DEF TypeInv, TypeOK, Parsing
<1>2. ASSUME NEW q \in Run, Parsing(q)'
      PROVE  KeyOf(q)' \in DOMAIN inflight' /\ inflight'[KeyOf(q)'] = call'[q]
  <2>1. q # r /\ Parsing(q) /\ KeyOf(q)' = KeyOf(q)
    BY <1>1, <1>2 DEF Parsing, KeyOf
  <2>2. KeyOf(q) # KeyOf(r)
    BY <2>1, OwnKey
  <2> QED BY <2>1, <2>2 DEF Flights, Without
<1>3. ASSUME NEW k \in DOMAIN inflight'
      PROVE  \E q \in Run :
                Parsing(q)' /\ KeyOf(q)' = k /\ call'[q] = inflight'[k]
  <2>1. k \in DOMAIN inflight /\ k # KeyOf(r) /\ inflight'[k] = inflight[k]
    BY <1>3 DEF Without
  <2>2. PICK q \in Run : Parsing(q) /\ KeyOf(q) = k /\ call[q] = inflight[k]
    BY <2>1 DEF Flights
  <2> QED BY <1>1, <2>1, <2>2 DEF Parsing, KeyOf
<1>4. ASSUME NEW t \in Tree', parses'[t].end = "open"
      PROVE  \E q \in Run : (Parsing(q)' \/ pc'[q] = "close") /\ call'[q] = t
  <2>1. PICK q \in Run : (Parsing(q) \/ pc[q] = "close") /\ call[q] = t
    BY <1>4 DEF Flights, Tree
  <2> QED BY <1>1, <2>1 DEF Parsing
<1> QED BY <1>2, <1>3, <1>4 DEF Flights

LEMMA StartFlights ==
    ASSUME TypeInv, Flights, NEW r \in Run, Start(r)
    PROVE  Flights'
<1>1. /\ pc'[r] = "parse" /\ call'[r] = Len(parses')
      /\ KeyOf(r) \notin DOMAIN inflight
      /\ inflight' = With(inflight, KeyOf(r), Len(parses'))
      /\ UNCHANGED req
      /\ \A q \in Run : q # r => pc'[q] = pc[q] /\ call'[q] = call[q]
      /\ ~Parsing(r) /\ pc[r] # "close"
  BY DEF Start, TypeInv, TypeOK, Parsing
<1>2. ASSUME NEW q \in Run, Parsing(q)'
      PROVE  KeyOf(q)' \in DOMAIN inflight' /\ inflight'[KeyOf(q)'] = call'[q]
  <2>1. CASE q = r
    BY <1>1, <2>1 DEF With, KeyOf
  <2>2. CASE q # r
    <3>1. Parsing(q) /\ KeyOf(q)' = KeyOf(q)
      BY <1>1, <1>2, <2>2 DEF Parsing, KeyOf
    <3> QED BY <1>1, <2>2, <3>1 DEF Flights, With
  <2> QED BY <2>1, <2>2
<1>3. ASSUME NEW k \in DOMAIN inflight'
      PROVE  \E q \in Run :
                Parsing(q)' /\ KeyOf(q)' = k /\ call'[q] = inflight'[k]
  <2>1. CASE k = KeyOf(r)
    BY <1>1, <2>1 DEF With, KeyOf, Parsing
  <2>2. CASE k # KeyOf(r)
    <3>1. k \in DOMAIN inflight /\ inflight'[k] = inflight[k]
      BY <1>1, <1>3, <2>2 DEF With
    <3>2. PICK q \in Run : Parsing(q) /\ KeyOf(q) = k /\ call[q] = inflight[k]
      BY <3>1 DEF Flights
    <3> QED BY <1>1, <3>1, <3>2 DEF Parsing, KeyOf
  <2> QED BY <2>1, <2>2
<1>4. ASSUME NEW t \in Tree', parses'[t].end = "open"
      PROVE  \E q \in Run : (Parsing(q)' \/ pc'[q] = "close") /\ call'[q] = t
  <2>1. CASE t = Len(parses')
    BY <1>1, <2>1 DEF Parsing
  <2>2. CASE t # Len(parses')
    <3>0. /\ Len(parses') = Len(parses) + 1 /\ Len(parses) \in Nat
          /\ \A u \in Tree : parses'[u] = parses[u]
      BY StartFacts
    <3>1. t \in Tree /\ parses'[t] = parses[t]
      BY <1>4, <2>2, <3>0 DEF Tree
    <3>2. PICK q \in Run : (Parsing(q) \/ pc[q] = "close") /\ call[q] = t
      BY <1>4, <3>1 DEF Flights
    <3> QED BY <1>1, <3>2 DEF Parsing
  <2> QED BY <2>1, <2>2
<1> QED BY <1>2, <1>3, <1>4 DEF Flights

LEMMA CloseFlights ==
    ASSUME TypeInv, Flights, NEW r \in Run, Close(r)
    PROVE  Flights'
<1>1. /\ pc[r] = "close" /\ pc'[r] = "idle"
      /\ UNCHANGED <<inflight, req, call>>
      /\ \A q \in Run : q # r => pc'[q] = pc[q]
  BY DEF Close, Return, Refuse, TypeInv, TypeOK, runVars
<1>2. ASSUME NEW q \in Run, Parsing(q)'
      PROVE  KeyOf(q)' \in DOMAIN inflight' /\ inflight'[KeyOf(q)'] = call'[q]
  BY <1>1, <1>2 DEF Flights, Parsing, KeyOf
<1>3. ASSUME NEW k \in DOMAIN inflight'
      PROVE  \E q \in Run :
                Parsing(q)' /\ KeyOf(q)' = k /\ call'[q] = inflight'[k]
  BY <1>1, <1>3 DEF Flights, Parsing, KeyOf
<1>4. ASSUME NEW t \in Tree', parses'[t].end = "open"
      PROVE  \E q \in Run : (Parsing(q)' \/ pc'[q] = "close") /\ call'[q] = t
  <2>1. t \in Tree /\ t # call[r] /\ parses[t].end = "open"
    BY <1>4, CloseFacts DEF Outcome
  <2>2. PICK q \in Run : (Parsing(q) \/ pc[q] = "close") /\ call[q] = t
    BY <2>1 DEF Flights
  <2> QED BY <1>1, <2>1, <2>2 DEF Parsing
<1> QED BY <1>2, <1>3, <1>4 DEF Flights

LEMMA PreloadFlights ==
    ASSUME TypeInv, Flights, NEW r \in Run, NEW p \in Path,
           NEW pos \in BOOLEAN, Preload(r, p, pos)
    PROVE  Flights'
<1>1. /\ pc[r] = "idle" /\ pc'[r] = "preload" /\ UNCHANGED inflight
      /\ \A q \in Run : q # r => /\ pc'[q] = pc[q] /\ call'[q] = call[q]
                                 /\ req'[q] = req[q]
  BY DEF Preload, TypeInv, TypeOK
<1>2. ASSUME NEW q \in Run, Parsing(q)'
      PROVE  KeyOf(q)' \in DOMAIN inflight' /\ inflight'[KeyOf(q)'] = call'[q]
  BY <1>1, <1>2 DEF Flights, Parsing, KeyOf
<1>3. ASSUME NEW k \in DOMAIN inflight'
      PROVE  \E q \in Run :
                Parsing(q)' /\ KeyOf(q)' = k /\ call'[q] = inflight'[k]
  BY <1>1, <1>3 DEF Flights, Parsing, KeyOf
<1>4. ASSUME NEW t \in Tree', parses'[t].end = "open"
      PROVE  \E q \in Run : (Parsing(q)' \/ pc'[q] = "close") /\ call'[q] = t
  <2>0. /\ Len(parses') = Len(parses) + 1 /\ Len(parses) \in Nat
        /\ parses'[Len(parses')] = [path |-> p, pos |-> pos, by |-> r,
                                    host |-> TRUE, end |-> "ok"]
        /\ \A u \in Tree : parses'[u] = parses[u]
    BY PreloadFacts
  <2>1. parses'[Len(parses')].end = "ok"
    BY <2>0
  <2>2. t \in Tree /\ parses[t].end = "open"
    BY <1>4, <2>0, <2>1 DEF Tree
  <2>3. PICK q \in Run : (Parsing(q) \/ pc[q] = "close") /\ call[q] = t
    BY <2>2 DEF Flights
  <2> QED BY <1>1, <2>3 DEF Parsing
<1> QED BY <1>2, <1>3, <1>4 DEF Flights

\* The steps that leave both alone, each the frame's instance.
LEMMA FlightsQuiet ==
    ASSUME TypeInv, Flights, NEW r \in Run,
           \/ \E p \in Path, pos, own \in BOOLEAN : Load(r, p, pos, own)
           \/ Hit(r) \/ Join(r) \/ Wake(r) \/ Publish(r)
           \/ \E victim \in Path : Evict(r, victim)
    PROVE  Flights'
<1>1. UNCHANGED <<inflight, parses>>
  BY DEF Load, Hit, Join, Wake, Publish, Evict
<1>2. \A q \in Run : q # r =>
        /\ pc'[q] = pc[q] /\ req'[q] = req[q] /\ call'[q] = call[q]
  BY DEF TypeInv, TypeOK, Load, Hit, Join, Wake, Publish, Evict, Return,
         Refuse, runVars
<1>3. /\ Parsing(r)' <=> Parsing(r)
      /\ pc'[r] = "close" <=> pc[r] = "close"
      /\ Parsing(r) \/ pc[r] = "close" =>
            req'[r] = req[r] /\ call'[r] = call[r]
  <2>1. CASE \E p \in Path, pos, own \in BOOLEAN : Load(r, p, pos, own)
    BY <2>1 DEF TypeInv, TypeOK, Load, Parsing
  <2>2. CASE Hit(r)
    BY <2>2 DEF TypeInv, TypeOK, Hit, Return, Parsing, runVars
  <2>3. CASE Join(r)
    BY <2>3 DEF TypeInv, TypeOK, Join, Parsing
  <2>4. CASE Wake(r)
    BY <2>4 DEF TypeInv, TypeOK, Wake, Refuse, Parsing
  <2>5. CASE Publish(r)
    BY <2>5 DEF TypeInv, TypeOK, Publish, Parsing, runVars
  <2>6. CASE \E victim \in Path : Evict(r, victim)
    BY <2>6 DEF TypeInv, TypeOK, Evict, Parsing, runVars
  <2> QED BY <2>1, <2>2, <2>3, <2>4, <2>5, <2>6
<1> QED
  <2>1. \A q \in Run : /\ Parsing(q)' <=> Parsing(q)
                       /\ pc'[q] = "close" <=> pc[q] = "close"
                       /\ Parsing(q) \/ pc[q] = "close" =>
                            req'[q] = req[q] /\ call'[q] = call[q]
    BY <1>2, <1>3 DEF Parsing
  <2> QED BY <1>1, <2>1, FlightsFrame

\* parseUncached ends, well or not.
LEMMA FlightsParsed ==
    ASSUME TypeInv, Flights, NEW r \in Run, pc[r] = "parse",
           NEW size, NEW end, Parsed(r, size, end)
    PROVE  Flights'
<1>1. /\ UNCHANGED <<inflight, parses>>
      /\ \A q \in Run : /\ Parsing(q)' <=> Parsing(q)
                        /\ pc'[q] = "close" <=> pc[q] = "close"
                        /\ req'[q] = req[q] /\ call'[q] = call[q]
  BY DEF TypeInv, TypeOK, Parsed, Parsing
<1> QED BY <1>1, FlightsFrame

\* The lock is let go, by a load or by Preload.
LEMMA FlightsUnlock ==
    ASSUME TypeInv, Flights, NEW r \in Run, Admitting(r), Unlock(r)
    PROVE  Flights'
<1>1. CASE pc[r] = "admit"
  <2>1. /\ Parsing(r) /\ pc' = [pc EXCEPT ![r] = "close"]
        /\ inflight' = Without(inflight, KeyOf(r))
        /\ UNCHANGED <<parses, req, call>>
    BY <1>1 DEF Unlock, Parsing, runVars
  <2> QED BY <2>1, FlightsLeave
<1>2. CASE pc[r] = "admitPreload"
  <2>1. /\ UNCHANGED <<inflight, parses>>
        /\ \A q \in Run : /\ Parsing(q)' <=> Parsing(q)
                          /\ pc'[q] = "close" <=> pc[q] = "close"
                          /\ req'[q] = req[q] /\ call'[q] = call[q]
    BY <1>2 DEF TypeInv, TypeOK, Unlock, Parsing, runVars
  <2> QED BY <2>1, FlightsFrame
<1> QED BY <1>1, <1>2 DEF Admitting

LEMMA FlightsStutter == Flights /\ UNCHANGED vars => Flights'
<1> SUFFICES ASSUME Flights, UNCHANGED vars PROVE Flights'
  OBVIOUS
<1>1. /\ UNCHANGED <<inflight, parses>>
      /\ \A q \in Run : /\ Parsing(q)' <=> Parsing(q)
                        /\ pc'[q] = "close" <=> pc[q] = "close"
                        /\ req'[q] = req[q] /\ call'[q] = call[q]
  BY DEF vars, Parsing
<1> QED BY <1>1, FlightsFrame

LEMMA FlightsStep == TypeInv /\ Flights /\ [Next]_vars => Flights'
<1> SUFFICES ASSUME TypeInv, Flights, [Next]_vars PROVE Flights'
  OBVIOUS
<1>1. ASSUME NEW r \in Run,
             \/ \E p \in Path, pos, own \in BOOLEAN : Load(r, p, pos, own)
             \/ Hit(r) \/ Join(r) \/ Wake(r) \/ Publish(r)
             \/ \E victim \in Path : Evict(r, victim)
      PROVE  Flights'
  BY <1>1, FlightsQuiet
<1>2. ASSUME NEW r \in Run, Start(r)
      PROVE  Flights'
  BY <1>2, StartFlights
<1>3. ASSUME NEW r \in Run,
             \/ \E size \in Sizes : Parse(r, size)
             \/ ExpandTooMuch(r) \/ ReadFails(r)
      PROVE  Flights'
  <2>1. pc[r] = "parse" /\ \E size, end : Parsed(r, size, end)
    BY <1>3 DEF Parse, ExpandTooMuch, ReadFails
  <2> QED BY <2>1, FlightsParsed
<1>4. ASSUME NEW r \in Run, Reject(r) \/ Store(r)
      PROVE  Flights'
  BY <1>4, FlightsUnlock DEF Reject, Store
<1>5. ASSUME NEW r \in Run, Abandon(r)
      PROVE  Flights'
  <2>1. /\ Parsing(r) /\ pc' = [pc EXCEPT ![r] = "close"]
        /\ inflight' = Without(inflight, KeyOf(r))
        /\ UNCHANGED <<parses, req, call>>
    BY <1>5 DEF Abandon, Parsing, runVars
  <2> QED BY <2>1, FlightsLeave
<1>6. ASSUME NEW r \in Run, Close(r)
      PROVE  Flights'
  BY <1>6, CloseFlights
<1>7. ASSUME NEW r \in Run, NEW p \in Path, NEW pos \in BOOLEAN,
             Preload(r, p, pos)
      PROVE  Flights'
  BY <1>7, PreloadFlights
<1> QED
  BY <1>1, <1>2, <1>3, <1>4, <1>5, <1>6, <1>7, FlightsStutter
  DEF Next, Step, Finished

LEMMA FlightsInvariant == Spec => [](TypeInv /\ Flights)
<1>1. Init => TypeInv /\ Flights
  BY TypeInit, FlightsInit
<1>2. TypeInv /\ Flights /\ [Next]_vars => (TypeInv /\ Flights)'
  BY TypeStep, FlightsStep
<1> QED BY <1>1, <1>2, PTL DEF Spec

\* SingleFlight is an invariant, however many goroutines share a resolver: no
\* file is parsed twice at once for one kind of request, and a waiter always
\* has a run that will wake it (loadTracked).
THEOREM OneFlight == Spec => []SingleFlight
<1>1. TypeInv /\ Flights => SingleFlight
  <2> SUFFICES ASSUME TypeInv, Flights PROVE SingleFlight
    OBVIOUS
  <2>1. \A r \in Run : Parsing(r) =>
            KeyOf(r) \in DOMAIN inflight /\ inflight[KeyOf(r)] = call[r]
    BY DEF Flights
  <2>2. \A q, r \in Run :
            q # r /\ Parsing(q) /\ Parsing(r) => KeyOf(q) # KeyOf(r)
    BY OwnKey
  <2>3. ASSUME NEW r \in Run, pc[r] = "wait", parses[call[r]].end = "open"
        PROVE  \E q \in Run : /\ Parsing(q) \/ pc[q] = "close"
                              /\ call[q] = call[r]
    <3>1. call[r] \in Tree
      BY <2>3 DEF TypeInv, Registers, RegistersOf
    <3> QED BY <2>3, <3>1 DEF Flights
  <2> QED BY <2>1, <2>2, <2>3 DEF SingleFlight
<1> QED BY <1>1, FlightsInvariant, PTL

-----------------------------------------------------------------------------
(* The trees handed out.                                                    *)

\* A parse that is not being announced stays as good as it is.
LEMMA GoodFrame ==
    ASSUME TypeInv, NEW t \in Tree, parses'[t] = parses[t],
           \A q \in Run : pc[q] = "close" =>
                pc'[q] = "close" /\ call'[q] = call[q] /\ result'[q] = result[q]
    PROVE  Good(t) => Good(t)'
BY DEF Good

\* No step changes what a parse was, nor undoes its success.
LEMMA ParseStep ==
    ASSUME TypeInv, [Next]_vars, NEW t \in Tree
    PROVE  /\ t \in Tree'
           /\ parses'[t].path = parses[t].path
           /\ parses'[t].pos = parses[t].pos
           /\ parses'[t].host = parses[t].host
           /\ Good(t) => Good(t)'
<1>1. ASSUME NEW r \in Run,
             \/ \E p \in Path, pos, own \in BOOLEAN : Load(r, p, pos, own)
             \/ Hit(r) \/ Join(r) \/ Wake(r) \/ Publish(r)
             \/ \E victim \in Path : Evict(r, victim)
      PROVE  /\ UNCHANGED parses
             /\ \A q \in Run : pc[q] = "close" => /\ pc'[q] = "close"
                                                  /\ call'[q] = call[q]
                                                  /\ result'[q] = result[q]
  BY <1>1 DEF TypeInv, TypeOK, Load, Hit, Join, Wake, Publish, Evict, Return,
              Refuse, runVars
<1>2. ASSUME NEW r \in Run,
             \/ \E size \in Sizes : Parse(r, size)
             \/ ExpandTooMuch(r) \/ ReadFails(r)
      PROVE  /\ UNCHANGED parses
             /\ \A q \in Run : pc[q] = "close" => /\ pc'[q] = "close"
                                                  /\ call'[q] = call[q]
                                                  /\ result'[q] = result[q]
  BY <1>2 DEF TypeInv, TypeOK, Parse, ExpandTooMuch, ReadFails, Parsed
<1>3. ASSUME NEW r \in Run, Reject(r) \/ Store(r) \/ Abandon(r)
      PROVE  /\ UNCHANGED parses
             /\ \A q \in Run : pc[q] = "close" => /\ pc'[q] = "close"
                                                  /\ call'[q] = call[q]
                                                  /\ result'[q] = result[q]
  <2>1. UNCHANGED <<parses, call, result>> /\ pc[r] # "close"
    BY <1>3 DEF Reject, Store, Abandon, Unlock, Admitting, runVars
  <2>2. \A q \in Run : q # r => pc'[q] = pc[q]
    BY <1>3 DEF TypeInv, TypeOK, Reject, Store, Abandon, Unlock
  <2> QED BY <2>1, <2>2
<1>4. ASSUME NEW r \in Run, Start(r)
      PROVE  /\ t \in Tree' /\ parses'[t] = parses[t]
             /\ \A q \in Run : pc[q] = "close" => /\ pc'[q] = "close"
                                                  /\ call'[q] = call[q]
                                                  /\ result'[q] = result[q]
  <2>1. /\ Len(parses') = Len(parses) + 1 /\ Len(parses) \in Nat
        /\ \A u \in Tree : parses'[u] = parses[u]
    BY <1>4, StartFacts
  <2>2. /\ pc[r] = "look" /\ UNCHANGED result
        /\ \A q \in Run : q # r => pc'[q] = pc[q] /\ call'[q] = call[q]
    BY <1>4 DEF TypeInv, TypeOK, Start
  <2> QED BY <2>1, <2>2 DEF Tree
<1>5. ASSUME NEW r \in Run, NEW p \in Path, NEW pos \in BOOLEAN,
             Preload(r, p, pos)
      PROVE  /\ t \in Tree' /\ parses'[t] = parses[t]
             /\ \A q \in Run : pc[q] = "close" => /\ pc'[q] = "close"
                                                  /\ call'[q] = call[q]
                                                  /\ result'[q] = result[q]
  <2>1. /\ Len(parses') = Len(parses) + 1 /\ Len(parses) \in Nat
        /\ \A u \in Tree : parses'[u] = parses[u]
    BY <1>5, PreloadFacts
  <2>2. /\ pc[r] = "idle"
        /\ \A q \in Run : q # r => /\ pc'[q] = pc[q] /\ call'[q] = call[q]
                                   /\ result'[q] = result[q]
    BY <1>5 DEF TypeInv, TypeOK, Preload
  <2> QED BY <2>1, <2>2 DEF Tree
<1>6. ASSUME NEW r \in Run, Close(r)
      PROVE  /\ t \in Tree'
             /\ parses'[t].path = parses[t].path
             /\ parses'[t].pos = parses[t].pos
             /\ parses'[t].host = parses[t].host
             /\ Good(t) => Good(t)'
  <2>1. /\ Tree' = Tree
        /\ parses'[t].path = parses[t].path
        /\ parses'[t].pos = parses[t].pos
        /\ parses'[t].host = parses[t].host
        /\ parses'[t].end = IF t = call[r] THEN result[r].end
                            ELSE parses[t].end
    BY <1>6, CloseFacts
  <2>2. /\ pc[r] = "close" /\ UNCHANGED <<call, result>>
        /\ \A q \in Run : q # r => pc'[q] = pc[q]
    BY <1>6 DEF TypeInv, TypeOK, Close, Return, Refuse, runVars
  <2>3. Busy(r) /\ ~Hosting(r)
    BY <2>2 DEF Busy, Hosting
  <2>4. parses[call[r]].end = "open"
    BY <2>3 DEF TypeInv, Registers, RegistersOf
  <2>5. CASE parses[t].end = "ok"
    BY <2>1, <2>4, <2>5 DEF Good
  <2>6. ASSUME parses[t].end = "open", NEW q \in Run, pc[q] = "close",
               call[q] = t, result[q].end = "ok"
        PROVE  Good(t)'
    <3>1. CASE q = r
      BY <2>1, <2>6, <3>1 DEF Good
    <3>2. CASE q # r
      <4>1. t # call[r]
        BY <2>3, <2>6, <3>2, OwnParse DEF Busy
      <4> QED BY <2>1, <2>2, <2>6, <3>2, <4>1 DEF Good
    <3> QED BY <3>1, <3>2
  <2>7. Good(t) => Good(t)'
    BY <2>5, <2>6, <2>1, <2>4 DEF Good
  <2> QED BY <2>1, <2>7
<1>7. CASE UNCHANGED vars
  BY <1>7, GoodFrame DEF vars, Tree
<1> QED
  BY <1>1, <1>2, <1>3, <1>4, <1>5, <1>6, <1>7, GoodFrame
  DEF Next, Step, Finished, Tree

LEMMA SoundInit == Init => Sound
BY DEF Init, Sound

\* Nothing new is cached or returned.
LEMMA SoundFrame ==
    ASSUME TypeInv, Sound, [Next]_vars, UNCHANGED got,
           \A p \in DOMAIN cache' : p \in DOMAIN cache /\ cache'[p] = cache[p]
    PROVE  Sound'
<1>1. ASSUME NEW p \in DOMAIN cache'
      PROVE  parses'[cache'[p]].path = p /\ Good(cache[p])'
  <2>1. /\ cache'[p] = cache[p] /\ cache[p] \in Tree
        /\ parses[cache[p]].path = p /\ Good(cache[p])
    BY <1>1 DEF TypeInv, TypeOK, Sound
  <2> DEFINE t == cache[p]
  <2>2. /\ parses'[t].path = parses[t].path
        /\ Good(t) => (parses'[t].end = "ok" \/
              (/\ parses'[t].end = "open"
               /\ \E r \in Run : /\ pc'[r] = "close" /\ call'[r] = t
                                 /\ result'[r].end = "ok"))
    BY <2>1, ParseStep DEF Good
  <2> QED BY <2>1, <2>2 DEF Good
<1>2. ASSUME NEW g \in got'
      PROVE  /\ parses'[g.tree].path = g.path
             /\ Good(g.tree)'
             /\ g.pos => parses'[g.tree].pos
  <2>1. g.tree \in Tree
    BY <1>2 DEF TypeInv, TypeOK
  <2> QED BY <1>2, <2>1, ParseStep DEF Sound
<1> QED BY <1>1, <1>2 DEF Sound

LEMMA HitSound ==
    ASSUME TypeInv, Sound, [Next]_vars, NEW r \in Run, Hit(r)
    PROVE  Sound'
<1>1. /\ UNCHANGED <<cache, parses, call, result>>
      /\ got' = got \cup {[to |-> r, path |-> req[r].path, pos |-> req[r].pos,
                           tree |-> cache[req[r].path], joined |-> joined[r]]}
      /\ Serves(req[r].path, req[r].pos)
      /\ \A q \in Run : pc[q] = "close" => pc'[q] = "close"
  BY DEF Hit, Return, cacheVars, runVars, TypeInv, TypeOK
<1>2. \A t : Good(t) => Good(t)'
  BY <1>1 DEF Good
<1> QED BY <1>1, <1>2 DEF Sound, Serves

LEMMA CloseSound ==
    ASSUME TypeInv, Sound, [Next]_vars, NEW r \in Run, Close(r)
    PROVE  Sound'
<1>1. CASE result[r].end = "ok"
  <2>1. /\ UNCHANGED <<cache, req, call>>
        /\ got' = got \cup {[to |-> r, path |-> req[r].path,
                             pos |-> req[r].pos, tree |-> call[r],
                             joined |-> joined[r]]}
        /\ pc[r] = "close"
    BY <1>1 DEF Close, Return, cacheVars, runVars
  <2>2. /\ call[r] \in Tree /\ parses[call[r]].path = req[r].path
        /\ parses[call[r]].pos = req[r].pos
    BY <2>1 DEF TypeInv, Registers, RegistersOf, Busy
  <2>3. /\ parses'[call[r]].path = req[r].path
        /\ parses'[call[r]].pos = req[r].pos
    BY <2>2, ParseStep
  <2>4. parses'[call[r]].end = "ok"
    BY <1>1, <2>2, CloseFacts
  <2>5. \A p \in DOMAIN cache : parses'[cache[p]].path = p /\ Good(cache[p])'
    <3>1. SUFFICES ASSUME NEW p \in DOMAIN cache
                   PROVE  parses'[cache[p]].path = p /\ Good(cache[p])'
      OBVIOUS
    <3> DEFINE t == cache[p]
    <3>2. /\ t \in Tree /\ parses[t].path = p /\ Good(t)
      BY DEF TypeInv, TypeOK, Sound
    <3>3. /\ parses'[t].path = parses[t].path
          /\ parses'[t].end = "ok" \/
                (/\ parses'[t].end = "open"
                 /\ \E q \in Run : /\ pc'[q] = "close" /\ call'[q] = t
                                   /\ result'[q].end = "ok")
      BY <3>2, ParseStep DEF Good
    <3> QED BY <2>1, <3>2, <3>3 DEF Good
  <2>6. \A g \in got : /\ parses'[g.tree].path = g.path
                       /\ Good(g.tree)'
                       /\ g.pos => parses'[g.tree].pos
    <3>1. SUFFICES ASSUME NEW g \in got
                   PROVE  /\ parses'[g.tree].path = g.path
                          /\ Good(g.tree)'
                          /\ g.pos => parses'[g.tree].pos
      OBVIOUS
    <3>2. g.tree \in Tree
      BY DEF TypeInv, TypeOK
    <3> QED BY <3>2, ParseStep DEF Sound
  <2> QED BY <2>1, <2>3, <2>4, <2>5, <2>6 DEF Sound, Good
<1>2. CASE result[r].end # "ok"
  <2>1. UNCHANGED <<cache, got>>
    BY <1>2 DEF Close, Refuse, cacheVars
  <2> QED BY <2>1, SoundFrame
<1> QED BY <1>1, <1>2

LEMMA StoreSound ==
    ASSUME TypeInv, Sound, [Next]_vars, NEW r \in Run, Store(r)
    PROVE  Sound'
<1>1. /\ cache' = With(cache, req[r].path, call[r])
      /\ UNCHANGED <<got, parses, call, result, req>>
      /\ Admitting(r)
  BY DEF Store, Unlock, runVars
<1>2. /\ call[r] \in Tree /\ parses[call[r]].path = req[r].path
      /\ parses[call[r]].end = IF Hosting(r) THEN "ok" ELSE "open"
      /\ result[r].end = "ok"
  BY <1>1 DEF TypeInv, Registers, RegistersOf, Busy, Admitting
<1>3. pc[r] = "admit" => pc'[r] = "close"
  BY DEF TypeInv, TypeOK, Store, Unlock
<1>4. Good(call[r])'
  BY <1>1, <1>2, <1>3 DEF Good, Admitting, Hosting
<1>5. \A q \in Run : pc[q] = "close" => pc'[q] = "close"
  BY <1>1 DEF TypeInv, TypeOK, Store, Unlock, Admitting
<1>6. \A t : Good(t) => Good(t)'
  BY <1>1, <1>5 DEF Good
<1>7. \A p \in DOMAIN cache' : parses'[cache'[p]].path = p /\ Good(cache[p])'
  <2>1. SUFFICES ASSUME NEW p \in DOMAIN cache'
                 PROVE  parses'[cache'[p]].path = p /\ Good(cache[p])'
    OBVIOUS
  <2>2. CASE p = req[r].path
    <3>1. cache'[p] = call'[r]
      BY <1>1, <2>2 DEF With
    <3> QED BY <1>1, <1>2, <1>4, <2>2, <3>1
  <2>3. CASE p # req[r].path
    <3>1. p \in DOMAIN cache /\ cache'[p] = cache[p]
      BY <1>1, <2>3 DEF With
    <3>2. parses[cache[p]].path = p /\ Good(cache[p])
      BY <3>1 DEF Sound
    <3>3. \A t : Good(t) => (parses'[t].end = "ok" \/
                (/\ parses'[t].end = "open"
                 /\ \E q \in Run : /\ pc'[q] = "close" /\ call'[q] = t
                                   /\ result'[q].end = "ok"))
      BY <1>6 DEF Good
    <3> QED BY <1>1, <3>1, <3>2, <3>3 DEF Good
  <2> QED BY <2>2, <2>3
<1> QED BY <1>1, <1>6, <1>7 DEF Sound

LEMMA SoundStep == TypeInv /\ Sound /\ [Next]_vars => Sound'
<1> SUFFICES ASSUME TypeInv, Sound, [Next]_vars PROVE Sound'
  OBVIOUS
<1>1. ASSUME NEW r \in Run, Hit(r)
      PROVE  Sound'
  BY <1>1, HitSound
<1>2. ASSUME NEW r \in Run, Close(r)
      PROVE  Sound'
  BY <1>2, CloseSound
<1>3. ASSUME NEW r \in Run, Store(r)
      PROVE  Sound'
  BY <1>3, StoreSound
<1>4. ASSUME NEW r \in Run,
             \/ \E p \in Path, pos, own \in BOOLEAN : Load(r, p, pos, own)
             \/ \E p \in Path, pos \in BOOLEAN : Preload(r, p, pos)
             \/ Join(r) \/ Start(r)
             \/ \E size \in Sizes : Parse(r, size)
             \/ ExpandTooMuch(r) \/ ReadFails(r)
             \/ Reject(r) \/ Abandon(r) \/ Wake(r)
      PROVE  Sound'
  <2>1. UNCHANGED <<cache, got>>
    BY <1>4 DEF Load, Preload, Join, Start, Parse, ExpandTooMuch, ReadFails,
                Parsed, Reject, Unlock, Abandon, Wake, Refuse, cacheVars,
                history
  <2> QED BY <2>1, SoundFrame
<1>5. ASSUME NEW r \in Run,
             Publish(r) \/ \E victim \in Path : Evict(r, victim)
      PROVE  Sound'
  <2>1. UNCHANGED got /\ \E x : cache' = Without(cache, x)
    BY <1>5 DEF Publish, Evict, Forget
  <2> QED BY <2>1, SoundFrame DEF Without
<1>6. CASE UNCHANGED vars
  BY <1>6, SoundFrame DEF vars
<1> QED
  BY <1>1, <1>2, <1>3, <1>4, <1>5, <1>6 DEF Next, Step, Finished

\* RightTree is an invariant: no interleaving of loads with and without
\* positions, of Preload and of evictions answers a call with another file's
\* tree, with a failed parse or with a module without its positions.
THEOREM RightTreeAlways == Spec => []RightTree
<1>1. Init => TypeInv /\ Sound
  BY TypeInit, SoundInit
<1>2. TypeInv /\ Sound /\ [Next]_vars => (TypeInv /\ Sound)'
  BY TypeStep, SoundStep
<1>3. TypeInv /\ Sound => RightTree
  BY DEF Sound, Good, RightTree
<1> QED BY <1>1, <1>2, <1>3, PTL DEF Spec

-----------------------------------------------------------------------------
(* Node identity.                                                           *)

LEMMA KeptInit == Init => Kept
BY DEF Init, Kept, Parsing, Admitting

\* No tree is stored, and whatever leaves the cache is given up.
LEMMA KeptFrame ==
    ASSUME TypeInv, Kept, [Next]_vars,
           \A p \in DOMAIN cache' : p \in DOMAIN cache /\ cache'[p] = cache[p],
           \A p \in DOMAIN cache : p \in DOMAIN cache' \/ p \in dropped',
           dropped \subseteq dropped',
           \A q \in Run : Parsing(q)' =>
                \/ Parsing(q) /\ req'[q] = req[q] /\ call'[q] = call[q]
                \/ req'[q].path \in DOMAIN cache' =>
                        ~SameKind(cache[req[q].path], call[q])',
           \A q \in Run : Admitting(q)' =>
                \/ Admitting(q) /\ req'[q] = req[q]
                \/ req'[q].path \notin DOMAIN cache',
           \A q \in Run : pc'[q] = "close" /\ result'[q].end = "ok" =>
                \/ req'[q].path \in dropped'
                \/ /\ pc[q] = "close" /\ result[q].end = "ok"
                   /\ req'[q] = req[q] /\ call'[q] = call[q],
           \A g \in got' :
                \/ g \in got
                \/ g.path \in dropped'
                \/ g.path \in DOMAIN cache /\ cache[g.path] = g.tree
    PROVE  Kept'
<1>1. ASSUME NEW q \in Run, Parsing(q)', req'[q].path \in DOMAIN cache'
      PROVE  ~SameKind(cache[req[q].path], call[q])'
  <2>1. CASE Parsing(q) /\ req'[q] = req[q] /\ call'[q] = call[q]
    <3> DEFINE t == cache[req[q].path]
    <3>1. /\ req[q].path \in DOMAIN cache /\ cache'[req[q].path] = t
          /\ t \in Tree /\ call[q] \in Tree
      BY <1>1, <2>1 DEF TypeInv, TypeOK, Registers, RegistersOf, Busy, Parsing
    <3>2. ~SameKind(t, call[q])
      BY <2>1, <3>1 DEF Kept
    <3>3. /\ parses'[t].host = parses[t].host
          /\ parses'[t].pos = parses[t].pos
          /\ parses'[call[q]].host = parses[call[q]].host
          /\ parses'[call[q]].pos = parses[call[q]].pos
      BY <3>1, ParseStep
    <3> QED BY <2>1, <3>1, <3>2, <3>3 DEF SameKind
  <2> QED BY <1>1, <2>1
<1>2. ASSUME NEW q \in Run, Admitting(q)'
      PROVE  req'[q].path \notin DOMAIN cache'
  BY <1>2 DEF Kept
<1>3. ASSUME NEW q \in Run, pc'[q] = "close", result'[q].end = "ok",
             req'[q].path \notin dropped'
      PROVE  /\ req'[q].path \in DOMAIN cache'
             /\ cache'[req'[q].path] = call'[q]
  BY <1>3 DEF Kept
<1>4. ASSUME NEW g \in got', g.path \notin dropped'
      PROVE  g.path \in DOMAIN cache' /\ cache'[g.path] = g.tree
  BY <1>4 DEF Kept
<1> QED BY <1>1, <1>2, <1>3, <1>4 DEF Kept

\* A parse is only started over a tree that lacks the positions it will have.
LEMMA StartKept ==
    ASSUME TypeInv, Kept, [Next]_vars, NEW r \in Run, Start(r)
    PROVE  Kept'
<1>1. /\ UNCHANGED <<cache, dropped, got, req, result>>
      /\ pc'[r] = "parse" /\ call'[r] = Len(parses')
      /\ ~Serves(req[r].path, req[r].pos)
      /\ \A q \in Run : q # r => pc'[q] = pc[q] /\ call'[q] = call[q]
  BY DEF Start, TypeInv, TypeOK, cacheVars, history
<1>2. parses'[Len(parses')] = [path |-> req[r].path, pos |-> req[r].pos,
                               by |-> r, host |-> FALSE, end |-> "open"]
  BY StartFacts
<1>3. parses'[call'[r]].pos = req[r].pos
  BY <1>1, <1>2
<1>4. ASSUME req[r].path \in DOMAIN cache
      PROVE  ~SameKind(cache[req[r].path], call[r])'
  <2>1. req[r].pos = TRUE /\ ~parses[cache[req[r].path]].pos
    <3>1. req[r] \in Request
      BY DEF Start, TypeInv, Registers, RegistersOf
    <3> QED BY <1>1, <1>4, <3>1 DEF Serves, Request
  <2>2. parses'[cache[req[r].path]].pos = parses[cache[req[r].path]].pos
    BY <1>4, ParseStep DEF TypeInv, TypeOK
  <2> QED BY <1>1, <1>3, <2>1, <2>2 DEF SameKind
<1>5. \A q \in Run : Parsing(q)' =>
                \/ Parsing(q) /\ req'[q] = req[q] /\ call'[q] = call[q]
                \/ req'[q].path \in DOMAIN cache' =>
                        ~SameKind(cache[req[q].path], call[q])'
  BY <1>1, <1>4 DEF Parsing
<1>6. \A q \in Run : Admitting(q)' => Admitting(q)
  BY <1>1 DEF Admitting
<1>7. \A q \in Run : pc'[q] = "close" => pc[q] = "close" /\ call'[q] = call[q]
  BY <1>1
<1> QED BY <1>1, <1>5, <1>6, <1>7, KeptFrame

\* The tree a publication replaces is given up, being of another kind.
LEMMA PublishKept ==
    ASSUME TypeInv, Kept, [Next]_vars, NEW r \in Run, Publish(r)
    PROVE  Kept'
<1> DEFINE p == req[r].path
<1>1. /\ UNCHANGED <<parses, req, call, result, got>>
      /\ cache' = Without(cache, p)
      /\ pc[r] \in {"publish", "preload"} /\ mu = None
      /\ pc'[r] \in {"admit", "admitPreload"}
      /\ pc'[r] = "admit" => pc[r] = "publish"
      /\ dropped' = IF p \in DOMAIN cache /\ ~SameKind(cache[p], call[r])
                    THEN dropped \cup {p} ELSE dropped
      /\ \A q \in Run : q # r => pc'[q] = pc[q]
  BY DEF Publish, Forget, runVars, TypeInv, TypeOK
<1>2. p \in DOMAIN cache => p \in dropped'
  <2>1. SUFFICES ASSUME p \in DOMAIN cache PROVE ~SameKind(cache[p], call[r])
    BY <1>1
  <2>2. CASE pc[r] = "publish"
    BY <2>1, <2>2 DEF Kept, Parsing
  <2>3. CASE pc[r] = "preload"
    <3>1. parses[call[r]].host = Hosting(r)
      BY <2>3 DEF TypeInv, Registers, RegistersOf, Busy
    <3>2. parses[call[r]].host
      BY <2>3, <3>1 DEF Hosting
    <3> QED BY <3>2 DEF SameKind
  <2> QED BY <1>1, <2>2, <2>3
<1>3. \A q \in DOMAIN cache' : q \in DOMAIN cache /\ cache'[q] = cache[q]
  BY <1>1 DEF Without
<1>4. \A q \in DOMAIN cache : q \in DOMAIN cache' \/ q \in dropped'
  BY <1>1, <1>2 DEF Without
<1>5. dropped \subseteq dropped'
  BY <1>1
<1>6. \A q \in Run : Parsing(q)' => Parsing(q)
  BY <1>1 DEF Parsing
<1>7. \A q \in Run : Admitting(q)' =>
            Admitting(q) \/ req'[q].path \notin DOMAIN cache'
  BY <1>1 DEF Admitting, Without
<1>8. \A q \in Run : pc'[q] = "close" => pc[q] = "close"
  BY <1>1
<1> QED BY <1>1, <1>3, <1>4, <1>5, <1>6, <1>7, <1>8, KeptFrame

LEMMA EvictKept ==
    ASSUME TypeInv, Kept, [Next]_vars, NEW r \in Run, NEW victim \in Path,
           Evict(r, victim)
    PROVE  Kept'
<1>1. /\ UNCHANGED <<pc, req, call, result, got>>
      /\ cache' = Without(cache, victim)
      /\ dropped' = dropped \cup {victim}
  BY DEF Evict, Forget, runVars
<1>2. /\ \A p \in DOMAIN cache' : p \in DOMAIN cache /\ cache'[p] = cache[p]
      /\ \A p \in DOMAIN cache : p \in DOMAIN cache' \/ p \in dropped'
      /\ dropped \subseteq dropped'
  BY <1>1 DEF Without
<1>3. \A q \in Run :
        /\ Parsing(q)' => Parsing(q)
        /\ Admitting(q)' => Admitting(q)
        /\ pc'[q] = pc[q] /\ req'[q] = req[q] /\ call'[q] = call[q]
        /\ result'[q] = result[q]
  BY <1>1 DEF Parsing, Admitting
<1>4. got' = got
  BY <1>1
<1> QED BY <1>2, <1>3, <1>4, KeptFrame

\* What is stored is new to the path: the lock is held since the path was
\* cleared, and no other run parses it for the same kind of request.
LEMMA StoreKept ==
    ASSUME TypeInv, Flights, Kept, [Next]_vars, NEW r \in Run, Store(r)
    PROVE  Kept'
<1> DEFINE p == req[r].path
<1>1. /\ cache' = With(cache, p, call[r])
      /\ UNCHANGED <<got, dropped, parses, call, result, req>>
      /\ Admitting(r) /\ p \notin DOMAIN cache
      /\ pc'[r] \in {"close", "idle"}
      /\ pc'[r] = "close" => pc[r] = "admit"
      /\ \A q \in Run : q # r => pc'[q] = pc[q]
  BY DEF Store, Unlock, runVars, Kept, Admitting, TypeInv, TypeOK
<1>2. /\ p \in DOMAIN cache' /\ cache'[p] = call[r]
      /\ \A x \in DOMAIN cache : x \in DOMAIN cache' /\ cache'[x] = cache[x]
      /\ \A x \in DOMAIN cache' : x # p => x \in DOMAIN cache
  BY <1>1 DEF With
<1>3. ASSUME NEW q \in Run, Parsing(q)', req'[q].path \in DOMAIN cache'
      PROVE  ~SameKind(cache[req[q].path], call[q])'
  <2>1. q # r /\ Parsing(q)
    BY <1>1, <1>3 DEF Parsing
  <2>2. CASE req[q].path = p
    <3>1. CASE pc[r] = "admitPreload"
      <4>1. parses[call[r]].host = Hosting(r)
        BY <3>1 DEF TypeInv, Registers, RegistersOf, Busy
      <4>2. parses[call[r]].host
        BY <3>1, <4>1 DEF Hosting
      <4> QED BY <1>1, <1>2, <2>2, <4>2 DEF SameKind
    <3>2. CASE pc[r] = "admit"
      <4>1. KeyOf(q) # KeyOf(r)
        BY <2>1, <3>2, OwnKey DEF Parsing
      <4>2. req[q].pos # req[r].pos
        BY <2>2, <4>1 DEF KeyOf
      <4>3. /\ parses[call[q]].pos = req[q].pos
            /\ parses[call[r]].pos = req[r].pos
        BY <1>1, <2>1 DEF TypeInv, Registers, RegistersOf, Busy, Parsing,
                         Admitting
      <4> QED BY <1>1, <1>2, <2>2, <4>2, <4>3 DEF SameKind
    <3> QED BY <1>1, <3>1, <3>2 DEF Admitting
  <2>3. CASE req[q].path # p
    <3>1. /\ req[q].path \in DOMAIN cache
          /\ cache'[req[q].path] = cache[req[q].path]
      BY <1>1, <1>2, <1>3, <2>3
    <3>2. ~SameKind(cache[req[q].path], call[q])
      BY <2>1, <3>1 DEF Kept
    <3> QED BY <1>1, <3>1, <3>2 DEF SameKind
  <2> QED BY <2>2, <2>3
<1>4. ASSUME NEW q \in Run, Admitting(q)'
      PROVE  req'[q].path \notin DOMAIN cache'
  <2>1. q # r /\ Admitting(q)
    BY <1>1, <1>4 DEF Admitting
  <2> QED BY <1>1, <2>1 DEF TypeInv, Registers, RegistersOf
<1>5. ASSUME NEW q \in Run, pc'[q] = "close", result'[q].end = "ok",
             req'[q].path \notin dropped'
      PROVE  /\ req'[q].path \in DOMAIN cache'
             /\ cache'[req'[q].path] = call'[q]
  <2>1. CASE q = r
    BY <1>1, <1>2, <2>1
  <2>2. CASE q # r
    BY <1>1, <1>2, <1>5, <2>2 DEF Kept
  <2> QED BY <2>1, <2>2
<1>6. ASSUME NEW g \in got', g.path \notin dropped'
      PROVE  g.path \in DOMAIN cache' /\ cache'[g.path] = g.tree
  BY <1>1, <1>2, <1>6 DEF Kept
<1> QED BY <1>3, <1>4, <1>5, <1>6 DEF Kept

\* The steps that leave the cache as it is, but for the start of a parse.
LEMMA QuietKept ==
    ASSUME TypeInv, Kept, [Next]_vars, NEW r \in Run,
           \/ \E p \in Path, pos, own \in BOOLEAN : Load(r, p, pos, own)
           \/ \E p \in Path, pos \in BOOLEAN : Preload(r, p, pos)
           \/ Hit(r) \/ Join(r) \/ Wake(r) \/ Close(r)
           \/ \E size \in Sizes : Parse(r, size)
           \/ ExpandTooMuch(r) \/ ReadFails(r)
           \/ Reject(r) \/ Abandon(r)
    PROVE  Kept'
<1>1. cache' = cache /\ dropped \subseteq dropped'
  BY DEF Load, Preload, Hit, Join, Wake, Close, Parse, ExpandTooMuch,
         ReadFails, Parsed, Reject, Abandon, cacheVars, history
<1>2. \A q \in Run : q # r => /\ pc'[q] = pc[q] /\ req'[q] = req[q]
                             /\ call'[q] = call[q] /\ result'[q] = result[q]
  BY DEF TypeInv, TypeOK, Load, Preload, Hit, Join, Wake, Close, Parse,
         ExpandTooMuch, ReadFails, Parsed, Reject, Unlock, Abandon, Return,
         Refuse, runVars
<1>3. /\ Parsing(r)' =>
            Parsing(r) /\ req'[r] = req[r] /\ call'[r] = call[r]
      /\ ~Admitting(r)'
      /\ pc'[r] = "close" /\ result'[r].end = "ok" => req'[r].path \in dropped'
  <2>1. CASE \E p \in Path, pos, own \in BOOLEAN : Load(r, p, pos, own)
    BY <2>1 DEF TypeInv, TypeOK, Load, Parsing, Admitting
  <2>2. CASE \E p \in Path, pos \in BOOLEAN : Preload(r, p, pos)
    BY <2>2 DEF TypeInv, TypeOK, Preload, Parsing, Admitting
  <2>3. CASE Hit(r) \/ Join(r) \/ Wake(r) \/ Close(r)
    BY <2>3 DEF TypeInv, TypeOK, Hit, Join, Wake, Close, Return, Refuse,
                Parsing, Admitting
  <2>4. CASE \/ \E size \in Sizes : Parse(r, size)
             \/ ExpandTooMuch(r) \/ ReadFails(r)
    BY <2>4 DEF TypeInv, TypeOK, Parse, ExpandTooMuch, ReadFails, Parsed,
                Parsing, Admitting
  <2>5. CASE Reject(r)
    BY <2>5 DEF TypeInv, TypeOK, Reject, Unlock, Parsing, Admitting, runVars
  <2>6. CASE Abandon(r)
    BY <2>6 DEF TypeInv, TypeOK, Abandon, Parsing, Admitting, runVars
  <2> QED BY <2>1, <2>2, <2>3, <2>4, <2>5, <2>6
<1>4. \A g \in got' :
        \/ g \in got
        \/ g.path \in dropped'
        \/ g.path \in DOMAIN cache /\ cache[g.path] = g.tree
  <2>1. CASE Hit(r)
    BY <2>1 DEF Hit, Return, Serves
  <2>2. CASE Close(r)
    <3>1. CASE result[r].end = "ok"
      BY <2>2, <3>1 DEF Close, Return, Kept
    <3>2. CASE result[r].end # "ok"
      BY <2>2, <3>2 DEF Close, Refuse
    <3> QED BY <3>1, <3>2
  <2>3. CASE ~Hit(r) /\ ~Close(r)
    BY <2>3 DEF Load, Preload, Join, Wake, Parse, ExpandTooMuch, ReadFails,
                Parsed, Reject, Unlock, Abandon, Refuse, history
  <2> QED BY <2>1, <2>2, <2>3
<1>5. \A q \in Run :
        /\ Parsing(q)' =>
                Parsing(q) /\ req'[q] = req[q] /\ call'[q] = call[q]
        /\ Admitting(q)' => Admitting(q) /\ req'[q] = req[q]
        /\ pc'[q] = "close" /\ result'[q].end = "ok" =>
                \/ req'[q].path \in dropped'
                \/ /\ pc[q] = "close" /\ result[q].end = "ok"
                   /\ req'[q] = req[q] /\ call'[q] = call[q]
  BY <1>2, <1>3 DEF Parsing, Admitting
<1> QED BY <1>1, <1>4, <1>5, KeptFrame

LEMMA StutterKept == Kept /\ UNCHANGED vars => Kept'
BY DEF Kept, Parsing, Admitting, SameKind, vars

LEMMA KeptStep == TypeInv /\ Flights /\ Kept /\ [Next]_vars => Kept'
<1> SUFFICES ASSUME TypeInv, Flights, Kept, [Next]_vars PROVE Kept'
  OBVIOUS
<1>1. ASSUME NEW r \in Run, Start(r)
      PROVE  Kept'
  BY <1>1, StartKept
<1>2. ASSUME NEW r \in Run, Publish(r)
      PROVE  Kept'
  BY <1>2, PublishKept
<1>3. ASSUME NEW r \in Run, NEW victim \in Path, Evict(r, victim)
      PROVE  Kept'
  BY <1>3, EvictKept
<1>4. ASSUME NEW r \in Run, Store(r)
      PROVE  Kept'
  BY <1>4, StoreKept
<1>5. ASSUME NEW r \in Run,
             \/ \E p \in Path, pos, own \in BOOLEAN : Load(r, p, pos, own)
             \/ \E p \in Path, pos \in BOOLEAN : Preload(r, p, pos)
             \/ Hit(r) \/ Join(r) \/ Wake(r) \/ Close(r)
             \/ \E size \in Sizes : Parse(r, size)
             \/ ExpandTooMuch(r) \/ ReadFails(r)
             \/ Reject(r) \/ Abandon(r)
      PROVE  Kept'
  BY <1>5, QuietKept
<1>6. CASE UNCHANGED vars
  BY <1>6, StutterKept
<1> QED
  BY <1>1, <1>2, <1>3, <1>4, <1>5, <1>6 DEF Next, Step, Finished

\* Identity is an invariant: while the cache keeps a path, every call for it,
\* of any run and whatever was under way when it was made, is answered with
\* one tree (loadTracked and publish together).
THEOREM OneTree == Spec => []Identity
<1>1. Init => TypeInv /\ Flights /\ Kept
  BY TypeInit, FlightsInit, KeptInit
<1>2. TypeInv /\ Flights /\ Kept /\ [Next]_vars => (TypeInv /\ Flights /\ Kept)'
  BY TypeStep, FlightsStep, KeptStep
<1>3. Kept => Identity
  BY DEF Kept, Identity
<1> QED BY <1>1, <1>2, <1>3, PTL DEF Spec

-----------------------------------------------------------------------------
(* The accounts.  A charge is taken with its entry and given back with it,  *)
(* so what is charged stays the sum of the entries' sizes.                  *)

Books ==
    /\ IsFiniteSet(DOMAIN cache)
    /\ DOMAIN sizes = DOMAIN cache
    /\ cacheBytes = SumOver(sizes, DOMAIN cache)
    /\ Bounded

LEMMA ForgetBooks ==
    ASSUME TypeOK, Books, NEW p, Forget(p)
    PROVE  /\ Books'
           /\ DOMAIN cache' = DOMAIN cache \ {p}
<1> DEFINE D == DOMAIN cache
<1>1. DOMAIN cache' = D \ {p} /\ DOMAIN sizes' = D \ {p} /\ IsFiniteSet(D)
  BY DEF Forget, Without, Books
<1>2. IsFiniteSet(DOMAIN cache')
  BY <1>1, FS_Subset
<1>3. \A q \in D : sizes[q] \in Nat
  BY DEF TypeOK, Books
<1>4. \A q \in D \ {p} : sizes'[q] = sizes[q]
  BY DEF Forget, Without, Books
<1>5. SumOver(sizes', D \ {p}) = SumOver(sizes, D \ {p})
  BY <1>1, <1>2, <1>4, SumSame
<1>6. Cardinality(D) \in Nat /\ SumOver(sizes, D) \in Nat /\ SumOver(sizes, D \ {p}) \in Nat
  BY <1>1, <1>2, <1>3, FS_CardinalityType, SumType
<1>7. CASE p \in D
  <2>1. cacheBytes' = cacheBytes - sizes[p] /\ cacheBytes = SumOver(sizes, D)
    BY <1>7 DEF Forget, Books
  <2>2. SumOver(sizes, D) = sizes[p] + SumOver(sizes, D \ {p})
    BY <1>1, <1>3, <1>7, SumTakeOut
  <2>3. cacheBytes' = SumOver(sizes', DOMAIN cache')
    BY <1>1, <1>3, <1>5, <1>6, <1>7, <2>1, <2>2
  <2>4. Cardinality(DOMAIN cache') = Cardinality(D) - 1
    BY <1>1, <1>7, FS_RemoveElement
  <2>5. cacheBytes' <= cacheBytes
    BY <1>3, <1>6, <1>7, <2>1
  <2>6. Cardinality(D) = 1 => cacheBytes' = 0
    <3>1. Cardinality(D) = 1 => D \ {p} = {}
      BY <1>1, <1>2, <2>4, FS_EmptySet
    <3>2. SumOver(sizes', {}) = 0
      BY SumEmpty
    <3> QED BY <1>1, <2>3, <3>1, <3>2
  <2>7. Bounded'
    <3>1. Cardinality(D) <= CacheMax /\ (cacheBytes <= CacheMaxBytes \/ Cardinality(D) = 1)
      BY DEF Books, Bounded
    <3>2. /\ cacheBytes \in Int /\ cacheBytes' \in Int
          /\ CacheMax \in Nat /\ CacheMaxBytes \in Nat
      BY <1>3, <1>7, <2>1, FileResolverAssumption DEF TypeOK
    <3>3. Cardinality(DOMAIN cache') <= CacheMax
      BY <1>6, <2>4, <3>1, <3>2
    <3>4. cacheBytes' <= CacheMaxBytes
      BY <2>5, <2>6, <3>1, <3>2
    <3> QED BY <3>3, <3>4 DEF Bounded
  <2> QED BY <1>1, <1>2, <2>3, <2>7 DEF Books
<1>8. CASE p \notin D
  <2>1. cacheBytes' = cacheBytes /\ D \ {p} = D
    BY <1>8 DEF Forget, Books
  <2>2. cacheBytes' = SumOver(sizes', DOMAIN cache')
    BY <1>1, <1>5, <2>1 DEF Books
  <2> QED BY <1>1, <1>2, <2>1, <2>2 DEF Books, Bounded
<1> QED BY <1>1, <1>7, <1>8

LEMMA StoreBooks ==
    ASSUME TypeInv, Kept, Books, NEW r \in Run, Store(r)
    PROVE  Books'
<1> DEFINE D == DOMAIN cache
           p == req[r].path
           size == result[r].size
<1>1. p \notin D
  BY DEF Store, Kept
<1>2. DOMAIN cache' = D \cup {p} /\ DOMAIN sizes' = D \cup {p} /\ IsFiniteSet(D)
  BY DEF Store, With, Books
<1>3. IsFiniteSet(DOMAIN cache') /\ Cardinality(DOMAIN cache') = Cardinality(D) + 1
  BY <1>1, <1>2, FS_AddElement
<1>4. size \in Nat /\ cacheBytes \in Int /\ Cardinality(D) \in Nat
  BY <1>2, FS_CardinalityType DEF TypeInv, TypeOK
<1>5. sizes'[p] = size /\ \A q \in D : sizes'[q] = sizes[q] /\ sizes[q] \in Nat
  BY <1>1 DEF Store, With, Books, TypeInv, TypeOK
<1>6. SumOver(sizes', D \cup {p}) = size + SumOver(sizes', D)
  BY <1>1, <1>2, <1>4, <1>5, SumAdd
<1>7. SumOver(sizes', D) = SumOver(sizes, D)
  BY <1>2, <1>5, SumSame
<1>8. cacheBytes' = cacheBytes + size /\ cacheBytes = SumOver(sizes, D)
  BY DEF Store, Books
<1>9. cacheBytes' = SumOver(sizes', DOMAIN cache')
  BY <1>2, <1>4, <1>6, <1>7, <1>8
<1>10. ~MustEvict(size)
  BY DEF Store
<1>11. Bounded'
  <2>1. CASE D = {}
    <3>1. Cardinality(DOMAIN cache') = 1
      BY <1>3, <2>1, FS_EmptySet
    <3> QED BY <3>1, FileResolverAssumption DEF Bounded
  <2>2. CASE D # {}
    <3>1. ~(Cardinality(D) >= CacheMax) /\ ~(cacheBytes + size > CacheMaxBytes)
      BY <1>10, <2>2 DEF MustEvict
    <3>2. CacheMax \in Nat /\ CacheMaxBytes \in Nat
      BY FileResolverAssumption
    <3>3. Cardinality(DOMAIN cache') <= CacheMax /\ cacheBytes' <= CacheMaxBytes
      BY <1>3, <1>4, <1>8, <3>1, <3>2
    <3> QED BY <3>3 DEF Bounded
  <2> QED BY <2>1, <2>2
<1> QED BY <1>2, <1>3, <1>9, <1>11 DEF Books

LEMMA BooksInit == Init => Books
<1> SUFFICES ASSUME Init PROVE Books
  OBVIOUS
<1>1. DOMAIN cache = {} /\ DOMAIN sizes = {} /\ cacheBytes = 0
  BY DEF Init
<1>2. IsFiniteSet({}) /\ Cardinality({}) = 0
  BY FS_EmptySet
<1>3. SumOver(sizes, {}) = 0
  BY SumEmpty
<1> QED BY <1>1, <1>2, <1>3, FileResolverAssumption DEF Books, Bounded

LEMMA BooksStep == TypeInv /\ Kept /\ Books /\ [Next]_vars => Books'
<1> SUFFICES ASSUME TypeInv, Kept, Books, [Next]_vars PROVE Books'
  OBVIOUS
<1>1. ASSUME NEW r \in Run, Publish(r) PROVE Books'
  BY <1>1, ForgetBooks DEF Publish, TypeInv
<1>2. ASSUME NEW r \in Run, NEW victim \in Path, Evict(r, victim) PROVE Books'
  BY <1>2, ForgetBooks DEF Evict, TypeInv
<1>3. ASSUME NEW r \in Run, Store(r) PROVE Books'
  BY <1>3, StoreBooks
<1>4. CASE UNCHANGED cacheVars
  BY <1>4 DEF cacheVars, Books, Bounded
<1>5. ASSUME NEW r \in Run,
             \/ \E p \in Path, pos, own \in BOOLEAN : Load(r, p, pos, own)
             \/ \E p \in Path, pos \in BOOLEAN : Preload(r, p, pos)
             \/ Hit(r) \/ Join(r) \/ Start(r) \/ Wake(r) \/ Close(r)
             \/ \E size \in Sizes : Parse(r, size)
             \/ ExpandTooMuch(r) \/ ReadFails(r)
             \/ Reject(r) \/ Abandon(r)
      PROVE  UNCHANGED cacheVars
  BY <1>5 DEF Load, Preload, Hit, Join, Start, Wake, Close, Parse, ExpandTooMuch,
              ReadFails, Parsed, Reject, Abandon
<1>6. CASE UNCHANGED vars
  BY <1>4, <1>6 DEF vars, cacheVars
<1> QED BY <1>1, <1>2, <1>3, <1>4, <1>5, <1>6 DEF Next, Step, Finished

\* The charges of the cache are the sum of what it holds and stay within the
\* bounds, whatever is published, replaced, refused and evicted, and however
\* many runs publish at once (CacheKept).
THEOREM CacheKeptHolds == Spec => []CacheKept
<1>1. Init => TypeInv /\ Flights /\ Kept /\ Books
  BY TypeInit, FlightsInit, KeptInit, BooksInit
<1>2. TypeInv /\ Flights /\ Kept /\ Books /\ [Next]_vars
        => (TypeInv /\ Flights /\ Kept /\ Books)'
  BY TypeStep, FlightsStep, KeptStep, BooksStep
<1>3. Books => CacheKept
  BY SumFunctionIs DEF Books, CacheKept, Accounting
<1> QED BY <1>1, <1>2, <1>3, PTL DEF Spec

\* A document that fits the byte bound alone evicts another only when the
\* cache is full by count (publish, NothingEvictedForBytes).
THEOREM NothingEvictedHolds == Spec => NothingEvictedForBytes
<1> DEFINE A == \A r \in Run : \A p \in DOMAIN cache \ DOMAIN cache' :
                    Admitting(r) /\ mu = r /\ result[r].size <= CacheMaxBytes
                      => Cardinality(DOMAIN cache) >= CacheMax
<1>1. TypeInv /\ [Next]_vars => [A]_vars
  <2> SUFFICES ASSUME TypeInv, [Next]_vars, NEW r \in Run,
                      NEW p \in DOMAIN cache \ DOMAIN cache',
                      Admitting(r), mu = r, result[r].size <= CacheMaxBytes
               PROVE  Cardinality(DOMAIN cache) >= CacheMax
    OBVIOUS
  <2>1. ASSUME NEW q \in Run, Publish(q) PROVE FALSE
    BY <2>1, FileResolverAssumption DEF Publish
  <2>2. ASSUME NEW q \in Run, NEW victim \in Path, Evict(q, victim)
        PROVE  Cardinality(DOMAIN cache) >= CacheMax
    <3>1. q = r
      BY <2>2 DEF Evict, TypeInv, Registers, RegistersOf
    <3> QED BY <2>2, <3>1 DEF Evict, Rejected, MustEvict
  <2>3. ASSUME NEW q \in Run, Store(q) PROVE FALSE
    BY <2>3 DEF Store, With
  <2>4. UNCHANGED cacheVars => FALSE
    BY DEF cacheVars
  <2>5. ASSUME NEW q \in Run,
               \/ \E x \in Path, pos, own \in BOOLEAN : Load(q, x, pos, own)
               \/ \E x \in Path, pos \in BOOLEAN : Preload(q, x, pos)
               \/ Hit(q) \/ Join(q) \/ Start(q) \/ Wake(q) \/ Close(q)
               \/ \E size \in Sizes : Parse(q, size)
               \/ ExpandTooMuch(q) \/ ReadFails(q)
               \/ Reject(q) \/ Abandon(q)
        PROVE  UNCHANGED cacheVars
    BY <2>5 DEF Load, Preload, Hit, Join, Start, Wake, Close, Parse, ExpandTooMuch,
                ReadFails, Parsed, Reject, Abandon
  <2>6. UNCHANGED vars => UNCHANGED cacheVars
    BY DEF vars, cacheVars
  <2> QED BY <2>1, <2>2, <2>3, <2>4, <2>5, <2>6 DEF Next, Step, Finished
<1>2. Init => TypeInv
  BY TypeInit
<1>3. TypeInv /\ [Next]_vars => TypeInv'
  BY TypeStep
<1> QED BY <1>1, <1>2, <1>3, PTL DEF Spec, NothingEvictedForBytes

-----------------------------------------------------------------------------
(* FileResolver implements DocumentStore.  A call makes one parse at most,  *)
(* so that the parses made and those a run may still make are no more than  *)
(* the calls.                                                               *)

Looking == {r \in Run : pc[r] \in {"look", "wait"}}

Counted ==
    /\ IsFiniteSet(Looking)
    /\ Len(parses) + Cardinality(Looking) <= loads
    /\ \A r \in Run : result[r].size \in Sizes \cup {0}

\* The runs other than r stay where they are.
OthersStay(r) ==
    \A q \in Run : q # r => /\ pc'[q] = pc[q] /\ req'[q] = req[q]
                            /\ call'[q] = call[q] /\ result'[q] = result[q]

LEMMA StepOthersStay ==
    ASSUME TypeInv, NEW r \in Run,
           \/ \E p \in Path, pos, own \in BOOLEAN : Load(r, p, pos, own)
           \/ \E p \in Path, pos \in BOOLEAN : Preload(r, p, pos)
           \/ Step(r)
    PROVE  OthersStay(r)
<1> USE DEF OthersStay, TypeInv, TypeOK
<1>1. CASE \E p \in Path, pos, own \in BOOLEAN : Load(r, p, pos, own)
  BY <1>1 DEF Load
<1>2. CASE \E p \in Path, pos \in BOOLEAN : Preload(r, p, pos)
  BY <1>2 DEF Preload
<1>3. CASE Hit(r) \/ Join(r) \/ Start(r) \/ Close(r) \/ Wake(r) \/ Abandon(r)
  BY <1>3 DEF Hit, Join, Start, Close, Wake, Abandon, Return, Refuse, runVars
<1>4. CASE (\E size \in Sizes : Parse(r, size)) \/ ExpandTooMuch(r) \/ ReadFails(r)
  BY <1>4 DEF Parse, ExpandTooMuch, ReadFails, Parsed
<1>5. CASE Publish(r) \/ (\E victim \in Path : Evict(r, victim)) \/ Reject(r) \/ Store(r)
  BY <1>5 DEF Publish, Evict, Reject, Store, Unlock, runVars
<1> QED BY <1>1, <1>2, <1>3, <1>4, <1>5 DEF Step

LEMMA CountedInit == Init => Counted
<1> SUFFICES ASSUME Init PROVE Counted
  OBVIOUS
<1>1. Looking = {}
  BY DEF Init, Looking
<1>2. IsFiniteSet({}) /\ Cardinality({}) = 0
  BY FS_EmptySet
<1> QED BY <1>1, <1>2 DEF Init, Counted

\* The runs that look, where a step of r leaves the others as they are.
LEMMA LookingFacts ==
    ASSUME Counted, NEW r \in Run, OthersStay(r)
    PROVE  /\ IsFiniteSet(Looking')
           /\ pc'[r] \in {"look", "wait"} /\ pc[r] \in {"look", "wait"}
                => Cardinality(Looking') = Cardinality(Looking)
           /\ pc'[r] \in {"look", "wait"} /\ pc[r] \notin {"look", "wait"}
                => Cardinality(Looking') = Cardinality(Looking) + 1
           /\ pc'[r] \notin {"look", "wait"} /\ pc[r] \in {"look", "wait"}
                => Cardinality(Looking') = Cardinality(Looking) - 1
           /\ pc'[r] \notin {"look", "wait"} /\ pc[r] \notin {"look", "wait"}
                => Cardinality(Looking') = Cardinality(Looking)
<1>1. IsFiniteSet(Looking)
  BY DEF Counted
<1>2. CASE pc'[r] \in {"look", "wait"} /\ pc[r] \in {"look", "wait"}
  <2>1. Looking' = Looking
    BY <1>2 DEF Looking, OthersStay
  <2> QED BY <1>1, <1>2, <2>1
<1>3. CASE pc'[r] \in {"look", "wait"} /\ pc[r] \notin {"look", "wait"}
  <2>1. Looking' = Looking \cup {r} /\ r \notin Looking
    BY <1>3 DEF Looking, OthersStay
  <2>2. IsFiniteSet(Looking') /\ Cardinality(Looking') = Cardinality(Looking) + 1
    BY <1>1, <2>1, FS_AddElement
  <2> QED BY <1>3, <2>2
<1>4. CASE pc'[r] \notin {"look", "wait"} /\ pc[r] \in {"look", "wait"}
  <2>1. Looking' = Looking \ {r} /\ r \in Looking
    BY <1>4 DEF Looking, OthersStay
  <2>2. IsFiniteSet(Looking') /\ Cardinality(Looking') = Cardinality(Looking) - 1
    BY <1>1, <2>1, FS_RemoveElement
  <2> QED BY <1>4, <2>2
<1>5. CASE pc'[r] \notin {"look", "wait"} /\ pc[r] \notin {"look", "wait"}
  <2>1. Looking' = Looking
    BY <1>5 DEF Looking, OthersStay
  <2> QED BY <1>1, <1>5, <2>1
<1> QED BY <1>2, <1>3, <1>4, <1>5

LEMMA CountedStep == TypeInv /\ Counted /\ [Next]_vars => Counted'
<1> SUFFICES ASSUME TypeInv, Counted, [Next]_vars PROVE Counted'
  OBVIOUS
<1> USE DEF TypeInv, TypeOK
<1>1. ASSUME NEW r \in Run,
             \/ \E p \in Path, pos, own \in BOOLEAN : Load(r, p, pos, own)
             \/ \E p \in Path, pos \in BOOLEAN : Preload(r, p, pos)
             \/ Step(r)
      PROVE  Counted'
  <2> DEFINE l == Len(parses)
             n == Cardinality(Looking)
  <2>0. OthersStay(r)
    BY <1>1, StepOthersStay
  <2>1. l \in Nat /\ n \in Nat /\ loads \in Nat /\ l + n <= loads
    <3>1. parses \in Seq(ParseRec) /\ loads \in 0..LoadMax /\ LoadMax \in Nat
      BY FileResolverAssumption
    <3> QED BY <3>1, FS_CardinalityType DEF Counted
  <2>2. ASSUME loads' = loads, Len(parses') = Len(parses),
               pc'[r] \in {"look", "wait"} => pc[r] \in {"look", "wait"},
               result'[r].size \in Sizes \cup {0}
        PROVE  Counted'
    <3>1. IsFiniteSet(Looking') /\ Cardinality(Looking') \in {n, n - 1}
      BY <2>0, <2>2, LookingFacts
    <3>2. \A q \in Run : result'[q].size \in Sizes \cup {0}
      BY <2>0, <2>2 DEF OthersStay, Counted
    <3> HIDE DEF l, n
    <3>3. l + Cardinality(Looking') <= loads
      BY <2>1, <3>1
    <3> QED BY <2>2, <3>1, <3>2, <3>3 DEF Counted, l
  <2>3. CASE \E p \in Path, pos, own \in BOOLEAN : Load(r, p, pos, own)
    <3>1. /\ pc[r] = "idle" /\ pc'[r] = "look" /\ loads' = loads + 1
          /\ parses' = parses /\ result' = result
      BY <2>3 DEF Load
    <3>2. IsFiniteSet(Looking') /\ Cardinality(Looking') = n + 1
      BY <2>0, <3>1, LookingFacts
    <3> HIDE DEF n
    <3> QED BY <2>1, <3>1, <3>2 DEF Counted
  <2>4. CASE \E p \in Path, pos \in BOOLEAN : Preload(r, p, pos)
    <3>1. /\ pc[r] = "idle" /\ pc'[r] = "preload" /\ loads' = loads + 1
          /\ Len(parses') = Len(parses) + 1
          /\ \A q \in Run : result'[q].size \in Sizes \cup {0}
      BY <2>4 DEF Preload, Counted
    <3>2. IsFiniteSet(Looking') /\ Cardinality(Looking') = n
      BY <2>0, <3>1, LookingFacts
    <3> HIDE DEF n, l
    <3>3. Len(parses') = l + 1
      BY <3>1 DEF l
    <3> QED BY <2>1, <3>1, <3>2, <3>3 DEF Counted
  <2>5. CASE Start(r)
    <3>1. /\ pc[r] = "look" /\ pc'[r] = "parse" /\ loads' = loads
          /\ Len(parses') = l + 1 /\ result' = result
      BY <2>5 DEF Start
    <3>2. IsFiniteSet(Looking') /\ Cardinality(Looking') = n - 1
      BY <2>0, <3>1, LookingFacts
    <3> HIDE DEF n, l
    <3> QED BY <2>1, <3>1, <3>2 DEF Counted
  <2>6. CASE Close(r)
    <3>1. Len(parses') = Len(parses)
      BY <2>6 DEF Close
    <3> QED BY <2>2, <2>6, <3>1 DEF Close, Return, Refuse, runVars, Counted
  <2>7. CASE Hit(r) \/ Join(r) \/ Wake(r) \/ Abandon(r)
    BY <2>2, <2>7 DEF Hit, Join, Wake, Abandon, Return, Refuse, runVars, history, Counted
  <2>8. CASE \/ \E size \in Sizes : Parse(r, size)
             \/ ExpandTooMuch(r) \/ ReadFails(r)
    <3>1. PICK size \in Sizes \cup {0} : \E end \in Outcome : Parsed(r, size, end)
      BY <2>8 DEF Parse, ExpandTooMuch, ReadFails, Outcome
    <3>2. PICK end \in Outcome : Parsed(r, size, end)
      BY <3>1
    <3> QED BY <2>2, <3>2 DEF Parsed
  <2>9. CASE Publish(r) \/ (\E victim \in Path : Evict(r, victim)) \/ Reject(r) \/ Store(r)
    BY <2>2, <2>9 DEF Publish, Evict, Reject, Store, Unlock, runVars, Counted
  <2> QED BY <1>1, <2>3, <2>4, <2>5, <2>6, <2>7, <2>8, <2>9 DEF Step
<1>2. CASE UNCHANGED vars
  BY <1>2 DEF vars, Counted, Looking
<1> QED BY <1>1, <1>2 DEF Next, Finished

StoreInv == TypeInv /\ Flights /\ Kept /\ Books /\ Counted

\* What the store has of a run, where the run stands in FileResolver.
LEMMA RunMaps ==
    ASSUME StoreInv, NEW r \in Run
    PROVE  /\ Wants[r] = WantOf(r) /\ Holds[r] = HoldOf(r)
           /\ pc[r] = "idle" => WantOf(r) = None
           /\ pc[r] # "idle" =>
                /\ WantOf(r) = [path |-> req[r].path, pos |-> req[r].pos, host |-> Hosting(r)]
                /\ WantOf(r) # None /\ req[r].path \in Path
           /\ ~Committed(r) => HoldOf(r) = None
           /\ Committed(r) => HoldOf(r) = AnswerOf(call[r]) /\ HoldOf(r) # None
<1>1. pc[r] # "idle" => req[r] \in Request
  BY DEF StoreInv, TypeInv, Registers, RegistersOf
<1>2. Hosting(r) \in BOOLEAN
  BY DEF Hosting
<1>3. Committed(r) => AnswerOf(call[r]) # None
  <2> SUFFICES ASSUME Committed(r) PROVE AnswerOf(call[r]) # None
    OBVIOUS
  <2>1. call[r] \in Tree
    BY DEF Committed, StoreInv, TypeInv, Registers, RegistersOf, Busy
  <2>2. parses[call[r]] \in ParseRec
    BY <2>1 DEF StoreInv, TypeInv, TypeOK, Tree
  <2>3. Len(parses) \in Nat /\ Cardinality(Looking) \in Nat /\ loads \in 0..LoadMax
        /\ Len(parses) + Cardinality(Looking) <= loads
    <3>1. parses \in Seq(ParseRec)
      BY DEF StoreInv, TypeInv, TypeOK
    <3> QED BY <3>1, FS_CardinalityType DEF StoreInv, TypeInv, TypeOK, Counted
  <2>4. call[r] \in 1..LoadMax
    <3>1. LoadMax \in Nat
      BY FileResolverAssumption
    <3> QED BY <2>1, <2>3, <3>1 DEF Tree
  <2> QED BY <2>2, <2>4, NoneAssumption DEF AnswerOf, ParseRec
<1> QED BY <1>1, <1>2, <1>3, NoneAssumption DEF Wants, Holds, WantOf, HoldOf, Request

\* A parse of a run that has one belongs to no other, and is in range.
LEMMA OwnCall ==
    ASSUME StoreInv, NEW q \in Run, NEW r \in Run, Busy(q), Busy(r), call[q] = call[r]
    PROVE  q = r
BY DEF StoreInv, TypeInv, Registers, RegistersOf

LEMMA CallInRange ==
    ASSUME StoreInv, NEW r \in Run, Busy(r)
    PROVE  call[r] \in 1..LoadMax /\ call[r] \in Tree
<1>1. call[r] \in Tree
  BY DEF StoreInv, TypeInv, Registers, RegistersOf
<1>2. Len(parses) \in Nat /\ Cardinality(Looking) \in Nat /\ loads \in 0..LoadMax
      /\ Len(parses) + Cardinality(Looking) <= loads
  <2>1. parses \in Seq(ParseRec)
    BY DEF StoreInv, TypeInv, TypeOK
  <2> QED BY <2>1, FS_CardinalityType DEF StoreInv, TypeInv, TypeOK, Counted
<1>3. LoadMax \in Nat
  BY FileResolverAssumption
<1> QED BY <1>1, <1>2, <1>3 DEF Tree

\* A step of r leaves what the store has of the other runs.
LEMMA OthersMap ==
    ASSUME StoreInv, NEW r \in Run, OthersStay(r),
           \A t \in Tree : AnswerOf(t)' = AnswerOf(t)
    PROVE  /\ Wants' = [Wants EXCEPT ![r] = WantOf(r)']
           /\ Holds' = [Holds EXCEPT ![r] = HoldOf(r)']
<1>1. \A q \in Run : q # r => WantOf(q)' = WantOf(q)
  BY DEF OthersStay, WantOf, Hosting
<1>2. \A q \in Run : q # r => HoldOf(q)' = HoldOf(q)
  <2> SUFFICES ASSUME NEW q \in Run, q # r PROVE HoldOf(q)' = HoldOf(q)
    OBVIOUS
  <2>1. Committed(q)' = Committed(q) /\ call'[q] = call[q]
    BY DEF OthersStay, Committed
  <2>2. Committed(q) => call[q] \in Tree
    BY DEF Committed, StoreInv, TypeInv, Registers, RegistersOf, Busy
  <2>3. Committed(q) => AnswerOf(call[q])' = AnswerOf(call[q])
    BY <2>1, <2>2 DEF AnswerOf
  <2> QED BY <2>1, <2>3 DEF HoldOf
<1> QED BY <1>1, <1>2 DEF Wants, Holds

\* One more parse: the trees so far stay, and the last is new.
LEMMA Grown ==
    ASSUME Len(parses) \in Nat, Len(parses') = Len(parses) + 1,
           \A t \in Tree : parses'[t] = parses[t]
    PROVE  /\ Tree' = Tree \cup {Len(parses')} /\ Len(parses') \notin Tree
           /\ \A t \in Tree : AnswerOf(t)' = AnswerOf(t)
<1>1. Tree' = Tree \cup {Len(parses')} /\ Len(parses') \notin Tree
  BY DEF Tree
<1>2. \A t \in Tree : AnswerOf(t)' = AnswerOf(t)
  BY DEF AnswerOf
<1> QED BY <1>1, <1>2

\* The parses made so far are made for good.
LEMMA TreesStay ==
    ASSUME StoreInv, NEW r \in Run,
           \/ \E p \in Path, pos, own \in BOOLEAN : Load(r, p, pos, own)
           \/ \E p \in Path, pos \in BOOLEAN : Preload(r, p, pos)
           \/ Step(r)
    PROVE  /\ Tree \subseteq Tree'
           /\ \A t \in Tree : AnswerOf(t)' = AnswerOf(t)
<1>0. TypeInv
  BY DEF StoreInv
<1>1. CASE UNCHANGED parses
  BY <1>1 DEF Tree, AnswerOf
<1>2. CASE Start(r)
  BY <1>0, <1>2, StartFacts, Grown
<1>3. CASE \E p \in Path, pos \in BOOLEAN : Preload(r, p, pos)
  BY <1>0, <1>3, PreloadFacts, Grown
<1>4. CASE Close(r)
  BY <1>0, <1>4, CloseFacts DEF Tree, AnswerOf
<1>5. CASE \/ \E p \in Path, pos, own \in BOOLEAN : Load(r, p, pos, own)
           \/ Hit(r) \/ Join(r) \/ Wake(r) \/ Abandon(r)
           \/ \E size \in Sizes : Parse(r, size)
           \/ ExpandTooMuch(r) \/ ReadFails(r)
           \/ Publish(r) \/ (\E victim \in Path : Evict(r, victim)) \/ Reject(r) \/ Store(r)
  BY <1>1, <1>5 DEF Load, Hit, Join, Wake, Abandon, Parse, ExpandTooMuch, ReadFails,
                    Parsed, Publish, Evict, Reject, Store, Unlock
<1> QED BY <1>2, <1>3, <1>4, <1>5 DEF Step

\* The store stands by what it stood by when the cache is left alone.
LEMMA CurrentStays ==
    ASSUME StoreInv, cache' = cache, \A t \in Tree : AnswerOf(t)' = AnswerOf(t)
    PROVE  Current' = Current
<1>1. \A p \in DOMAIN cache : AnswerOf(cache[p])' = AnswerOf(cache[p])
  BY DEF AnswerOf, StoreInv, TypeInv, TypeOK
<1> QED BY <1>1 DEF Current

LEMMA CurrentFacts ==
    /\ DOMAIN Current = DOMAIN cache
    /\ \A p \in DOMAIN cache : /\ Current[p] = AnswerOf(cache[p])
                               /\ Current[p].pos = parses[cache[p]].pos
                               /\ Current[p].host = parses[cache[p]].host
                               /\ Current[p].id = cache[p]
BY DEF Current, AnswerOf

\* Whether a tree is made depends on its end and on the runs that have it.
LEMMA MadeStays ==
    ASSUME NEW r \in Run, OthersStay(r), NEW t \in Tree,
           parses'[t].end = parses[t].end,
           (call'[r] = t /\ Hosting(r)') <=> (call[r] = t /\ Hosting(r)),
           (call'[r] = t /\ Committed(r)') <=> (call[r] = t /\ Committed(r))
    PROVE  Made(t)' <=> Made(t)
<1>1. \A q \in Run : /\ (call'[q] = t /\ Hosting(q)') <=> (call[q] = t /\ Hosting(q))
                     /\ (call'[q] = t /\ Committed(q)') <=> (call[q] = t /\ Committed(q))
  BY DEF OthersStay, Hosting, Committed
<1> QED BY <1>1 DEF Made

\* A step that makes no tree.
LEMMA UsedStays ==
    ASSUME NEW r \in Run, OthersStay(r), Tree' = Tree,
           \A t \in Tree : parses'[t].end = parses[t].end,
           Hosting(r)' <=> Hosting(r), Committed(r)' <=> Committed(r),
           call'[r] = call[r] \/ (~Hosting(r) /\ ~Committed(r))
    PROVE  Used' = Used
<1>1. \A t \in Tree : Made(t)' <=> Made(t)
  BY MadeStays
<1> QED BY <1>1 DEF Used

\* Steps the store does not see.
LEMMA Unseen ==
    ASSUME StoreInv, NEW r \in Run, OthersStay(r),
           cache' = cache, got' = got, parses' = parses, req'[r] = req[r],
           pc[r] # "idle", pc'[r] # "idle",
           Hosting(r)' <=> Hosting(r), ~Committed(r), ~Committed(r)',
           call'[r] = call[r] \/ ~Hosting(r)
    PROVE  UNCHANGED Atomic!storeVars
<1>1. \A t \in Tree : AnswerOf(t)' = AnswerOf(t)
  BY DEF AnswerOf
<1>2. WantOf(r)' = WantOf(r) /\ HoldOf(r)' = HoldOf(r)
  BY DEF WantOf, HoldOf, Hosting
<1>3. Wants' = Wants /\ Holds' = Holds
  BY <1>1, <1>2, OthersMap DEF Wants, Holds
<1>4. Current' = Current
  BY <1>1, CurrentStays
<1>5. Used' = Used
  BY UsedStays DEF Tree
<1>6. Returned' = Returned
  BY DEF Returned
<1> QED BY <1>3, <1>4, <1>5, <1>6 DEF Atomic!storeVars

LEMMA QuietStore ==
    ASSUME StoreInv, NEW r \in Run,
           \/ Join(r) \/ Abandon(r)
           \/ \E size \in Sizes : Parse(r, size)
           \/ ExpandTooMuch(r) \/ ReadFails(r)
           \/ Wake(r) /\ parses[call[r]].end = "ok"
    PROVE  UNCHANGED Atomic!storeVars
<1>0. OthersStay(r) /\ TypeOK
  BY StepOthersStay DEF Step, StoreInv, TypeInv
<1>1. CASE Join(r)
  BY <1>0, <1>1, Unseen DEF Join, cacheVars, history, Hosting, Committed, TypeOK
<1>2. CASE Abandon(r)
  BY <1>0, <1>2, Unseen DEF Abandon, cacheVars, runVars, history, Hosting, Committed, TypeOK
<1>3. CASE \/ \E size \in Sizes : Parse(r, size)
           \/ ExpandTooMuch(r) \/ ReadFails(r)
  <2>1. pc[r] = "parse" /\ \E size, end : Parsed(r, size, end)
    BY <1>3 DEF Parse, ExpandTooMuch, ReadFails
  <2> QED BY <1>0, <2>1, Unseen DEF Parsed, cacheVars, history, Hosting, Committed, TypeOK
<1>4. CASE Wake(r) /\ parses[call[r]].end = "ok"
  BY <1>0, <1>4, Unseen DEF Wake, cacheVars, Hosting, Committed, TypeOK
<1> QED BY <1>1, <1>2, <1>3, <1>4

LEMMA StartStore ==
    ASSUME StoreInv, NEW r \in Run, Start(r)
    PROVE  UNCHANGED Atomic!storeVars
<1>0. OthersStay(r) /\ TypeOK /\ TypeInv
  BY StepOthersStay DEF Step, StoreInv, TypeInv
<1>1. /\ \A t \in Tree : AnswerOf(t)' = AnswerOf(t)
      /\ \A t \in Tree : parses'[t] = parses[t] /\ t # Len(parses')
      /\ Tree' = Tree \cup {Len(parses')}
      /\ parses'[Len(parses')].end = "open"
      /\ call'[r] = Len(parses')
      /\ pc[r] = "look" /\ pc'[r] = "parse" /\ cache' = cache /\ req' = req /\ got' = got
  <2>1. /\ \A t \in Tree : AnswerOf(t)' = AnswerOf(t)
        /\ \A t \in Tree : parses'[t] = parses[t] /\ t # Len(parses')
        /\ Tree' = Tree \cup {Len(parses')}
        /\ parses'[Len(parses')].end = "open"
    <3>1. /\ Len(parses) \in Nat /\ Len(parses') = Len(parses) + 1
          /\ \A t \in Tree : parses'[t] = parses[t]
          /\ parses'[Len(parses')] = [path |-> req[r].path, pos |-> req[r].pos,
                                      by |-> r, host |-> FALSE, end |-> "open"]
      BY <1>0, StartFacts
    <3>2. parses'[Len(parses')].end = "open"
      BY <3>1
    <3>3. /\ Tree' = Tree \cup {Len(parses')} /\ Len(parses') \notin Tree
          /\ \A t \in Tree : AnswerOf(t)' = AnswerOf(t)
      BY <3>1, Grown
    <3> QED BY <3>1, <3>2, <3>3
  <2>2. /\ call'[r] = Len(parses') /\ pc[r] = "look" /\ pc'[r] = "parse"
        /\ cache' = cache /\ req' = req /\ got' = got
    <3>1. DOMAIN call = Run /\ DOMAIN pc = Run
      BY <1>0 DEF TypeOK
    <3>2. /\ pc[r] = "look" /\ call' = [call EXCEPT ![r] = Len(parses')]
          /\ pc' = [pc EXCEPT ![r] = "parse"]
          /\ UNCHANGED <<cacheVars, req, history>>
      BY <1>0, StartFacts
    <3> QED BY <1>0, <3>1, <3>2 DEF TypeOK, cacheVars, history
  <2> QED BY <2>1, <2>2
<1>2. WantOf(r)' = WantOf(r) /\ HoldOf(r)' = HoldOf(r)
  BY <1>1 DEF WantOf, HoldOf, Hosting, Committed
<1>3. Wants' = Wants /\ Holds' = Holds
  BY <1>0, <1>1, <1>2, OthersMap DEF Wants, Holds
<1>4. Current' = Current
  BY <1>1, CurrentStays
<1>5. \A t \in Tree : Made(t)' <=> Made(t)
  <2>1. ~Hosting(r) /\ ~Hosting(r)' /\ ~Committed(r) /\ ~Committed(r)'
    BY <1>1 DEF Hosting, Committed
  <2> QED BY <1>0, <1>1, <2>1, MadeStays
<1>6. ~Made(Len(parses))'
  <2> DEFINE n == Len(parses')
  <2>1. \A q \in Run : Committed(q)' => call'[q] # n
    <3> SUFFICES ASSUME NEW q \in Run, Committed(q)' PROVE call'[q] # n
      OBVIOUS
    <3>1. q # r /\ call'[q] = call[q] /\ Committed(q)
      BY <1>0, <1>1 DEF Committed, OthersStay
    <3>2. call[q] \in Tree
      BY <1>0, <3>1 DEF TypeInv, Registers, RegistersOf, Busy, Committed
    <3> QED BY <1>1, <3>1, <3>2
  <2> QED BY <1>1, <2>1 DEF Made
<1>7. Used' = Used
  BY <1>1, <1>5, <1>6 DEF Used
<1>8. Returned' = Returned
  BY <1>1 DEF Returned
<1> QED BY <1>3, <1>4, <1>7, <1>8 DEF Atomic!storeVars

\* A call, or the host's Preload, is a request.
LEMMA LoadStore ==
    ASSUME StoreInv, NEW r \in Run, NEW p \in Path, NEW pos \in BOOLEAN,
           NEW own \in BOOLEAN, Load(r, p, pos, own)
    PROVE  [Atomic!StoreNext]_Atomic!storeVars
<1> DEFINE ask == [path |-> p, pos |-> pos, host |-> FALSE]
<1>0. OthersStay(r) /\ TypeOK
  BY StepOthersStay DEF StoreInv, TypeInv
<1>1. \A t \in Tree : AnswerOf(t)' = AnswerOf(t)
  BY TreesStay
<1>2. /\ pc[r] = "idle" /\ pc'[r] = "look" /\ req'[r].path = p /\ req'[r].pos = pos
      /\ cache' = cache /\ got' = got /\ parses' = parses /\ call' = call
  BY <1>0 DEF Load, TypeOK, cacheVars, history
<1>3. WantOf(r)' = ask /\ HoldOf(r)' = HoldOf(r)
  <2>1. Hosting(r)' = FALSE /\ ~Committed(r) /\ ~Committed(r)'
    BY <1>2 DEF Hosting, Committed
  <2> QED BY <1>2, <2>1 DEF WantOf, HoldOf
<1>4. /\ Wants' = [Wants EXCEPT ![r] = ask] /\ Holds' = Holds
  BY <1>0, <1>1, <1>3, OthersMap DEF Holds
<1>5. Current' = Current
  BY <1>1, <1>2, CurrentStays
<1>6. Used' = Used
  <2>1. ~Hosting(r) /\ ~Hosting(r)' /\ ~Committed(r) /\ ~Committed(r)'
    BY <1>2 DEF Hosting, Committed
  <2> QED BY <1>0, <1>2, <2>1, UsedStays DEF Tree
<1>7. Returned' = Returned
  BY <1>2 DEF Returned
<1>8. Wants[r] = None
  BY <1>2, RunMaps
<1>9. ask \in Atomic!Ask
  BY DEF Atomic!Ask
<1>10. Atomic!Request(r, ask)
  BY <1>4, <1>5, <1>6, <1>7, <1>8 DEF Atomic!Request
<1> QED BY <1>9, <1>10 DEF Atomic!StoreNext

LEMMA PreloadStore ==
    ASSUME StoreInv, NEW r \in Run, NEW p \in Path, NEW pos \in BOOLEAN, Preload(r, p, pos)
    PROVE  [Atomic!StoreNext]_Atomic!storeVars
<1> DEFINE ask == [path |-> p, pos |-> pos, host |-> TRUE]
<1>0. OthersStay(r) /\ TypeOK /\ TypeInv
  BY StepOthersStay DEF StoreInv, TypeInv
<1>1. /\ \A t \in Tree : AnswerOf(t)' = AnswerOf(t)
      /\ \A t \in Tree : parses'[t] = parses[t]
      /\ Tree' = Tree \cup {Len(parses')} /\ Len(parses') \notin Tree
  <2>1. /\ Len(parses) \in Nat /\ Len(parses') = Len(parses) + 1
        /\ \A t \in Tree : parses'[t] = parses[t]
    BY <1>0, PreloadFacts
  <2> QED BY <2>1, Grown
<1>2. /\ pc[r] = "idle" /\ pc'[r] = "preload" /\ req'[r].path = p /\ req'[r].pos = pos
      /\ cache' = cache /\ got' = got /\ call'[r] = Len(parses')
  <2>1. DOMAIN call = Run /\ DOMAIN pc = Run /\ DOMAIN req = Run
    BY <1>0 DEF TypeOK
  <2>2. /\ pc[r] = "idle" /\ pc' = [pc EXCEPT ![r] = "preload"]
        /\ req' = [req EXCEPT ![r] = [path |-> p, pos |-> pos, own |-> FALSE]]
        /\ call' = [call EXCEPT ![r] = Len(parses')]
        /\ UNCHANGED <<cacheVars, history>>
    BY DEF Preload
  <2> QED BY <2>1, <2>2 DEF cacheVars, history
<1>3. Hosting(r)' /\ ~Hosting(r) /\ ~Committed(r) /\ ~Committed(r)'
  BY <1>2 DEF Hosting, Committed
<1>4. WantOf(r)' = ask /\ HoldOf(r)' = HoldOf(r)
  BY <1>2, <1>3 DEF WantOf, HoldOf
<1>5. /\ Wants' = [Wants EXCEPT ![r] = ask] /\ Holds' = Holds
  BY <1>0, <1>1, <1>4, OthersMap DEF Holds
<1>6. Current' = Current
  BY <1>1, <1>2, CurrentStays
<1>7. \A t \in Tree : Made(t)' <=> Made(t)
  BY <1>0, <1>1, <1>2, <1>3, MadeStays
<1>8. ~Made(Len(parses))'
  <2> DEFINE n == Len(parses')
  <2>1. \A q \in Run : Committed(q)' => call'[q] # n
    <3> SUFFICES ASSUME NEW q \in Run, Committed(q)' PROVE call'[q] # n
      OBVIOUS
    <3>1. q # r /\ call'[q] = call[q] /\ Committed(q)
      BY <1>0, <1>3 DEF Committed, OthersStay
    <3>2. call[q] \in Tree
      BY <1>0, <3>1 DEF TypeInv, Registers, RegistersOf, Busy, Committed
    <3> QED BY <1>1, <3>1, <3>2
  <2> QED BY <1>2, <1>3, <2>1 DEF Made
<1>9. Used' = Used
  BY <1>1, <1>7, <1>8 DEF Used
<1>10. Returned' = Returned
  BY <1>2 DEF Returned
<1>11. Wants[r] = None
  BY <1>2, RunMaps
<1>12. ask \in Atomic!Ask
  BY DEF Atomic!Ask
<1>13. Atomic!Request(r, ask)
  BY <1>5, <1>6, <1>9, <1>10, <1>11 DEF Atomic!Request
<1> QED BY <1>12, <1>13 DEF Atomic!StoreNext

\* A return to the caller.
LEMMA ReturnedGrows ==
    ASSUME NEW r, NEW p, NEW pos, NEW t, NEW j,
           got' = got \cup {[to |-> r, path |-> p, pos |-> pos, tree |-> t, joined |-> j]}
    PROVE  Returned' = Returned \cup {[to |-> r, path |-> p, tree |-> t]}
<1> DEFINE as(g) == [to |-> g.to, path |-> g.path, tree |-> g.tree]
           new == [to |-> r, path |-> p, pos |-> pos, tree |-> t, joined |-> j]
<1>1. as(new) = [to |-> r, path |-> p, tree |-> t] /\ got' = got \cup {new}
  OBVIOUS
<1>2. Returned = {as(g) : g \in got} /\ Returned' = {as(g) : g \in got'}
  BY DEF Returned
<1> HIDE DEF as, new
<1>3. Returned' = Returned \cup {as(new)}
  BY <1>1, <1>2
<1> QED BY <1>1, <1>3

LEMMA HitStore ==
    ASSUME StoreInv, NEW r \in Run, Hit(r)
    PROVE  [Atomic!StoreNext]_Atomic!storeVars
<1> DEFINE p == req[r].path
<1>0. OthersStay(r) /\ TypeOK
  BY StepOthersStay DEF Step, StoreInv, TypeInv
<1>1. /\ pc[r] = "look" /\ pc'[r] = "idle" /\ cache' = cache /\ parses' = parses
      /\ req' = req /\ call' = call /\ p \in DOMAIN cache
      /\ req[r].pos => parses[cache[p]].pos
      /\ got' = got \cup {[to |-> r, path |-> p, pos |-> req[r].pos,
                           tree |-> cache[p], joined |-> joined[r]]}
  BY <1>0 DEF Hit, Serves, Return, TypeOK, cacheVars, runVars
<1>2. \A t \in Tree : AnswerOf(t)' = AnswerOf(t)
  BY TreesStay DEF Step
<1>3. ~Hosting(r) /\ ~Hosting(r)' /\ ~Committed(r) /\ ~Committed(r)'
  BY <1>1 DEF Hosting, Committed
<1>4. WantOf(r)' = None /\ HoldOf(r)' = HoldOf(r)
  BY <1>1, <1>3 DEF WantOf, HoldOf
<1>5. Wants' = [Wants EXCEPT ![r] = None] /\ Holds' = Holds
  BY <1>0, <1>2, <1>4, OthersMap DEF Holds
<1>6. Current' = Current
  BY <1>1, <1>2, CurrentStays
<1>7. Used' = Used
  BY <1>0, <1>1, <1>3, UsedStays DEF Tree
<1>8. Returned' = Returned \cup {[to |-> r, path |-> p, tree |-> cache[p]]}
  BY <1>1, ReturnedGrows
<1>9. /\ Wants[r] # None /\ Wants[r].path = p /\ Wants[r].pos = req[r].pos
      /\ ~Wants[r].host /\ Holds[r] = None
  BY <1>1, <1>3, RunMaps
<1>10. /\ p \in DOMAIN Current /\ Current[p].pos = parses[cache[p]].pos
       /\ Current[p].id = cache[p]
  BY <1>1, CurrentFacts
<1>11. Atomic!Loading(r)
  BY <1>9 DEF Atomic!Loading, Atomic!Making
<1>12. Atomic!Returns(r, Current[Wants[r].path])
  BY <1>5, <1>8, <1>9, <1>10 DEF Atomic!Returns
<1>13. Atomic!Hit(r)
  BY <1>1, <1>5, <1>6, <1>7, <1>9, <1>10, <1>11, <1>12 DEF Atomic!Hit
<1> QED BY <1>13 DEF Atomic!StoreNext

\* A tree leaves the store.
LEMMA CurrentLoses ==
    ASSUME NEW p, Forget(p), parses' = parses
    PROVE  /\ Current' = [q \in DOMAIN Current \ {p} |-> Current[q]]
           /\ p \notin DOMAIN cache => Current' = Current
<1>1. cache' = [q \in DOMAIN cache \ {p} |-> cache[q]]
  BY DEF Forget, Without
<1>2. \A q \in DOMAIN cache' : AnswerOf(cache[q])' = Current[q]
  BY <1>1 DEF Current, AnswerOf
<1>3. /\ DOMAIN Current' = DOMAIN Current \ {p}
      /\ \A q \in DOMAIN Current' : Current'[q] = Current[q]
      /\ Current' = [q \in DOMAIN cache \ {p} |-> Current'[q]]
  BY <1>1, <1>2 DEF Current
<1>4. Current' = [q \in DOMAIN Current \ {p} |-> Current[q]]
  BY <1>3 DEF Current
<1>5. p \notin DOMAIN cache => Current' = Current
  BY <1>4 DEF Current
<1> QED BY <1>4, <1>5

LEMMA PublishStore ==
    ASSUME StoreInv, NEW r \in Run, Publish(r)
    PROVE  [Atomic!StoreNext]_Atomic!storeVars
<1> DEFINE p == req[r].path
<1>0. OthersStay(r) /\ TypeOK
  BY StepOthersStay DEF Step, StoreInv, TypeInv
<1>1. /\ pc[r] \in {"publish", "preload"} /\ pc'[r] \in {"admit", "admitPreload"}
      /\ pc[r] = "preload" <=> pc'[r] = "admitPreload"
      /\ parses' = parses /\ req' = req /\ call' = call /\ result' = result
      /\ got' = got /\ Forget(p)
  BY <1>0 DEF Publish, TypeOK, runVars
<1>2. \A t \in Tree : AnswerOf(t)' = AnswerOf(t)
  BY TreesStay DEF Step
<1>3. (Hosting(r)' <=> Hosting(r)) /\ ~Committed(r) /\ ~Committed(r)'
  BY <1>1 DEF Hosting, Committed
<1>4. WantOf(r)' = WantOf(r) /\ HoldOf(r)' = HoldOf(r)
  BY <1>1, <1>3 DEF WantOf, HoldOf, Hosting
<1>5. Wants' = Wants /\ Holds' = Holds
  BY <1>0, <1>2, <1>4, OthersMap DEF Wants, Holds
<1>6. Used' = Used
  BY <1>0, <1>1, <1>3, UsedStays DEF Tree
<1>7. Returned' = Returned
  BY <1>1 DEF Returned
<1>8. CASE p \notin DOMAIN cache
  <2>1. Current' = Current
    BY <1>1, <1>8, CurrentLoses
  <2> QED BY <1>5, <1>6, <1>7, <2>1 DEF Atomic!storeVars
<1>9. CASE p \in DOMAIN cache
  <2>1. ~SameKind(cache[p], call[r])
    <3>1. CASE pc[r] = "publish"
      BY <1>9, <3>1 DEF StoreInv, Kept, Parsing
    <3>2. CASE pc[r] = "preload"
      <4>1. parses[call[r]].host = Hosting(r)
        BY <3>2 DEF StoreInv, TypeInv, Registers, RegistersOf, Busy
      <4>2. parses[call[r]].host
        BY <3>2, <4>1 DEF Hosting
      <4> QED BY <4>2 DEF SameKind
    <3> QED BY <1>1, <3>1, <3>2
  <2>2. parses[call[r]].pos = req[r].pos /\ (parses[call[r]].host <=> Hosting(r))
    BY <1>1 DEF StoreInv, TypeInv, Registers, RegistersOf, Busy
  <2>3. /\ Wants[r] # None /\ Wants[r].path = p /\ Wants[r].pos = req[r].pos
        /\ Wants[r].host = Hosting(r) /\ Holds[r] = None
    BY <1>1, <1>3, RunMaps
  <2>4. /\ p \in DOMAIN Current /\ Current[p].pos = parses[cache[p]].pos
        /\ Current[p].host = parses[cache[p]].host
    BY <1>9, CurrentFacts
  <2>5. \/ Wants[r].host \/ Current[p].host \/ Wants[r].pos # Current[p].pos
    BY <2>1, <2>2, <2>3, <2>4 DEF SameKind
  <2>6. Current' = [q \in DOMAIN Current \ {p} |-> Current[q]]
    BY <1>1, CurrentLoses
  <2>7. Atomic!Supersede(r)
    BY <1>5, <1>6, <1>7, <2>3, <2>4, <2>5, <2>6 DEF Atomic!Supersede, Atomic!Making
  <2> QED BY <2>7 DEF Atomic!StoreNext
<1> QED BY <1>8, <1>9

LEMMA EvictStore ==
    ASSUME StoreInv, NEW r \in Run, NEW victim \in Path, Evict(r, victim)
    PROVE  [Atomic!StoreNext]_Atomic!storeVars
<1> DEFINE p == req[r].path
           size == result[r].size
<1>0. OthersStay(r) /\ TypeOK
  BY StepOthersStay DEF Step, StoreInv, TypeInv
<1>1. /\ Admitting(r) /\ pc' = pc /\ parses' = parses /\ req' = req /\ call' = call
      /\ result' = result /\ got' = got /\ Forget(victim) /\ victim \in DOMAIN cache
      /\ ~Rejected(size) /\ MustEvict(size)
  BY DEF Evict, runVars
<1>2. \A t \in Tree : AnswerOf(t)' = AnswerOf(t)
  BY TreesStay DEF Step
<1>3. (Hosting(r)' <=> Hosting(r)) /\ ~Committed(r) /\ ~Committed(r)'
  BY <1>1 DEF Hosting, Committed, Admitting
<1>4. WantOf(r)' = WantOf(r) /\ HoldOf(r)' = HoldOf(r)
  BY <1>1, <1>3 DEF WantOf, HoldOf, Hosting
<1>5. Wants' = Wants /\ Holds' = Holds
  BY <1>0, <1>2, <1>4, OthersMap DEF Wants, Holds
<1>6. Used' = Used
  BY <1>0, <1>1, <1>3, UsedStays DEF Tree
<1>7. Returned' = Returned
  BY <1>1 DEF Returned
<1>8. Current' = [q \in DOMAIN Current \ {victim} |-> Current[q]]
  BY <1>1, CurrentLoses
<1>9. Wants[r] # None /\ Wants[r].path = p /\ Holds[r] = None
  BY <1>1, <1>3, RunMaps DEF Admitting
<1>10. p \notin DOMAIN Current /\ victim \in DOMAIN Current
  BY <1>1, CurrentFacts DEF StoreInv, Kept
<1>11. (\E s \in Sizes : s > CacheMaxBytes) \/ Cardinality(DOMAIN Current) >= CacheMax
  <2>1. CASE Cardinality(DOMAIN cache) >= CacheMax
    BY <2>1, CurrentFacts
  <2>2. CASE cacheBytes + size > CacheMaxBytes
    <3>1. size \in Sizes \cup {0} /\ size \in Nat /\ CacheMaxBytes \in Nat
      BY <1>0, FileResolverAssumption DEF TypeOK, StoreInv, Counted
    <3>2. ~(size <= CacheMaxBytes)
      BY <1>1, <2>2 DEF Rejected
    <3> HIDE DEF size
    <3>3. size > CacheMaxBytes /\ size \in Sizes
      BY <3>1, <3>2
    <3> QED BY <3>3
  <2> QED BY <1>1, <2>1, <2>2 DEF MustEvict
<1>12. Atomic!Cardinality(DOMAIN Current) = Cardinality(DOMAIN Current)
  BY DEF Atomic!Cardinality, Cardinality
<1>13. Atomic!Evict(victim)
  BY <1>5, <1>6, <1>7, <1>8, <1>9, <1>10, <1>11, <1>12 DEF Atomic!Evict, Atomic!Making
<1> QED BY <1>13 DEF Atomic!StoreNext

\* A call commits to its own tree, which the store stands by or refuses.
LEMMA MakeStore ==
    ASSUME StoreInv, NEW r \in Run, Reject(r) \/ Store(r)
    PROVE  [Atomic!StoreNext]_Atomic!storeVars
<1> DEFINE p == req[r].path
           id == call[r]
           t == [id |-> id, pos |-> Wants[r].pos, host |-> Wants[r].host]
<1>0. OthersStay(r) /\ TypeOK
  BY StepOthersStay DEF Step, StoreInv, TypeInv
<1>1. /\ Admitting(r) /\ parses' = parses /\ req' = req /\ call' = call
      /\ result' = result /\ got' = got
      /\ pc'[r] = IF pc[r] = "admitPreload" THEN "idle" ELSE "close"
  BY <1>0 DEF Reject, Store, Unlock, TypeOK, runVars
<1>2. \A u \in Tree : AnswerOf(u)' = AnswerOf(u)
  BY TreesStay DEF Step
<1>3. Busy(r) /\ ~Committed(r) /\ result[r].end = "ok"
  BY <1>1 DEF Busy, Committed, Admitting, StoreInv, TypeInv, Registers, RegistersOf
<1>4. /\ id \in 1..LoadMax /\ id \in Tree
      /\ parses[id].pos = req[r].pos /\ parses[id].host = Hosting(r)
      /\ parses[id].end = IF Hosting(r) THEN "ok" ELSE "open"
  BY <1>3, CallInRange DEF StoreInv, TypeInv, Registers, RegistersOf
<1>5. /\ Wants[r] # None /\ Holds[r] = None
      /\ Wants[r] = [path |-> p, pos |-> req[r].pos, host |-> Hosting(r)]
  BY <1>1, <1>3, RunMaps DEF Admitting
<1>6. AnswerOf(id) = t
  BY <1>4, <1>5 DEF AnswerOf
<1>7. p \notin DOMAIN Current
  BY <1>1, CurrentFacts DEF StoreInv, Kept
<1>8. ~Made(id)
  <2>1. \A q \in Run : Committed(q) => call[q] # id
    BY <1>3, OwnCall DEF Busy, Committed
  <2> QED BY <1>4, <2>1 DEF Made
<1>9. Made(id)'
  <2>1. CASE Hosting(r)
    <3>1. ~Hosting(r)' /\ parses'[id].end = "ok"
      BY <1>1, <1>4, <2>1 DEF Hosting
    <3>2. \A q \in Run : q # r /\ Hosting(q)' => call'[q] # id
      BY <1>0, <1>3, OwnCall DEF OthersStay, Hosting, Busy
    <3> QED BY <1>1, <3>1, <3>2 DEF Made
  <2>2. CASE ~Hosting(r)
    <3>1. Committed(r)' /\ call'[r] = id
      BY <1>1, <1>3, <2>2 DEF Committed, Hosting
    <3> QED BY <1>1, <3>1 DEF Made
  <2> QED BY <2>1, <2>2
<1>10. Used' = Used \cup {id}
  <2>1. \A u \in Tree : u # id => (Made(u)' <=> Made(u))
    BY <1>0, <1>1, MadeStays
  <2>2. Tree' = Tree
    BY <1>1 DEF Tree
  <2>3. call' = call
    BY <1>1
  <2> QED BY <1>4, <1>9, <2>1, <2>2, <2>3 DEF Used
<1>11. Returned' = Returned
  BY <1>1 DEF Returned
<1>12. Current' = Current \/ Current' = [q \in DOMAIN Current \cup {p} |->
                                            IF q = p THEN t ELSE Current[q]]
  <2>1. CASE Reject(r)
    BY <1>2, <2>1, CurrentStays DEF Reject, cacheVars
  <2>2. CASE Store(r)
    <3>1. cache' = [q \in DOMAIN cache \cup {p} |-> IF q = p THEN id ELSE cache[q]]
      BY <2>2 DEF Store, With
    <3>2. \A q \in DOMAIN cache' :
            AnswerOf(cache[q])' = IF q = p THEN AnswerOf(id) ELSE AnswerOf(cache[q])
      BY <1>1, <3>1 DEF AnswerOf
    <3> HIDE DEF t, id
    <3>3. Current' = [q \in DOMAIN cache \cup {p} |->
                        IF q = p THEN t ELSE AnswerOf(cache[q])]
      BY <1>6, <3>1, <3>2 DEF Current
    <3>4. \A q \in DOMAIN cache \cup {p} :
            (IF q = p THEN t ELSE AnswerOf(cache[q])) = IF q = p THEN t ELSE Current[q]
      BY CurrentFacts
    <3> QED BY <3>3, <3>4, CurrentFacts
  <2> QED BY <2>1, <2>2
<1>13. IF Hosting(r) THEN WantOf(r)' = None /\ HoldOf(r)' = HoldOf(r)
       ELSE WantOf(r)' = WantOf(r) /\ HoldOf(r)' = t
  <2>1. CASE Hosting(r)
    <3>1. pc'[r] = "idle" /\ ~Committed(r)'
      BY <1>1, <2>1 DEF Hosting, Admitting, Committed
    <3> QED BY <1>3, <2>1, <3>1 DEF WantOf, HoldOf
  <2>2. CASE ~Hosting(r)
    <3>1. pc[r] = "admit" /\ pc'[r] = "close"
      BY <1>1, <2>2 DEF Hosting, Admitting
    <3>2. Hosting(r)' = Hosting(r) /\ Committed(r)'
      BY <1>1, <1>3, <3>1 DEF Hosting, Committed
    <3>3. AnswerOf(call[r])' = t
      BY <1>1, <1>2, <1>4, <1>6 DEF AnswerOf
    <3>4. WantOf(r)' = WantOf(r)
      BY <1>1, <3>1, <3>2 DEF WantOf
    <3>5. HoldOf(r)' = t
      BY <3>2, <3>3 DEF HoldOf
    <3> QED BY <2>2, <3>4, <3>5
  <2> QED BY <2>1, <2>2
<1>14. IF Wants[r].host THEN Wants' = [Wants EXCEPT ![r] = None] /\ Holds' = Holds
       ELSE Holds' = [Holds EXCEPT ![r] = t] /\ Wants' = Wants
  <2>1. Wants[r].host = Hosting(r)
    BY <1>5
  <2>2. Wants' = [Wants EXCEPT ![r] = WantOf(r)'] /\ Holds' = [Holds EXCEPT ![r] = HoldOf(r)']
    BY <1>0, <1>2, OthersMap
  <2>3. /\ HoldOf(r)' = HoldOf(r) => Holds' = Holds
        /\ WantOf(r)' = WantOf(r) => Wants' = Wants
    BY <2>2 DEF Wants, Holds
  <2> HIDE DEF t
  <2> QED BY <1>13, <2>1, <2>2, <2>3
<1>15. id \notin Used
  BY <1>8 DEF Used
<1>16. Wants[r].path = p
  BY <1>5
<1>17. Atomic!Make(r, id)
  <2> HIDE DEF id, p
  <2> QED BY <1>5, <1>7, <1>10, <1>11, <1>12, <1>14, <1>15, <1>16
          DEF Atomic!Make, Atomic!Making
<1> QED BY <1>4, <1>17 DEF Atomic!StoreNext

\* The call returns with its tree, or with the error.
LEMMA CloseStore ==
    ASSUME StoreInv, NEW r \in Run, Close(r)
    PROVE  [Atomic!StoreNext]_Atomic!storeVars
<1> DEFINE id == call[r]
<1>0. OthersStay(r) /\ TypeOK /\ TypeInv
  BY StepOthersStay DEF Step, StoreInv, TypeInv
<1>1. /\ pc[r] = "close" /\ pc'[r] = "idle"
      /\ cache' = cache /\ req' = req /\ call' = call /\ Tree' = Tree /\ id \in Tree
      /\ \A t \in Tree : parses'[t].end = IF t = id THEN result[r].end ELSE parses[t].end
  <2>1. DOMAIN pc = Run
    BY <1>0 DEF TypeOK
  <2> QED BY <1>0, <2>1, CloseFacts DEF cacheVars, runVars
<1>2. \A t \in Tree : AnswerOf(t)' = AnswerOf(t)
  BY TreesStay DEF Step
<1>3. ~Hosting(r) /\ ~Hosting(r)' /\ ~Committed(r)' /\ Busy(r)
  BY <1>1 DEF Hosting, Committed, Busy
<1>4. WantOf(r)' = None /\ HoldOf(r)' = None
  BY <1>1, <1>3 DEF WantOf, HoldOf
<1>5. Wants' = [Wants EXCEPT ![r] = None] /\ Holds' = [Holds EXCEPT ![r] = None]
  BY <1>0, <1>2, <1>4, OthersMap
<1>6. Current' = Current
  BY <1>1, <1>2, CurrentStays
<1>7. /\ Wants[r] # None /\ Wants[r].path = req[r].path /\ ~Wants[r].host
      /\ Committed(r) => Holds[r] = AnswerOf(id) /\ Holds[r] # None
      /\ ~Committed(r) => Holds[r] = None
  BY <1>1, <1>3, RunMaps
<1>8. parses[id].end = "open"
  BY <1>3, <1>0 DEF TypeInv, Registers, RegistersOf
<1>9. Made(id)' <=> Made(id)
  <2>1. \A q \in Run : q # r => ~(call[q] = id /\ Hosting(q)) /\ ~(call[q] = id /\ Committed(q))
    BY <1>3, OwnCall DEF Hosting, Committed, Busy
  <2>2. \A q \in Run : ~(call'[q] = id /\ Hosting(q)') /\ ~(call'[q] = id /\ Committed(q)')
    BY <1>0, <1>3, <2>1 DEF OthersStay, Hosting, Committed
  <2>3. Made(id) <=> Committed(r)
    BY <1>8, <2>1 DEF Made
  <2>4. Made(id)' <=> parses'[id].end = "ok"
    BY <1>1, <2>2 DEF Made
  <2> QED BY <1>1, <2>3, <2>4 DEF Committed
<1>10. Used' = Used
  <2>1. \A t \in Tree : t # id => (Made(t)' <=> Made(t))
    BY <1>0, <1>1, MadeStays
  <2> QED BY <1>1, <1>9, <2>1 DEF Used
<1>11. CASE result[r].end = "ok"
  <2>1. Committed(r)
    BY <1>1, <1>11 DEF Committed
  <2>2. got' = got \cup {[to |-> r, path |-> req[r].path, pos |-> req[r].pos,
                          tree |-> id, joined |-> joined[r]]}
    BY <1>11 DEF Close, Return
  <2>3. Returned' = Returned \cup {[to |-> r, path |-> req[r].path, tree |-> id]}
    BY <2>2, ReturnedGrows
  <2>4. Holds[r] # None /\ Holds[r].id = id
    BY <1>7, <2>1 DEF AnswerOf
  <2>5. Atomic!Reply(r)
    BY <1>5, <1>6, <1>7, <1>10, <2>3, <2>4 DEF Atomic!Reply, Atomic!Returns
  <2> QED BY <2>5 DEF Atomic!StoreNext
<1>12. CASE result[r].end # "ok"
  <2>1. ~Committed(r)
    BY <1>12 DEF Committed
  <2>2. got' = got
    BY <1>12 DEF Close, Refuse
  <2>3. Returned' = Returned
    BY <2>2 DEF Returned
  <2>4. Holds[r] = None /\ Holds' = Holds
    BY <1>5, <1>7, <2>1 DEF Holds
  <2>5. Atomic!Fail(r)
    BY <1>5, <1>6, <1>7, <1>10, <2>3, <2>4 DEF Atomic!Fail, Atomic!Loading, Atomic!Making
  <2> QED BY <2>5 DEF Atomic!StoreNext
<1> QED BY <1>11, <1>12

\* Whoever waited shares the error.
LEMMA WakeStore ==
    ASSUME StoreInv, NEW r \in Run, Wake(r), parses[call[r]].end # "ok"
    PROVE  [Atomic!StoreNext]_Atomic!storeVars
<1>0. OthersStay(r) /\ TypeOK
  BY StepOthersStay DEF Step, StoreInv, TypeInv
<1>1. /\ pc[r] = "wait" /\ pc'[r] = "idle" /\ cache' = cache /\ parses' = parses
      /\ req' = req /\ call' = call /\ got' = got
  BY <1>0 DEF Wake, Refuse, TypeOK, cacheVars
<1>2. \A t \in Tree : AnswerOf(t)' = AnswerOf(t)
  BY TreesStay DEF Step
<1>3. ~Hosting(r) /\ ~Hosting(r)' /\ ~Committed(r) /\ ~Committed(r)'
  BY <1>1 DEF Hosting, Committed
<1>4. WantOf(r)' = None /\ HoldOf(r)' = HoldOf(r)
  BY <1>1, <1>3 DEF WantOf, HoldOf
<1>5. Wants' = [Wants EXCEPT ![r] = None] /\ Holds' = Holds
  BY <1>0, <1>2, <1>4, OthersMap DEF Holds
<1>6. Current' = Current
  BY <1>1, <1>2, CurrentStays
<1>7. Used' = Used
  BY <1>0, <1>1, <1>3, UsedStays DEF Tree
<1>8. Returned' = Returned
  BY <1>1 DEF Returned
<1>9. Wants[r] # None /\ ~Wants[r].host /\ Holds[r] = None
  BY <1>1, <1>3, RunMaps
<1>10. Atomic!Fail(r)
  BY <1>5, <1>6, <1>7, <1>8, <1>9 DEF Atomic!Fail, Atomic!Loading, Atomic!Making
<1> QED BY <1>10 DEF Atomic!StoreNext

LEMMA StoreInit == Init => Atomic!StoreInit
<1> SUFFICES ASSUME Init PROVE Atomic!StoreInit
  OBVIOUS
<1>1. \A r \in Run : WantOf(r) = None /\ HoldOf(r) = None
  BY DEF Init, WantOf, HoldOf, Committed
<1>2. Current = << >>
  BY DEF Init, Current
<1>3. Used = {}
  BY DEF Init, Used, Tree
<1>4. Returned = {}
  BY DEF Init, Returned
<1> QED BY <1>1, <1>2, <1>3, <1>4 DEF Atomic!StoreInit, Wants, Holds

LEMMA StoreStep ==
    StoreInv /\ [Next]_vars => [Atomic!StoreNext]_Atomic!storeVars
<1> SUFFICES ASSUME StoreInv, [Next]_vars PROVE [Atomic!StoreNext]_Atomic!storeVars
  OBVIOUS
<1>1. ASSUME NEW r \in Run, NEW p \in Path, NEW pos \in BOOLEAN, NEW own \in BOOLEAN,
             Load(r, p, pos, own)
      PROVE  [Atomic!StoreNext]_Atomic!storeVars
  BY <1>1, LoadStore
<1>2. ASSUME NEW r \in Run, NEW p \in Path, NEW pos \in BOOLEAN, Preload(r, p, pos)
      PROVE  [Atomic!StoreNext]_Atomic!storeVars
  BY <1>2, PreloadStore
<1>3. ASSUME NEW r \in Run, Step(r)
      PROVE  [Atomic!StoreNext]_Atomic!storeVars
  <2>1. CASE Hit(r)
    BY <2>1, HitStore
  <2>2. CASE \/ Join(r) \/ Abandon(r)
             \/ \E size \in Sizes : Parse(r, size)
             \/ ExpandTooMuch(r) \/ ReadFails(r)
    BY <2>2, QuietStore
  <2>3. CASE Start(r)
    BY <2>3, StartStore
  <2>4. CASE Publish(r)
    BY <2>4, PublishStore
  <2>5. ASSUME NEW victim \in Path, Evict(r, victim)
        PROVE  [Atomic!StoreNext]_Atomic!storeVars
    BY <2>5, EvictStore
  <2>6. CASE Reject(r) \/ Store(r)
    BY <2>6, MakeStore
  <2>7. CASE Close(r)
    BY <2>7, CloseStore
  <2>8. CASE Wake(r)
    BY <2>8, WakeStore, QuietStore
  <2> QED BY <1>3, <2>1, <2>2, <2>3, <2>4, <2>5, <2>6, <2>7, <2>8 DEF Step
<1>4. CASE UNCHANGED vars
  <2>1. /\ UNCHANGED <<Current, Returned>> /\ Used' = Used
        /\ Wants' = Wants /\ Holds' = Holds
    BY <1>4 DEF vars, Current, Returned, Used, Made, Tree, Wants, WantOf, Holds, HoldOf,
                Hosting, Committed, AnswerOf
  <2> QED BY <2>1 DEF Atomic!storeVars
<1> QED BY <1>1, <1>2, <1>3, <1>4 DEF Next, Finished

\* FileResolver implements DocumentStore (StoreSpec): whatever runs share it,
\* each load is answered with the tree the resolver stands by at some moment
\* of the call, or with its own when it stands by none of the kind.
THEOREM StoreHolds == Spec => StoreSpec
<1>1. Init => StoreInv
  BY TypeInit, FlightsInit, KeptInit, BooksInit, CountedInit DEF StoreInv
<1>2. StoreInv /\ [Next]_vars => StoreInv'
  BY TypeStep, FlightsStep, KeptStep, BooksStep, CountedStep DEF StoreInv
<1> QED BY <1>1, <1>2, StoreInit, StoreStep, PTL DEF Spec, StoreSpec, Atomic!StoreSpec
=============================================================================
