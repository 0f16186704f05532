-------------------------------- MODULE CallSites --------------------------------
(***************************************************************************)
(* The function a call site found last, kept on the site                   *)
(* (xpath/callcache.go, FuncCall.resolve) and used again while the         *)
(* context presents the same library and version, and no library on the    *)
(* chain behind it was added to or given another parent                    *)
(* (xpath/functions.go).  The site is shared by every evaluation of the    *)
(* expression; a library is changed only between evaluations.              *)
(***************************************************************************)
EXTENDS Naturals, FiniteSets

CONSTANTS
    Evaluation,    \* the evaluations of the expression that run at once
    Lib,           \* the libraries
    NoLib,         \* the end of a chain, and the site that kept nothing yet
    Version,       \* the versions of the library, as numbers
    Since,         \* the version a function of each library belongs to
    MaxChanges     \* bound on the changes of libraries

ASSUME CallSitesAssumption ==
    /\ NoLib \notin Lib
    /\ Version \subseteq Nat /\ Since \in [Lib -> Nat]
    /\ MaxChanges \in Nat

VARIABLES
    defines,     \* which definition of the function a library has, 0 for none
    parent,      \* Library.Parent
    gen,         \* Library.gen
    resolved,    \* FuncCall.resolved: what the site keeps, or Nothing
    resolving,   \* the evaluations between their look-up and their store
    answer,      \* what the last call of each evaluation was given, and what
                 \* a look-up answers
    changes      \* how often a library was changed

siteVars == <<defines, parent, gen, resolved, resolving, answer, changes>>

NotFound == 0
Nothing == {}
Unknown == <<NoLib, NotFound>>
\* Chains are at most two deep and have no cycles.
Below(l, p) == p # NoLib => (p # l /\ parent[p] = NoLib)

SiteInit ==
    /\ defines \in [Lib -> {NotFound, 1}]
    /\ parent \in [Lib -> Lib \cup {NoLib}]
    /\ \A l \in Lib : Below(l, parent[l])
    /\ gen = [l \in Lib |-> 0]
    /\ resolved = Nothing
    /\ resolving = [e \in Evaluation |-> Nothing]
    /\ answer = [e \in Evaluation |-> <<Unknown, Unknown>>]
    /\ changes = 0

-----------------------------------------------------------------------------
\* The libraries Lookup asks: the library and its parent.
Chain(f) == IF parent[f] = NoLib THEN {f} ELSE {f, parent[f]}

\* Library.Lookup and the version gate of lookupFor: the nearest definition, if
\* its version is in force.  A definition is told apart by its library.
LookedUp(f, v) ==
    LET at == IF defines[f] # NotFound THEN f ELSE parent[f]
    IN  IF at # NoLib /\ defines[at] # NotFound /\ Since[at] <= v
        THEN <<at, defines[at]>> ELSE Unknown

\* stableChain: the chain as it stands.
Links(f) == {[lib |-> l, parent |-> parent[l], gen |-> gen[l]] : l \in Chain(f)}

\* Mutant: the libraries' generations are compared, not their parents.
CurrentByGen(c) == \A l \in c.links : gen[l.lib] = l.gen

\* callResolution.current.
Current(c) == \A l \in c.links : gen[l.lib] = l.gen /\ parent[l.lib] = l.parent

Hit(c, f, v) == c.libv = v /\ c.funcs = f /\ Current(c)

\* resolve, as far as the look-up: what the site keeps, if it still holds.
Lookup(e, f, v) ==
    /\ resolving[e] = Nothing
    /\ \/ \E c \in resolved :
             /\ Hit(c, f, v)
             /\ answer' = [answer EXCEPT ![e] = <<c.fn, LookedUp(f, v)>>]
             /\ UNCHANGED resolving
       \/ /\ \A c \in resolved : ~Hit(c, f, v)
          /\ answer' = [answer EXCEPT ![e] = <<LookedUp(f, v), LookedUp(f, v)>>]
          /\ resolving' = [resolving EXCEPT ![e] =
                IF LookedUp(f, v) = Unknown \/ \E c \in resolved : c.funcs # f
                THEN Nothing ELSE {[funcs |-> f, libv |-> v, fn |-> LookedUp(f, v)]}]
    /\ UNCHANGED <<defines, parent, gen, resolved, changes>>

\* The store at the end of resolve.  The site may have been filled meanwhile,
\* under another library even.
StoreResolution(e) ==
    /\ \E r \in resolving[e] :
          resolved' = {[funcs |-> r.funcs, libv |-> r.libv, fn |-> r.fn,
                        links |-> Links(r.funcs)]}
    /\ resolving' = [resolving EXCEPT ![e] = Nothing]
    /\ UNCHANGED <<defines, parent, gen, answer, changes>>

\* Library.Add, between evaluations: a new definition, or another one.
AddFunction(l) ==
    /\ \A e \in Evaluation : resolving[e] = Nothing
    /\ changes < MaxChanges /\ changes' = changes + 1
    /\ defines' = [defines EXCEPT ![l] = @ + 1]
    /\ gen' = [gen EXCEPT ![l] = @ + 1]
    /\ UNCHANGED <<parent, resolved, resolving, answer>>

\* Library.Parent is assigned, between evaluations.
Reparent(l, p) ==
    /\ \A e \in Evaluation : resolving[e] = Nothing
    /\ changes < MaxChanges /\ changes' = changes + 1
    /\ Below(l, p) /\ \A m \in Lib : parent[m] # l
    /\ parent' = [parent EXCEPT ![l] = p]
    /\ UNCHANGED <<defines, gen, resolved, resolving, answer>>

SiteNext ==
    \/ \E e \in Evaluation, f \in Lib, v \in Version : Lookup(e, f, v)
    \/ \E e \in Evaluation : StoreResolution(e)
    \/ \E l \in Lib : AddFunction(l)
    \/ \E l \in Lib, p \in Lib \cup {NoLib} : Reparent(l, p)

SiteSpec == SiteInit /\ [][SiteNext]_siteVars

-----------------------------------------------------------------------------
\* A call is given the function a look-up would find then: what the site keeps
\* from other contexts, other evaluations and libraries as they were never
\* answers for what they have become.
ResolvedAsLookedUp == \A e \in Evaluation : answer[e][1] = answer[e][2]
================================================================================
