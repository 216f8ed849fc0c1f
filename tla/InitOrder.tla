------------------------------ MODULE InitOrder ------------------------------
(***************************************************************************)
(* The initialization order of a package, from the dependencies that       *)
(* ObjDecl collects: Checker.initOrder and dependencyGraph                 *)
(* (types/initorder.go).                                                   *)
(*                                                                         *)
(* An edge <<p, s>> says that p depends on s: p is in s.pred and s in      *)
(* p.succ.  Maps are iterated in any order, and so are functions of the    *)
(* same cost; the heap is the set of the nodes that are in it.             *)
(***************************************************************************)
EXTENDS ObjDecl

VARIABLES
    edges,      \* the graph
    funcG,      \* the functions still in it, in the order they are removed
    queue,      \* the nodes in the priority queue
    ndeps,      \* [node -> dependencies that are not initialized]
    InitOrderOut,   \* Info.InitOrder: the first variables of the declarations
    initErrors  \* the nodes for which reportCycle is called

orderVars == <<edges, funcG, queue, ndeps, InitOrderOut, initErrors>>
vars == <<declVars, phase, orderVars>>

Nodes == {o \in Obj : ~IsType(o)}
Funcs == {o \in Obj : Kind(o) = "func"}
Succ(E, n) == {s \in Nodes : <<n, s>> \in E}
Pred(E, n) == {p \in Nodes : <<p, n>> \in E}

OrderInit ==
    /\ Init
    /\ edges = {} /\ funcG = <<>> /\ queue = {} /\ ndeps = [o \in Obj |-> 0]
    /\ InitOrderOut = <<>> /\ initErrors = {}

\* The variables of one declaration share its dependencies.
DepsOf(o) == deps[prog[o].lhs]

cost(E, n) == Cardinality(Pred(E, n)) * Cardinality(Succ(E, n))

\* dependencyGraph: all nodes and edges; cheap functions are removed first.
DependencyGraph ==
    /\ phase = "delayed" /\ delayed = <<>>
    /\ phase' = "graph"
    /\ edges' = {e \in Nodes \X Nodes : e[2] \in DepsOf(e[1])}
    /\ \E fs \in SetToSeqs(Funcs) :
          /\ \A a, b \in DOMAIN fs : a < b => cost(edges', fs[a]) <= cost(edges', fs[b])
          /\ funcG' = fs
    /\ UNCHANGED <<declVars, queue, ndeps, InitOrderOut, initErrors>>

\* Mutant: the callers of a function do not inherit what it depends on.
Cut(E, n) == {e \in E : n \notin {e[1], e[2]}}

\* E without the function n: whatever depends on n depends on what n depends on.
Without(E, n) ==
    {e \in E \cup ((Pred(E, n) \ {n}) \X (Succ(E, n) \ {n})) : n \notin {e[1], e[2]}}

RemoveFunc ==
    /\ phase = "graph" /\ funcG # <<>>
    /\ edges' = Without(edges, Head(funcG))
    /\ funcG' = Tail(funcG)
    /\ UNCHANGED <<declVars, phase, queue, ndeps, InitOrderOut, initErrors>>

FillQueue ==
    /\ phase = "graph" /\ funcG = <<>>
    /\ phase' = "order"
    /\ queue' = Nodes \ Funcs
    /\ ndeps' = [o \in Obj |-> IF o \in Nodes \ Funcs THEN Cardinality(Succ(edges, o)) ELSE 0]
    /\ UNCHANGED <<declVars, edges, funcG, InitOrderOut, initErrors>>

\* Mutant: of the nodes with the fewest dependencies, the last comes first.
LessLast(x, y) ==
    IF (Kind(x) = "const") # (Kind(y) = "const") THEN Kind(x) = "const"
    ELSE ndeps[x] < ndeps[y] \/ (ndeps[x] = ndeps[y] /\ x > y)

\* nodeQueue.Less: constants, then fewer dependencies, then the source order.
Less(x, y) ==
    IF (Kind(x) = "const") # (Kind(y) = "const") THEN Kind(x) = "const"
    ELSE ndeps[x] < ndeps[y] \/ (ndeps[x] = ndeps[y] /\ x < y)

\* findPath(o, o) finds a path of dependencies, functions included: o is in every set
\* that has the dependencies of o and, with each node, those of it.
OnCycle(o) ==
    \A S \in SUBSET Nodes : DepsOf(o) \subseteq S /\ (\A d \in S : DepsOf(d) \subseteq S) => o \in S

Pop(n) ==
    /\ phase = "order" /\ n \in queue
    /\ \A m \in queue \ {n} : Less(n, m)
    /\ queue' = queue \ {n}
    /\ initErrors' = IF ndeps[n] > 0 /\ OnCycle(n) THEN initErrors \cup {n} ELSE initErrors
    /\ ndeps' = [o \in Obj |-> IF o \in Pred(edges, n) THEN ndeps[o] - 1 ELSE ndeps[o]]
    /\ InitOrderOut' = IF Kind(n) = "var" /\ prog[n].hasInit /\ prog[n].lhs \notin Range(InitOrderOut)
                    THEN Append(InitOrderOut, prog[n].lhs) ELSE InitOrderOut
    /\ UNCHANGED <<declVars, phase, edges, funcG>>

\* Mutant: a node with dependencies is never taken.
PopReady == \E n \in Obj : ndeps[n] = 0 /\ Pop(n)

\* The loop of initOrder.
PopNode == \E n \in Obj : Pop(n)

Finish ==
    /\ phase = "order" /\ queue = {}
    /\ phase' = "done"
    /\ UNCHANGED <<declVars, orderVars>>

Next ==
    \/ DeclNext /\ UNCHANGED orderVars
    \/ DependencyGraph \/ RemoveFunc \/ FillQueue \/ PopNode \/ Finish

Spec == OrderInit /\ [][Next]_vars

\* The checker runs to its end.
FairSpec == Spec /\ WF_vars(Next)

-----------------------------------------------------------------------------
(* Properties of the order.                                                *)

TypeOK ==
    /\ DeclTypeOK
    /\ phase \in {"objects", "delayed", "graph", "order", "done"}
    /\ edges \subseteq Nodes \X Nodes
    /\ Range(funcG) \subseteq Funcs /\ queue \subseteq Nodes \ Funcs
    /\ ndeps \in [Obj -> Int]
    /\ \A o \in queue : ndeps[o] = Cardinality(Succ(edges, o) \cap queue)
    /\ IsInjective(InitOrderOut) /\ initErrors \subseteq Nodes

\* What the initialization of o needs, by the source: the values it refers to, itself or
\* through functions; constants are passed through only where said.
Needs(o, Through) ==
    {m \in Nodes : \A S \in SUBSET Nodes :
        Refs(o) \subseteq S /\ (\A n \in S \cap Through : Refs(n) \subseteq S) => m \in S}

\* A cycle is reported exactly if a variable or constant needs itself, through
\* functions too; functions may call each other.
InitCyclesReported ==
    phase = "done" /\ (\A c \in cycles : c.valid) =>
        (initErrors # {} <=> \E o \in Nodes \ Funcs : o \in Needs(o, Nodes))

Vars == {o \in Obj : Kind(o) = "var"}

\* The order of the language, place[v] for the variable v: again and again, the first one
\* of the source all of whose needs are initialized.
IsGoOrder(place, needs) ==
    /\ \A v, w \in Vars : place[v] = place[w] => v = w
    /\ \A v \in Vars : \A w \in needs[v] : place[w] < place[v]
    /\ \A u, v \in Vars : place[v] < place[u] /\ u < v => \E w \in needs[u] : place[v] <= place[w]

\* Variables without an initialization expression take their places, too.
IsInitOrder(place) ==
    \A k, n \in DOMAIN InitOrderOut : k < n => place[InitOrderOut[k]] < place[InitOrderOut[n]]

NoErrors == (\A c \in cycles : c.valid) /\ initErrors = {}

\* "The list of package-level initializers in the order in which they must be
\* executed": without errors, each variable is initialized after those it needs,
\* and the order is the one of the language.  (Variables that are declared
\* together are initialized together, but take their places one by one: the
\* order of others may differ from the language's then.)
OrderIsGo ==
    phase = "done" /\ NoErrors =>
        /\ Range(InitOrderOut) = {prog[v].lhs : v \in {v \in Vars : prog[v].hasInit}}
        /\ \A n \in DOMAIN InitOrderOut : \A w \in Needs(InitOrderOut[n], Funcs) \cap Vars :
              prog[w].hasInit => \E m \in 1 .. n - 1 : InitOrderOut[m] = prog[w].lhs
        /\ (\A v \in Vars : prog[v].lhs = v) =>
              LET needs == [v \in Vars |-> Needs(v, Funcs) \cap Vars]
              IN  \E place \in [Vars -> 1 .. Cardinality(Vars)] :
                     IsGoOrder(place, needs) /\ IsInitOrder(place)

\* The colors of objects are those of the path, and a declaration has the dependencies of
\* its own text, whatever is declared in the middle of it.
DeclsAreTracked == TypeOK /\ ColorsArePath /\ DepsAreRefs

\* The cycles that are reported are there, and those of aliases and of initializations are
\* reported.
CyclesAreExact == ReportedCyclesExist /\ AliasCyclesReported /\ InitCyclesReported

\* The checker ends, whatever refers to whatever.
Finishes == <>(phase = "done")
==============================================================================
