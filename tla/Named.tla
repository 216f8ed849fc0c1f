-------------------------------- MODULE Named --------------------------------
(***************************************************************************)
(* Instantiated named types after type checking: Named.resolve,            *)
(* Named.Method and the Context that shares instances (types/named.go,     *)
(* types/context.go, Checker.instance).  Goroutines call Instantiate with  *)
(* a shared context, and Underlying and Method on the instances they have  *)
(* seen.  Types are expanded on first use, under a mutex per type with a   *)
(* state that is read without it.                                          *)
(*                                                                         *)
(* Every origin has one type parameter and every instance the same type    *)
(* argument, so a context has at most one instance per origin (the hash is *)
(* the origin).  An origin is not resolved when the program gets it, and   *)
(* whoever needs its type parameters resolves it, under its own mutex and  *)
(* that of the instance being expanded; it may have a loader, which runs   *)
(* under them (nothing in the repository sets one).                        *)
(***************************************************************************)
EXTENDS Naturals, Sequences, FiniteSets

CONSTANTS
    Goroutine,
    Origin,     \* generic types
    Roots,      \* those that the program instantiates
    URefs,      \* [Origin -> Seq(Origin)]: the instances in the underlying type
    MRefs,      \* [Origin -> Seq(Seq(Origin))]: those in each method's signature
    NoGoroutine

VARIABLES
    origin, \* [Origin -> [loaded, mu]]: the uninstantiated types
    inst,   \* the instances, a sequence: a *Named is an index, 0 is nil
    ctxt,   \* the contexts, a sequence of [Origin -> instance]; 1 is the caller's
    pc,     \* [Goroutine -> label]
    op,     \* [Goroutine -> the call: op, the instance n, the method i, and
            \* what is being expanded: "underlying" or "method"]
    todo,   \* [Goroutine -> the origins subst has still to instantiate]
    done,   \* [Goroutine -> the instances it has made of the others]
    known,  \* the instances some call has returned
    funcs,  \* the number of methods expanded: the identity of a *Func
    results \* the <<instance, method, *Func>> that calls of Method returned

vars == <<origin, inst, ctxt, pc, op, todo, done, known, funcs, results>>

Nil == 0
NumMethods(n) == Len(MRefs[inst[n].orig])

\* The zero Func, before a method is expanded.
NoFunc == [id |-> 0, refs |-> <<>>]

NewNamedInstance(o, c) ==
    [orig |-> o, ctxt |-> c, state |-> "unresolved", under |-> Nil, refs |-> <<>>,
     methods |-> <<>>, expanded |-> 0, mu |-> NoGoroutine]

NoCall == [op |-> "none", n |-> Nil, i |-> 0, part |-> "none"]

Init ==
    /\ origin = [o \in Origin |-> [loaded |-> FALSE, mu |-> NoGoroutine]]
    /\ inst = <<>>
    /\ ctxt = <<[o \in Origin |-> Nil]>>
    /\ pc = [g \in Goroutine |-> "idle"]
    /\ op = [g \in Goroutine |-> NoCall]
    /\ todo = [g \in Goroutine |-> <<>>]
    /\ done = [g \in Goroutine |-> <<>>]
    /\ known = {}
    /\ funcs = 0
    /\ results = {}

Goto(g, l) == pc' = [pc EXCEPT ![g] = l]
N(g) == op[g].n
Return(g) ==
    /\ Goto(g, "idle")
    /\ op' = [op EXCEPT ![g] = NoCall]
    /\ todo' = [todo EXCEPT ![g] = <<>>]
    /\ done' = [done EXCEPT ![g] = <<>>]

-----------------------------------------------------------------------------
\* The calls.

\* Instantiate(ctxt, o, targs, false).
CallInstantiate(g) ==
    /\ pc[g] = "idle"
    /\ \E o \in Roots : todo' = [todo EXCEPT ![g] = <<o>>]
    /\ op' = [op EXCEPT ![g].op = "Instantiate"]
    /\ Goto(g, "lookup")
    /\ UNCHANGED <<origin, inst, ctxt, done, known, funcs, results>>

CallUnderlying(g) ==
    /\ pc[g] = "idle"
    /\ \E n \in known : op' = [op EXCEPT ![g] = [NoCall EXCEPT !.op = "Underlying", !.n = n]]
    /\ Goto(g, "resolve")
    /\ UNCHANGED <<origin, inst, ctxt, todo, done, known, funcs, results>>

CallMethod(g) ==
    /\ pc[g] = "idle"
    /\ \E n \in known : \E i \in 1 .. NumMethods(n) :
          op' = [op EXCEPT ![g] = [NoCall EXCEPT !.op = "Method", !.n = n, !.i = i]]
    /\ Goto(g, "resolve")
    /\ UNCHANGED <<origin, inst, ctxt, todo, done, known, funcs, results>>

-----------------------------------------------------------------------------
\* resolve: where a call goes on with a resolved type.
Resolved(g) == Goto(g, IF op[g].op = "Method" THEN "method" ELSE "under")

ResolveFast(g) ==
    /\ pc[g] = "resolve"
    /\ IF inst[N(g)].state # "unresolved" THEN Resolved(g) ELSE Goto(g, "lock")
    /\ UNCHANGED <<origin, inst, ctxt, op, todo, done, known, funcs, results>>

Lock(g) ==
    /\ pc[g] = "lock" /\ inst[N(g)].mu = NoGoroutine
    /\ IF inst[N(g)].state # "unresolved"
       THEN Resolved(g) /\ UNCHANGED inst
       ELSE inst' = [inst EXCEPT ![N(g)].mu = g] /\ Goto(g, "origin")
    /\ UNCHANGED <<origin, ctxt, op, todo, done, known, funcs, results>>

\* The origin to resolve, and what it is resolved for: the expansion of an
\* instance of it, or a reference to it that subst has come to (subst asks for
\* t.Origin().TypeParams(), never for those of t, which may be locked).
Wanted(g) == IF todo[g] = <<>> THEN inst[N(g)].orig ELSE Head(todo[g])
After(g) == IF todo[g] = <<>> THEN "expand" ELSE "lookup"

\* orig.resolve: the fast path, then the mutex.
ResolveOrigin(g) ==
    /\ pc[g] = "origin" \/ (pc[g] = "subst" /\ todo[g] # <<>>)
    /\ Goto(g, IF origin[Wanted(g)].loaded THEN After(g) ELSE "originlock")
    /\ UNCHANGED <<origin, inst, ctxt, op, todo, done, known, funcs, results>>

LockOrigin(g) ==
    LET o == Wanted(g)
    IN  /\ pc[g] = "originlock" /\ origin[o].mu = NoGoroutine
        /\ IF origin[o].loaded THEN Goto(g, After(g)) /\ UNCHANGED origin
           ELSE origin' = [origin EXCEPT ![o].mu = g] /\ Goto(g, "load")
        /\ UNCHANGED <<inst, ctxt, op, todo, done, known, funcs, results>>

\* The loader runs, if there is one; the mutex is released.
Load(g) ==
    /\ pc[g] = "load"
    /\ origin' = [origin EXCEPT ![Wanted(g)] = [loaded |-> TRUE, mu |-> NoGoroutine]]
    /\ Goto(g, After(g))
    /\ UNCHANGED <<inst, ctxt, op, todo, done, known, funcs, results>>

\* expandUnderlying makes a context if the type has none and records the type
\* in it, before anything is substituted.
Expand(g) ==
    LET n == N(g)
        new == inst[n].ctxt = Nil
        c == IF new THEN Len(ctxt) + 1 ELSE inst[n].ctxt
        fresh == IF new THEN Append(ctxt, [o \in Origin |-> Nil]) ELSE ctxt
    IN  /\ pc[g] = "expand"
        /\ inst' = [inst EXCEPT ![n].ctxt = c]
        /\ ctxt' = [fresh EXCEPT ![c][inst[n].orig] = IF @ = Nil THEN n ELSE @]
        /\ todo' = [todo EXCEPT ![g] = URefs[inst[n].orig]]
        /\ op' = [op EXCEPT ![g].part = "underlying"]
        /\ Goto(g, IF ctxt'[c][inst[n].orig] = n THEN "subst" ELSE "assertion failed")
        /\ UNCHANGED <<origin, done, known, funcs, results>>

-----------------------------------------------------------------------------
\* Checker.instance, for the next origin: a look-up and, without a result, a
\* new instance that is recorded unless another goroutine was faster.  The
\* context is that of the type being expanded, or the caller's.
ContextOf(g) == IF op[g].op = "Instantiate" THEN 1 ELSE inst[N(g)].ctxt

\* Mutant: the type referred to is resolved itself, not only its origin.
LookupResolved(g) ==
    LET c == ContextOf(g)
        o == Head(todo[g])
        found == ctxt[c][o]
    IN  /\ pc[g] = "lookup" /\ todo[g] # <<>>
        /\ IF c = Nil THEN Goto(g, "assertion failed") /\ UNCHANGED <<todo, done>>
           ELSE IF found = Nil THEN Goto(g, "update") /\ UNCHANGED <<todo, done>>
           ELSE /\ inst[found].state = "unresolved" => inst[found].mu = NoGoroutine
                /\ todo' = [todo EXCEPT ![g] = Tail(@)]
                /\ done' = [done EXCEPT ![g] = Append(@, found)]
                /\ Goto(g, "subst")
        /\ UNCHANGED <<origin, inst, ctxt, op, known, funcs, results>>

Lookup(g) ==
    LET c == ContextOf(g)
        o == Head(todo[g])
        found == ctxt[c][o]
    IN  /\ pc[g] = "lookup" /\ todo[g] # <<>>
        /\ IF c = Nil THEN Goto(g, "assertion failed") /\ UNCHANGED <<todo, done>>
           ELSE IF found = Nil THEN Goto(g, "update") /\ UNCHANGED <<todo, done>>
           ELSE /\ todo' = [todo EXCEPT ![g] = Tail(@)]
                /\ done' = [done EXCEPT ![g] = Append(@, found)]
                /\ Goto(g, "subst")
        /\ UNCHANGED <<origin, inst, ctxt, op, known, funcs, results>>

\* Mutant: the new instance replaces one that was recorded meanwhile.
UpdateReplaces(g) ==
    LET c == ContextOf(g)
        o == Head(todo[g])
        new == NewNamedInstance(o, IF op[g].op = "Instantiate" THEN Nil ELSE c)
    IN  /\ pc[g] = "update"
        /\ inst' = Append(inst, new)
        /\ ctxt' = [ctxt EXCEPT ![c][o] = Len(inst')]
        /\ done' = [done EXCEPT ![g] = Append(@, ctxt'[c][o])]
        /\ todo' = [todo EXCEPT ![g] = Tail(@)]
        /\ Goto(g, "subst")
        /\ UNCHANGED <<origin, op, known, funcs, results>>

\* Mutant: an instance that comes too late is returned all the same, and is
\* not made.
UpdateReturnsDropped(g) ==
    LET c == ContextOf(g)
        o == Head(todo[g])
        new == NewNamedInstance(o, IF op[g].op = "Instantiate" THEN Nil ELSE c)
    IN  /\ pc[g] = "update"
        /\ inst' = IF ctxt[c][o] = Nil THEN Append(inst, new) ELSE inst
        /\ ctxt' = [ctxt EXCEPT ![c][o] = IF @ = Nil THEN Len(inst') ELSE @]
        /\ done' = [done EXCEPT ![g] = Append(@, Len(inst) + 1)]
        /\ todo' = [todo EXCEPT ![g] = Tail(@)]
        /\ Goto(g, "subst")
        /\ UNCHANGED <<origin, op, known, funcs, results>>

Update(g) ==
    LET c == ContextOf(g)
        o == Head(todo[g])
        new == NewNamedInstance(o, IF op[g].op = "Instantiate" THEN Nil ELSE c)
    IN  /\ pc[g] = "update"
        /\ inst' = IF ctxt[c][o] = Nil THEN Append(inst, new) ELSE inst
        /\ ctxt' = [ctxt EXCEPT ![c][o] = IF @ = Nil THEN Len(inst') ELSE @]
        /\ done' = [done EXCEPT ![g] = Append(@, ctxt'[c][o])]
        /\ todo' = [todo EXCEPT ![g] = Tail(@)]
        /\ Goto(g, "subst")
        /\ UNCHANGED <<origin, op, known, funcs, results>>

\* subst has no more to do.
Substituted(g) ==
    /\ pc[g] = "subst" /\ todo[g] = <<>>
    /\ \/ /\ op[g].op = "Instantiate"
          /\ known' = known \cup {done[g][1]}
          /\ Return(g)
       \/ /\ op[g].op # "Instantiate"
          /\ Goto(g, IF op[g].part = "underlying" THEN "store" ELSE "expanded")
          /\ UNCHANGED <<op, todo, done, known>>
    /\ UNCHANGED <<origin, inst, ctxt, funcs, results>>

-----------------------------------------------------------------------------
\* The end of resolve: the underlying type, the state, the mutex.
Store(g) ==
    /\ pc[g] = "store"
    /\ inst' = [inst EXCEPT ![N(g)].under = 1, ![N(g)].refs = done[g]]
    /\ done' = [done EXCEPT ![g] = <<>>]
    /\ Goto(g, "publish")
    /\ UNCHANGED <<origin, ctxt, op, todo, known, funcs, results>>

\* Mutant: an instance is complete once its underlying type is.
PublishComplete(g) ==
    /\ pc[g] = "publish"
    /\ inst' = [inst EXCEPT ![N(g)].state = "complete"]
    /\ Goto(g, "unlock")
    /\ UNCHANGED <<origin, ctxt, op, todo, done, known, funcs, results>>

Publish(g) ==
    /\ pc[g] = "publish"
    /\ inst' = [inst EXCEPT ![N(g)].state =
                  IF NumMethods(N(g)) = 0 THEN "complete" ELSE "resolved"]
    /\ Goto(g, "unlock")
    /\ UNCHANGED <<origin, ctxt, op, todo, done, known, funcs, results>>

\* Mutant: the context is dropped although methods are still to be expanded.
UnlockDropsContext(g) ==
    /\ pc[g] = "unlock"
    /\ inst' = [inst EXCEPT ![N(g)].ctxt = Nil, ![N(g)].mu = NoGoroutine]
    /\ Resolved(g)
    /\ UNCHANGED <<origin, ctxt, op, todo, done, known, funcs, results>>

Unlock(g) ==
    /\ pc[g] = "unlock"
    /\ inst' = [inst EXCEPT ![N(g)].ctxt = IF NumMethods(N(g)) = 0 THEN Nil ELSE @,
                            ![N(g)].mu = NoGoroutine]
    /\ Resolved(g)
    /\ UNCHANGED <<origin, ctxt, op, todo, done, known, funcs, results>>

\* Underlying reads the type without the mutex.
Underlying(g) ==
    /\ pc[g] = "under"
    /\ known' = known \cup {inst[N(g)].refs[k] : k \in DOMAIN inst[N(g)].refs}
    /\ Return(g)
    /\ UNCHANGED <<origin, inst, ctxt, funcs, results>>

-----------------------------------------------------------------------------
\* Method, for a resolved type.
MethodResult(g, f) ==
    /\ results' = results \cup {<<N(g), op[g].i, f>>}
    /\ known' = known \cup {f.refs[k] : k \in DOMAIN f.refs}
    /\ Return(g)

MethodFast(g) ==
    LET t == inst[N(g)]
    IN  /\ pc[g] = "method"
        /\ IF t.state = "complete"
           THEN MethodResult(g, IF op[g].i \in DOMAIN t.methods THEN t.methods[op[g].i]
                                ELSE NoFunc)
           ELSE Goto(g, "methodlock") /\ UNCHANGED <<op, todo, done, known, results>>
        /\ UNCHANGED <<origin, inst, ctxt, funcs>>

\* Mutant: a method that another goroutine has expanded is expanded again.
MethodLockAgain(g) ==
    LET t == inst[N(g)]
        n == NumMethods(N(g))
        methods == IF Len(t.methods) = n THEN t.methods ELSE [k \in 1 .. n |-> NoFunc]
    IN  /\ pc[g] = "methodlock" /\ t.mu = NoGoroutine
        /\ inst' = [inst EXCEPT ![N(g)].methods = methods, ![N(g)].mu = g]
        /\ todo' = [todo EXCEPT ![g] = MRefs[t.orig][op[g].i]]
        /\ op' = [op EXCEPT ![g].part = "method"]
        /\ Goto(g, IF t.ctxt = Nil THEN "assertion failed" ELSE "subst")
        /\ UNCHANGED <<done, known, results>>
        /\ UNCHANGED <<origin, ctxt, funcs>>

\* The mutex is locked, the list of methods is made, and a method that is not
\* expanded yet is begun with: its signature is substituted.
MethodLock(g) ==
    LET t == inst[N(g)]
        n == NumMethods(N(g))
        methods == IF Len(t.methods) = n THEN t.methods ELSE [k \in 1 .. n |-> NoFunc]
    IN  /\ pc[g] = "methodlock" /\ t.mu = NoGoroutine
        /\ IF methods[op[g].i] # NoFunc
           THEN MethodResult(g, methods[op[g].i]) /\ UNCHANGED inst
           ELSE /\ inst' = [inst EXCEPT ![N(g)].methods = methods, ![N(g)].mu = g]
                /\ todo' = [todo EXCEPT ![g] = MRefs[t.orig][op[g].i]]
                /\ op' = [op EXCEPT ![g].part = "method"]
                /\ Goto(g, IF t.ctxt = Nil THEN "assertion failed" ELSE "subst")
                /\ UNCHANGED <<done, known, results>>
        /\ UNCHANGED <<origin, ctxt, funcs>>

\* The method is stored and counted.
StoreMethod(g) ==
    /\ pc[g] = "expanded"
    /\ inst' = [inst EXCEPT ![N(g)].methods[op[g].i] = [id |-> funcs + 1, refs |-> done[g]],
                            ![N(g)].expanded = @ + 1]
    /\ funcs' = funcs + 1
    /\ Goto(g, "complete")
    /\ UNCHANGED <<origin, ctxt, op, todo, done, known, results>>

\* With the last method the type is complete; the mutex is released.
CompleteMethods(g) ==
    LET all == inst[N(g)].expanded = NumMethods(N(g))
    IN  /\ pc[g] = "complete"
        /\ inst' = [inst EXCEPT ![N(g)].state = IF all THEN "complete" ELSE @,
                                ![N(g)].ctxt = IF all THEN Nil ELSE @,
                                ![N(g)].mu = NoGoroutine]
        /\ MethodResult(g, inst[N(g)].methods[op[g].i])
        /\ UNCHANGED <<origin, ctxt, funcs>>

-----------------------------------------------------------------------------
Call(g) == CallInstantiate(g) \/ CallUnderlying(g) \/ CallMethod(g)

Step(g) ==
    \/ ResolveFast(g) \/ Lock(g) \/ ResolveOrigin(g) \/ LockOrigin(g) \/ Load(g) \/ Expand(g)
    \/ Lookup(g) \/ Update(g) \/ Substituted(g)
    \/ Store(g) \/ Publish(g) \/ Unlock(g) \/ Underlying(g)
    \/ MethodFast(g) \/ MethodLock(g) \/ StoreMethod(g) \/ CompleteMethods(g)

Next == \E g \in Goroutine : Call(g) \/ Step(g)

Spec == Init /\ [][Next]_vars

\* A goroutine in a call runs.  A mutex is eventually given to one that waits
\* for it (sync.Mutex has no starvation).
Fairness ==
    \A g \in Goroutine :
        /\ WF_vars(Step(g))
        /\ SF_vars(Lock(g)) /\ SF_vars(LockOrigin(g)) /\ SF_vars(MethodLock(g))

FairSpec == Spec /\ Fairness

-----------------------------------------------------------------------------
States == {"unresolved", "resolved", "complete"}
Instance == DOMAIN inst

TypeOK ==
    /\ \A o \in Origin : origin[o].mu \in Goroutine \cup {NoGoroutine}
    /\ \A n \in Instance :
          /\ inst[n].orig \in Origin
          /\ inst[n].ctxt \in 0 .. Len(ctxt)
          /\ inst[n].state \in States
          /\ inst[n].mu \in Goroutine \cup {NoGoroutine}
          /\ inst[n].expanded \in 0 .. NumMethods(n)
          /\ \A k \in DOMAIN inst[n].refs : inst[n].refs[k] \in Instance
    /\ \A c \in DOMAIN ctxt : ctxt[c] \in [Origin -> 0 .. Len(inst)]
    /\ known \subseteq Instance

\* The assertions of expandUnderlying (n == n2), Method (a context is left) and
\* instance (there is a context) hold whatever the goroutines do.
AssertionsHold == \A g \in Goroutine : pc[g] # "assertion failed"

\* Whoever gets past resolve finds the underlying type, and whoever gets past
\* the fast path of Method a method, without taking the mutex.
ReadsAreReady ==
    /\ \A g \in Goroutine : pc[g] \in {"under", "method"} => inst[N(g)].under # Nil
    /\ \A r \in results : r[3] # NoFunc

\* A method of an instance is one *Func: calls on any goroutine return the same.
MethodsAreCanonical ==
    \A r, s \in results : r[1] = s[1] /\ r[2] = s[2] => r[3] = s[3]

\* The types that the expansion of n refers to.
Reached(n) ==
    {inst[n].refs[k] : k \in DOMAIN inst[n].refs}
    \cup UNION {{inst[n].methods[i].refs[k] : k \in DOMAIN inst[n].methods[i].refs} :
                   i \in DOMAIN inst[n].methods}

\* "We always prefer instances in the expanding instance context in order to
\* preserve reference cycles": from an instance, its references and theirs lead
\* to one instance of each type, and back to itself.
CyclesClose ==
    \A n \in Instance :
        LET near == {n} \cup Reached(n)
            far == near \cup UNION {Reached(m) : m \in near}
        IN  \A l, m \in far : inst[l].orig = inst[m].orig => l = m

\* Every call returns.
CallsReturn == \A g \in Goroutine : (pc[g] # "idle") ~> (pc[g] = "idle")
==============================================================================
