------------------------------ MODULE NamedProofs ------------------------------
(***************************************************************************)
(* Proofs about Named for any number of goroutines and any generic types.  *)
(* The properties of the runs are about what calls have returned; IInv     *)
(* says why: a goroutine that expands a type holds its mutex (MutexInv),   *)
(* whoever is past resolve is at a resolved type (StateInv), the counter   *)
(* of expanded methods is right (MethodsInv), a type keeps its context     *)
(* until all of it is expanded (OwnContext, RecordsOwn), and what it       *)
(* refers to is recorded in that context with the type itself (ReachInv);  *)
(* no other context records it (RecordsOnce).                              *)
(***************************************************************************)
EXTENDS Named, SequenceTheorems, FiniteSetTheorems, TLAPS

\* What a program is: references are to types of it.
ProgramOK ==
    /\ Roots \subseteq Origin
    /\ URefs \in [Origin -> Seq(Origin)]
    /\ MRefs \in [Origin -> Seq(Seq(Origin))]
    /\ NoGoroutine \notin Goroutine

Label ==
    {"idle", "resolve", "lock", "origin", "originlock", "load", "expand",
     "subst", "lookup", "update", "store", "publish", "unlock", "under",
     "method", "methodlock", "expanded", "complete"}

Mutex == Goroutine \cup {NoGoroutine}
Func == [id : Nat, refs : Seq(Nat)]
Type ==
    [orig : Origin, ctxt : Nat, state : States, under : {0, 1}, refs : Seq(Nat),
     methods : Seq(Func), expanded : Nat, mu : Mutex]
CallOf ==
    [op : {"none", "Instantiate", "Underlying", "Method"}, n : Nat, i : Nat,
     part : {"none", "underlying", "method"}]

\* The types of the variables; that all assertions hold is part of that of pc.
VarTypes ==
    /\ origin \in [Origin -> [loaded : BOOLEAN, mu : Mutex]]
    /\ inst \in Seq(Type)
    /\ ctxt \in Seq([Origin -> Nat]) /\ Len(ctxt) >= 1
    /\ pc \in [Goroutine -> Label]
    /\ op \in [Goroutine -> CallOf]
    /\ todo \in [Goroutine -> Seq(Origin)]
    /\ done \in [Goroutine -> Seq(Nat)]
    /\ known \subseteq Instance
    /\ funcs \in Nat

\* g is on its way to the instances that are left in todo[g].
Substituting(g) ==
    \/ pc[g] \in {"subst", "lookup", "update"}
    \/ pc[g] \in {"originlock", "load"} /\ todo[g] # <<>>

\* g instantiates the types that the type of its call refers to.
Expanding(g) == Substituting(g) /\ op[g].op # "Instantiate"

\* Which calls get where, and what they are given.
OpInv(g) ==
    /\ pc[g] = "idle" => op[g] = NoCall
    /\ op[g].op = "Instantiate" =>
          \/ pc[g] \in {"lookup", "update"}
          \/ pc[g] = "subst" /\ todo[g] = <<>>
    /\ pc[g] # "idle" /\ op[g].op # "Instantiate" =>
          /\ op[g].op \in {"Underlying", "Method"}
          /\ N(g) \in Instance
          /\ op[g].op = "Method" => op[g].i \in 1 .. NumMethods(N(g))
    /\ pc[g] = "under" => op[g].op = "Underlying"
    /\ pc[g] \in {"method", "methodlock", "expanded", "complete"} => op[g].op = "Method"
    /\ Expanding(g) => /\ op[g].part \in {"underlying", "method"}
                       /\ op[g].part = "method" => op[g].op = "Method"

\* Where a goroutine holds the mutex of the type of its call.
Holds(g) ==
    \/ Expanding(g)
    \/ pc[g] \in {"origin", "originlock", "load", "expand", "store", "publish", "unlock",
                   "expanded", "complete"}

MutexInv(g) == Holds(g) => inst[N(g)].mu = g

\* Where the type of a call is being resolved, and where it has been.
Resolving(g) ==
    \/ pc[g] \in {"origin", "expand", "store", "publish"}
    \/ pc[g] \in {"originlock", "load"} /\ todo[g] = <<>>
    \/ Expanding(g) /\ op[g].part = "underlying"

PastResolve(g) ==
    \/ pc[g] \in {"unlock", "under", "method", "methodlock", "expanded", "complete"}
    \/ Expanding(g) /\ op[g].part = "method"

\* The state of the type of a call, by where the call is.
StateInv(g) ==
    LET t == inst[N(g)]
    IN  /\ Resolving(g) => t.state = "unresolved"
        /\ PastResolve(g) => t.state # "unresolved"
        /\ pc[g] = "publish" => t.under # Nil
        /\ Expanding(g) \/ pc[g] \in {"store", "publish", "expanded"} => t.ctxt # Nil
        /\ (Expanding(g) /\ op[g].part = "method") \/ pc[g] = "expanded"
              => op[g].i \in DOMAIN t.methods /\ t.methods[op[g].i] = NoFunc
        /\ pc[g] = "complete"
              => op[g].i \in DOMAIN t.methods /\ t.methods[op[g].i] # NoFunc

\* m is recorded in the context of n.
InContext(n, m) == ctxt[inst[n].ctxt][inst[m].orig] = m

\* The instances made so far are those of the context in use.
DoneInv(g) ==
    /\ Substituting(g) \/ todo[g] = <<>>
    /\ Substituting(g) \/ pc[g] \in {"store", "expanded", "complete"} \/ done[g] = <<>>
    /\ \A k \in DOMAIN done[g] : done[g][k] \in Instance
    /\ Expanding(g) \/ pc[g] \in {"store", "expanded"}
          => \A k \in DOMAIN done[g] : InContext(N(g), done[g][k])
    /\ op[g].op = "Instantiate" => Len(todo[g]) + Len(done[g]) = 1
    /\ pc[g] \in {"lookup", "update"} => todo[g] # <<>>

\* What is true of a goroutine.
CallInv(g) == OpInv(g) /\ MutexInv(g) /\ StateInv(g) /\ DoneInv(g)

Expanded(t) == {k \in DOMAIN t.methods : t.methods[k] # NoFunc}

\* The state of a type, its list of methods and their number.
MethodsInv(t) ==
    /\ t.state # "unresolved" => t.under # Nil
    /\ t.state = "unresolved" => t.methods = <<>>
    /\ Len(t.methods) \in {0, Len(MRefs[t.orig])}
    /\ t.expanded = Cardinality(Expanded(t))
    /\ t.state = "complete" => t.expanded = Len(MRefs[t.orig])
    /\ t.state # "unresolved" /\ t.ctxt = Nil => t.expanded = Len(MRefs[t.orig])

\* A type with a context is recorded in it; it is not the caller's.
OwnContext(n) ==
    inst[n].ctxt # Nil => inst[n].ctxt \in 2 .. Len(ctxt) /\ InContext(n, n)

\* What a context records for o is an instance of o.  A context of another type
\* than the caller's is the instance's own until it needs none.
RecordsOwn(c, o) ==
    LET m == ctxt[c][o]
    IN  m # Nil => /\ m \in Instance
                   /\ inst[m].orig = o
                   /\ c >= 2 => \/ inst[m].ctxt = c
                                \/ inst[m].ctxt = Nil /\ inst[m].state # "unresolved"

\* One context besides the caller's records an instance.
RecordsOnce(c, d, o) == ctxt[c][o] # Nil /\ ctxt[c][o] = ctxt[d][o] => c = d

\* One context records n and m.
Together(n, m) ==
    \E c \in 2 .. Len(ctxt) : ctxt[c][inst[n].orig] = n /\ ctxt[c][inst[m].orig] = m

\* Wherever the expanded parts of n lead, it is recorded with n.
ReachInv(n) == \A m \in Reached(n) : m \in Instance /\ Together(n, m)

\* What calls of Method have returned is still there.
ResultInv(r) ==
    /\ r[1] \in Instance
    /\ r[2] \in DOMAIN inst[r[1]].methods
    /\ r[3] = inst[r[1]].methods[r[2]]
    /\ r[3] # NoFunc

\* What is true of the types and their contexts.
TypesInv ==
    /\ \A n \in Instance : MethodsInv(inst[n]) /\ OwnContext(n) /\ ReachInv(n)
    /\ \A c \in 1 .. Len(ctxt), o \in Origin : RecordsOwn(c, o)
    /\ \A c, d \in 2 .. Len(ctxt), o \in Origin : RecordsOnce(c, d, o)
    /\ \A r \in results : ResultInv(r)

IInv ==
    /\ VarTypes
    /\ \A g \in Goroutine : CallInv(g)
    /\ TypesInv

-----------------------------------------------------------------------------
(* The number of expanded methods.                                           *)

\* The expanded methods are finitely many, at most all.
LEMMA ExpandedFinite ==
    ASSUME NEW t \in Type
    PROVE  /\ IsFiniteSet(Expanded(t))
           /\ Cardinality(Expanded(t)) \in 0 .. Len(t.methods)
           /\ Cardinality(Expanded(t)) = Len(t.methods) => Expanded(t) = 1 .. Len(t.methods)
<1>1. /\ t.methods \in Seq(Func)
      /\ Len(t.methods) \in Nat
      /\ DOMAIN t.methods = 1 .. Len(t.methods)
  BY DEF Type
<1>2. Expanded(t) \subseteq 1 .. Len(t.methods)
  BY <1>1 DEF Expanded
<1>3. IsFiniteSet(1 .. Len(t.methods)) /\ Cardinality(1 .. Len(t.methods)) = Len(t.methods)
  BY <1>1, FS_Interval
<1>4. /\ IsFiniteSet(Expanded(t))
      /\ Cardinality(Expanded(t)) <= Len(t.methods)
      /\ Cardinality(Expanded(t)) = Len(t.methods) => Expanded(t) = 1 .. Len(t.methods)
  BY <1>2, <1>3, FS_Subset
<1>5. Cardinality(Expanded(t)) \in Nat
  BY <1>4, FS_CardinalityType
<1> QED
  BY <1>1, <1>4, <1>5

\* When the counter says that all methods are expanded, they are.
LEMMA AllExpanded ==
    ASSUME ProgramOK, NEW t \in Type, MethodsInv(t), t.expanded = Len(MRefs[t.orig]),
           NEW k \in 1 .. Len(MRefs[t.orig])
    PROVE  k \in DOMAIN t.methods /\ t.methods[k] # NoFunc
<1>1. Len(MRefs[t.orig]) \in Nat
  BY DEF ProgramOK, Type
<1>2. Cardinality(Expanded(t)) = Len(MRefs[t.orig])
  BY DEF MethodsInv
<1>3. Len(t.methods) = Len(MRefs[t.orig])
  BY <1>1, <1>2, ExpandedFinite DEF MethodsInv
<1>4. k \in Expanded(t)
  BY <1>2, <1>3, ExpandedFinite
<1> QED
  BY <1>4 DEF Expanded

\* Methods that are not expanded are not counted.
LEMMA NoneExpanded ==
    ASSUME NEW t, \A k \in DOMAIN t.methods : t.methods[k] = NoFunc
    PROVE  Cardinality(Expanded(t)) = 0
BY FS_EmptySet DEF Expanded

-----------------------------------------------------------------------------
(* What a step of g keeps of the types, and what it leaves to others.         *)

Kept(g) ==
    /\ \A n \in Instance :
          /\ n \in DOMAIN inst'
          /\ inst'[n].orig = inst[n].orig
          /\ inst[n].state # "unresolved" => inst'[n].state # "unresolved"
          /\ inst[n].mu \in Goroutine \ {g} => inst'[n] = inst[n]
          /\ \A k \in DOMAIN inst[n].methods :
                inst[n].methods[k] # NoFunc => /\ k \in DOMAIN inst'[n].methods
                                               /\ inst'[n].methods[k] = inst[n].methods[k]
    /\ \A c \in 1 .. Len(ctxt), o \in Origin : ctxt[c][o] # Nil => ctxt'[c][o] = ctxt[c][o]
    /\ Len(ctxt') >= Len(ctxt)

Still(d) ==
    /\ pc'[d] = pc[d]
    /\ op'[d] = op[d]
    /\ todo'[d] = todo[d]
    /\ done'[d] = done[d]

\* Elements of sequences have their types.
LEMMA Elements ==
    ASSUME VarTypes
    PROVE  /\ Instance = 1 .. Len(inst) /\ Len(inst) \in Nat /\ Nil \notin Instance
           /\ DOMAIN ctxt = 1 .. Len(ctxt) /\ Len(ctxt) \in Nat
           /\ \A n \in Instance : inst[n] \in Type
           /\ \A c \in 1 .. Len(ctxt) : ctxt[c] \in [Origin -> Nat]
BY DEF VarTypes, Instance, Nil

\* Types have finitely many methods, of finitely many references.
LEMMA Methods ==
    ASSUME ProgramOK, VarTypes, NEW n \in Instance
    PROVE  /\ NumMethods(n) = Len(MRefs[inst[n].orig])
           /\ NumMethods(n) \in Nat
           /\ \A i \in 1 .. NumMethods(n) : i \in Nat /\ MRefs[inst[n].orig][i] \in Seq(Origin)
BY Elements DEF ProgramOK, NumMethods, Type

\* What was recorded together still is.
LEMMA TogetherStays ==
    ASSUME VarTypes, NEW g, Kept(g), VarTypes',
           NEW n \in Instance, NEW m \in Instance, Together(n, m)
    PROVE  Together(n, m)'
<1>1. PICK c \in 2 .. Len(ctxt) : ctxt[c][inst[n].orig] = n /\ ctxt[c][inst[m].orig] = m
  BY DEF Together
<1>2. c \in 1 .. Len(ctxt) /\ c \in 2 .. Len(ctxt') /\ n # Nil /\ m # Nil
  BY <1>1, Elements DEF Kept, VarTypes
<1>3. inst[n].orig \in Origin /\ inst[m].orig \in Origin
  BY Elements DEF Type
<1>4. ctxt'[c][inst'[n].orig] = n /\ ctxt'[c][inst'[m].orig] = m
  BY <1>1, <1>2, <1>3 DEF Kept
<1> QED
  BY <1>2, <1>4 DEF Together

\* The call of a goroutine that does not move goes on as it could.
LEMMA OthersKeep ==
    ASSUME VarTypes, TypesInv, NEW g, NEW d \in Goroutine, d # g,
           CallInv(d), Kept(g), Still(d)
    PROVE  CallInv(d)'
<1> USE DEF Still
<1> DEFINE n == N(d)
<1>1. /\ N(d)' = N(d) /\ Substituting(d)' = Substituting(d)
      /\ Expanding(d)' = Expanding(d) /\ Holds(d)' = Holds(d)
  BY DEF N, Expanding, Substituting, Holds
<1>2. n \in Instance => n \in Instance' /\ NumMethods(n)' = NumMethods(n)
  BY <1>1 DEF Kept, NumMethods, Instance
<1>3. OpInv(d)'
  BY <1>1, <1>2 DEF CallInv, OpInv
<1>4. ASSUME Holds(d) PROVE n \in Instance /\ inst'[n] = inst[n] /\ inst[n].mu = d
  <2>1. inst[n].mu = d
    BY <1>4 DEF CallInv, MutexInv
  <2>2. n \in Instance
    BY <1>4 DEF CallInv, OpInv, Holds, Expanding, Substituting, NoCall
  <2> QED
    BY <2>1, <2>2 DEF Kept
<1>5. MutexInv(d)'
  BY <1>1, <1>4 DEF MutexInv
<1>6. StateInv(d)'
  <2>1. CASE Holds(d)
    BY <1>1, <1>4, <2>1 DEF CallInv, StateInv, Resolving, PastResolve
  <2>2. CASE ~ Holds(d)
    <3>1. ASSUME pc[d] \in {"under", "method", "methodlock"}
          PROVE  inst'[n].state # "unresolved"
      <4>1. n \in Instance
        BY <3>1 DEF CallInv, OpInv
      <4>2. inst[n].state # "unresolved"
        BY <3>1 DEF CallInv, StateInv, PastResolve
      <4> QED
        BY <4>1, <4>2 DEF Kept
    <3> QED
      BY <1>1, <2>2, <3>1 DEF StateInv, Holds, Resolving, PastResolve
  <2> QED
    BY <2>1, <2>2
<1>7. DoneInv(d)'
  <2>1. \A k \in DOMAIN done[d] : done[d][k] \in Instance'
    BY DEF CallInv, DoneInv, Kept, Instance
  <2>2. ASSUME Expanding(d) \/ pc[d] \in {"store", "expanded"}, NEW k \in DOMAIN done[d]
        PROVE  InContext(n, done[d][k])'
    <3> DEFINE m == done[d][k]
    <3>1. n \in Instance /\ inst'[n] = inst[n]
      BY <1>4, <2>2 DEF Holds
    <3>2. m \in Instance /\ InContext(n, m)
      BY <2>2 DEF CallInv, DoneInv
    <3>3. inst[n].ctxt \in 1 .. Len(ctxt)
      <4>1. inst[n].ctxt # Nil
        BY <2>2 DEF CallInv, StateInv
      <4> QED
        BY <3>1, <4>1 DEF TypesInv, OwnContext
    <3>4. inst[m].orig \in Origin /\ m # Nil
      BY <3>2, Elements DEF Type
    <3> QED
      BY <1>1, <3>1, <3>2, <3>3, <3>4 DEF InContext, Kept
  <2> QED
    BY <1>1, <2>1, <2>2 DEF CallInv, DoneInv
<1> QED
  BY <1>3, <1>5, <1>6, <1>7 DEF CallInv

\* A step of g, from its parts.
LEMMA Moved ==
    ASSUME IInv, NEW g \in Goroutine, VarTypes', Kept(g), TypesInv', CallInv(g)',
           \A d \in Goroutine \ {g} : Still(d)
    PROVE  IInv'
BY OthersKeep DEF IInv

\* A step that changes neither types nor contexts.
LEMMA SameTypes ==
    ASSUME VarTypes, TypesInv, NEW g, inst' = inst, ctxt' = ctxt,
           \A r \in results' : r \in results \/ ResultInv(r)
    PROVE  Kept(g) /\ TypesInv'
<1>1. Instance' = Instance
  BY DEF Instance
<1>2. Kept(g)
  BY Elements DEF Kept, Instance
<1>3. ASSUME NEW n \in Instance PROVE MethodsInv(inst[n])' /\ OwnContext(n)' /\ ReachInv(n)'
  BY <1>1 DEF TypesInv, MethodsInv, OwnContext, InContext, ReachInv, Reached, Together
<1>4. ASSUME NEW c \in 1 .. Len(ctxt), NEW o \in Origin PROVE RecordsOwn(c, o)'
  BY <1>1 DEF TypesInv, RecordsOwn
<1>5. ASSUME NEW c \in 2 .. Len(ctxt), NEW d \in 2 .. Len(ctxt), NEW o \in Origin
      PROVE  RecordsOnce(c, d, o)'
  BY DEF TypesInv, RecordsOnce
<1>6. ASSUME NEW r \in results' PROVE ResultInv(r)'
  BY <1>1 DEF TypesInv, ResultInv
<1> QED
  BY <1>1, <1>2, <1>3, <1>4, <1>5, <1>6 DEF TypesInv

\* What a type refers to.
ReachedOf(t) ==
    {t.refs[k] : k \in DOMAIN t.refs}
    \cup UNION {{t.methods[i].refs[k] : k \in DOMAIN t.methods[i].refs} : i \in DOMAIN t.methods}

\* A step that changes the type of a call only, to t.
LEMMA OneType ==
    ASSUME VarTypes, TypesInv, NEW g, N(g) \in Instance,
           NEW t \in Type, inst' = [inst EXCEPT ![N(g)] = t], ctxt' = ctxt,
           t.orig = inst[N(g)].orig,
           inst[N(g)].state # "unresolved" => t.state # "unresolved",
           inst[N(g)].mu \notin Goroutine \ {g},
           \A k \in DOMAIN inst[N(g)].methods :
              inst[N(g)].methods[k] # NoFunc => /\ k \in DOMAIN t.methods
                                                /\ t.methods[k] = inst[N(g)].methods[k],
           t.ctxt = inst[N(g)].ctxt \/ (t.ctxt = Nil /\ t.state # "unresolved"),
           MethodsInv(t),
           \A m \in ReachedOf(t) : m \in Instance /\ Together(N(g), m),
           \A r \in results' : r \in results \/ ResultInv(r)
    PROVE  /\ inst' \in Seq(Type) /\ Instance' = Instance /\ inst'[N(g)] = t
           /\ Kept(g) /\ TypesInv'
<1> DEFINE n == N(g)
<1>1. /\ inst' \in Seq(Type)
      /\ Instance' = Instance
      /\ \A m \in Instance : inst'[m] = IF m = n THEN t ELSE inst[m]
  BY Elements, ExceptSeq DEF VarTypes, Instance
<1>2. Kept(g)
  BY <1>1, Elements DEF Kept, Instance
<1>3. \A m \in Instance : inst'[m].orig = inst[m].orig
  BY <1>1
<1>4. ASSUME NEW l, NEW m, l \in Instance, m \in Instance, Together(l, m)
      PROVE  Together(l, m)'
  <2>1. PICK c \in 2 .. Len(ctxt) : ctxt[c][inst[l].orig] = l /\ ctxt[c][inst[m].orig] = m
    BY <1>4 DEF Together
  <2> QED
    BY <1>3, <1>4, <2>1 DEF Together
<1>5. ASSUME NEW m \in Instance PROVE MethodsInv(inst[m])'
  <2>1. inst'[m] \in {t, inst[m]}
    BY <1>1
  <2>2. MethodsInv(inst'[m])
    BY <2>1 DEF TypesInv
  <2> QED
    BY <2>2 DEF MethodsInv, Expanded
<1>6. ASSUME NEW m \in Instance PROVE OwnContext(m)'
  BY <1>1, <1>3 DEF TypesInv, OwnContext, InContext
<1>7. ASSUME NEW m \in Instance PROVE ReachInv(m)'
  <2>1. ASSUME NEW l \in Reached(m)' PROVE l \in Instance /\ Together(m, l)
    <3>1. CASE m = n
      <4>1. Reached(m)' = ReachedOf(t)
        BY <1>1, <3>1 DEF Reached, ReachedOf
      <4> QED
        BY <2>1, <3>1, <4>1
    <3>2. CASE m # n
      <4>1. Reached(m)' = Reached(m)
        BY <1>1, <3>2 DEF Reached
      <4> QED
        BY <2>1, <4>1 DEF TypesInv, ReachInv
    <3> QED
      BY <3>1, <3>2
  <2> QED
    BY <1>1, <1>4, <2>1 DEF ReachInv
<1>8. ASSUME NEW c \in 1 .. Len(ctxt), NEW o \in Origin PROVE RecordsOwn(c, o)'
  BY <1>1, <1>3 DEF TypesInv, RecordsOwn
<1>9. ASSUME NEW c \in 2 .. Len(ctxt), NEW d \in 2 .. Len(ctxt), NEW o \in Origin
      PROVE  RecordsOnce(c, d, o)'
  BY DEF TypesInv, RecordsOnce
<1>10. ASSUME NEW r \in results' PROVE ResultInv(r)'
  <2>1. ResultInv(r)
    BY DEF TypesInv
  <2> QED
    BY <1>1, <2>1 DEF ResultInv
<1> QED
  BY <1>1, <1>2, <1>5, <1>6, <1>7, <1>8, <1>9, <1>10 DEF TypesInv

-----------------------------------------------------------------------------
(* The steps.                                                                *)

\* Before any call there are no types, and every goroutine is idle.
LEMMA InitHolds == ASSUME ProgramOK, Init PROVE IInv
<1>1. VarTypes
  BY DEF ProgramOK, Init, VarTypes, Mutex, CallOf, NoCall, Label, Nil, Instance
<1>2. ASSUME NEW g \in Goroutine PROVE CallInv(g)
  BY DEF Init, CallInv, OpInv, MutexInv, Holds, StateInv, DoneInv, Expanding, Substituting, NoCall,
         Resolving, PastResolve
<1>3. TypesInv
  <2>1. Instance = {} /\ Len(ctxt) = 1 /\ results = {} /\ \A o \in Origin : ctxt[1][o] = Nil
    BY DEF Init, Instance
  <2> QED
    BY <2>1 DEF TypesInv, RecordsOwn
<1> QED
  BY <1>1, <1>2, <1>3 DEF IInv

\* A call of Instantiate has one origin to do.
LEMMA CallInstantiateHolds ==
    ASSUME ProgramOK, IInv, NEW g \in Goroutine, CallInstantiate(g) PROVE IInv'
<1> USE DEF CallInstantiate, Goto
<1>1. PICK o \in Roots : todo' = [todo EXCEPT ![g] = <<o>>]
  OBVIOUS
<1>2. o \in Origin /\ <<o>> \in Seq(Origin) /\ Len(<<o>>) = 1
  BY DEF ProgramOK
<1>3. op[g] = NoCall /\ done[g] = <<>>
  BY DEF IInv, CallInv, OpInv, DoneInv, Substituting
<1>4. VarTypes'
  <2>1. pc' \in [Goroutine -> Label]
    BY DEF IInv, VarTypes, Label
  <2>2. op' \in [Goroutine -> CallOf]
    BY <1>3 DEF IInv, VarTypes, CallOf, NoCall
  <2>3. todo' \in [Goroutine -> Seq(Origin)]
    BY <1>1, <1>2 DEF IInv, VarTypes
  <2> QED
    BY <2>1, <2>2, <2>3 DEF IInv, VarTypes, Instance
<1>5. /\ pc'[g] = "lookup" /\ op'[g].op = "Instantiate" /\ done'[g] = <<>>
      /\ todo'[g] = <<o>>
  BY <1>1, <1>3 DEF IInv, VarTypes
<1>6. CallInv(g)'
  BY <1>2, <1>5 DEF CallInv, OpInv, MutexInv, Holds, StateInv, DoneInv, Expanding, Substituting,
                   Resolving, PastResolve
<1>7. Kept(g) /\ TypesInv'
  BY SameTypes DEF IInv
<1> QED
  BY <1>1, <1>4, <1>6, <1>7, Moved DEF Still, IInv, VarTypes

\* A call of Underlying is of an instance that a call has returned.
LEMMA CallUnderlyingHolds ==
    ASSUME ProgramOK, IInv, NEW g \in Goroutine, CallUnderlying(g) PROVE IInv'
<1> USE DEF CallUnderlying, Goto
<1>1. PICK n \in known : op' = [op EXCEPT ![g] = [NoCall EXCEPT !.op = "Underlying", !.n = n]]
  OBVIOUS
<1>2. n \in Instance /\ n \in Nat
  BY Elements DEF IInv, VarTypes
<1>3. done[g] = <<>> /\ todo[g] = <<>>
  BY DEF IInv, CallInv, DoneInv, Substituting
<1>4. VarTypes'
  BY <1>1, <1>2 DEF IInv, VarTypes, CallOf, Label, Instance, NoCall
<1>5. pc'[g] = "resolve" /\ op'[g].op = "Underlying" /\ op'[g].n = n /\ done'[g] = <<>>
      /\ todo'[g] = <<>>
  BY <1>1, <1>3 DEF IInv, VarTypes, NoCall
<1>6. CallInv(g)'
  BY <1>2, <1>5 DEF CallInv, OpInv, MutexInv, Holds, StateInv, DoneInv, Expanding, Substituting,
                   Resolving, PastResolve, N, Instance
<1>7. Kept(g) /\ TypesInv'
  BY SameTypes DEF IInv
<1> QED
  BY <1>1, <1>4, <1>6, <1>7, Moved DEF Still, IInv, VarTypes

\* A call of Method is of a method that the origin declares.
LEMMA CallMethodHolds ==
    ASSUME ProgramOK, IInv, NEW g \in Goroutine, CallMethod(g) PROVE IInv'
<1> USE DEF CallMethod, Goto
<1>1. PICK n \in known : \E i \in 1 .. NumMethods(n) :
         op' = [op EXCEPT ![g] = [NoCall EXCEPT !.op = "Method", !.n = n, !.i = i]]
  OBVIOUS
<1>0. PICK i \in 1 .. NumMethods(n) :
         op' = [op EXCEPT ![g] = [NoCall EXCEPT !.op = "Method", !.n = n, !.i = i]]
  BY <1>1
<1>2. n \in Instance /\ n \in Nat /\ i \in Nat
  BY Elements, Methods DEF IInv, VarTypes
<1>3. done[g] = <<>> /\ todo[g] = <<>>
  BY DEF IInv, CallInv, DoneInv, Substituting
<1>4. VarTypes'
  BY <1>0, <1>2 DEF IInv, VarTypes, CallOf, Label, Instance, NoCall
<1>5. /\ pc'[g] = "resolve" /\ op'[g].op = "Method" /\ op'[g].n = n /\ op'[g].i = i
      /\ done'[g] = <<>> /\ todo'[g] = <<>>
  BY <1>0, <1>3 DEF IInv, VarTypes, NoCall
<1>6. CallInv(g)'
  BY <1>2, <1>5 DEF CallInv, OpInv, MutexInv, Holds, StateInv, DoneInv, Expanding, Substituting,
                   Resolving, PastResolve, N, Instance, NumMethods
<1>7. Kept(g) /\ TypesInv'
  BY SameTypes DEF IInv
<1> QED
  BY <1>0, <1>4, <1>6, <1>7, Moved DEF Still, IInv, VarTypes

\* A call that only goes on, to l, at types that stay.
LEMMA GoesOn ==
    ASSUME IInv, NEW g \in Goroutine, NEW l \in Label, Goto(g, l),
           inst' = inst, ctxt' = ctxt, op' = op, todo' = todo, done' = done,
           known' = known, funcs' = funcs, results' = results,
           origin' \in [Origin -> [loaded : BOOLEAN, mu : Mutex]],
           CallInv(g)'
    PROVE  IInv'
<1>1. VarTypes'
  BY DEF Goto, IInv, VarTypes, Instance
<1>2. Kept(g) /\ TypesInv'
  BY SameTypes DEF IInv
<1>3. \A d \in Goroutine \ {g} : Still(d)
  BY DEF Still, IInv, VarTypes, Goto
<1> QED
  BY <1>1, <1>2, <1>3, Moved

\* The fast path of resolve goes on only with a resolved type.
LEMMA ResolveFastHolds ==
    ASSUME IInv, NEW g \in Goroutine, ResolveFast(g) PROVE IInv'
<1> DEFINE l == IF inst[N(g)].state # "unresolved"
                THEN IF op[g].op = "Method" THEN "method" ELSE "under"
                ELSE "lock"
<1>1. Goto(g, l) /\ pc[g] = "resolve"
  BY DEF ResolveFast, Resolved, Goto
<1>2. l \in Label /\ pc'[g] = l
  BY <1>1 DEF Label, Goto, IInv, VarTypes
<1>3. op[g].op \in {"Underlying", "Method"} /\ done[g] = <<>> /\ todo[g] = <<>>
  BY <1>1 DEF IInv, CallInv, OpInv, DoneInv, Substituting
<1>4. CallInv(g)'
  BY <1>1, <1>2, <1>3 DEF ResolveFast, IInv, CallInv, OpInv, MutexInv, Holds, StateInv, DoneInv,
     Expanding, Substituting, Resolving, PastResolve, N, NumMethods, Instance
<1> QED
  BY <1>1, <1>2, <1>4, GoesOn DEF ResolveFast, IInv, VarTypes

\* A goroutine that holds the mutex of the type of its call, on the way to its
\* origin or to that of a type it refers to.
LEMMA SameCall ==
    ASSUME NEW g, CallInv(g), UNCHANGED <<inst, ctxt, op, todo, done>>,
           NEW l, pc'[g] = l,
           \/ pc[g] \in {"origin", "originlock", "load"}
           \/ pc[g] = "subst" /\ todo[g] # <<>>,
           \/ l \in {"originlock", "load"}
           \/ todo[g] = <<>> /\ l = "expand"
           \/ todo[g] # <<>> /\ l = "lookup"
    PROVE  CallInv(g)'
<1>1. /\ op[g].op # "Instantiate"
      /\ todo[g] # <<>> <=> Substituting(g)
      /\ Substituting(g)' = Substituting(g) /\ Expanding(g)' = Expanding(g)
      /\ Expanding(g) = Substituting(g) /\ N(g)' = N(g)
  BY DEF CallInv, OpInv, DoneInv, Substituting, Expanding, N
<1>2. OpInv(g)'
  BY <1>1 DEF CallInv, OpInv, NumMethods, Instance, Substituting
<1>3. MutexInv(g)'
  BY <1>1 DEF CallInv, MutexInv, Holds, Substituting
<1>4. StateInv(g)'
  BY <1>1 DEF CallInv, StateInv, Resolving, PastResolve, Substituting
<1>5. DoneInv(g)'
  BY <1>1 DEF CallInv, DoneInv, InContext, Instance, Substituting
<1> QED
  BY <1>2, <1>3, <1>4, <1>5 DEF CallInv

\* The origin of a locked type is resolved first, and those of the types that it
\* refers to while it is expanded.
LEMMA ResolveOriginHolds ==
    ASSUME IInv, NEW g \in Goroutine, ResolveOrigin(g) PROVE IInv'
<1> DEFINE l == IF origin[Wanted(g)].loaded THEN After(g) ELSE "originlock"
<1>1. Goto(g, l) /\ (pc[g] = "origin" \/ (pc[g] = "subst" /\ todo[g] # <<>>))
  BY DEF ResolveOrigin
<1>2. /\ l \in Label /\ pc'[g] = l
      /\ l = "originlock" \/ (todo[g] = <<>> /\ l = "expand") \/ (todo[g] # <<>> /\ l = "lookup")
  BY <1>1 DEF Label, Goto, IInv, VarTypes, After
<1>3. CallInv(g)'
  BY <1>1, <1>2, SameCall DEF ResolveOrigin, Substituting, IInv
<1> QED
  BY <1>1, <1>2, <1>3, GoesOn DEF ResolveOrigin, IInv, VarTypes

\* The mutex of an origin does not touch that of the instance.
LEMMA LockOriginHolds ==
    ASSUME IInv, NEW g \in Goroutine, LockOrigin(g) PROVE IInv'
<1> DEFINE o == Wanted(g)
           l == IF origin[o].loaded THEN After(g) ELSE "load"
<1>1. Goto(g, l) /\ pc[g] = "originlock"
  BY DEF LockOrigin
<1>2. /\ l \in Label /\ pc'[g] = l
      /\ l = "load" \/ (todo[g] = <<>> /\ l = "expand") \/ (todo[g] # <<>> /\ l = "lookup")
  BY <1>1 DEF Label, Goto, IInv, VarTypes, After
<1>3. CallInv(g)'
  BY <1>1, <1>2, SameCall DEF LockOrigin, IInv
<1>4. origin' \in [Origin -> [loaded : BOOLEAN, mu : Mutex]]
  <2>1. origin' = origin \/ origin' = [origin EXCEPT ![o].mu = g]
    BY DEF LockOrigin
  <2> QED
    BY <2>1 DEF IInv, VarTypes, Mutex
<1> QED
  BY <1>1, <1>2, <1>3, <1>4, GoesOn DEF LockOrigin

\* The loader leaves the instances alone.
LEMMA LoadHolds ==
    ASSUME IInv, NEW g \in Goroutine, Load(g) PROVE IInv'
<1>1. Goto(g, After(g)) /\ pc[g] = "load"
  BY DEF Load
<1>2. /\ After(g) \in Label /\ pc'[g] = After(g)
      /\ (todo[g] = <<>> /\ After(g) = "expand") \/ (todo[g] # <<>> /\ After(g) = "lookup")
  BY <1>1 DEF Goto, IInv, VarTypes, After, Label
<1>3. CallInv(g)'
  BY <1>1, <1>2, SameCall DEF Load, IInv
<1>4. origin' \in [Origin -> [loaded : BOOLEAN, mu : Mutex]]
  BY DEF Load, IInv, VarTypes, Mutex
<1> QED
  BY <1>1, <1>2, <1>3, <1>4, GoesOn DEF Load

\* What is known of the type of a call.
LEMMA OfCall ==
    ASSUME IInv, NEW g \in Goroutine, pc[g] # "idle", op[g].op # "Instantiate"
    PROVE  /\ N(g) \in Instance
           /\ inst[N(g)] \in Type
           /\ MethodsInv(inst[N(g)])
           /\ OwnContext(N(g))
           /\ \A m \in ReachedOf(inst[N(g)]) : m \in Instance /\ Together(N(g), m)
<1>1. N(g) \in Instance
  BY DEF IInv, CallInv, OpInv
<1>2. Reached(N(g)) = ReachedOf(inst[N(g)])
  BY DEF Reached, ReachedOf
<1> QED
  BY <1>1, <1>2, Elements DEF IInv, TypesInv, ReachInv

\* The instances made for a type are recorded with it.
LEMMA DoneTogether ==
    ASSUME IInv, NEW g \in Goroutine, Expanding(g) \/ pc[g] \in {"store", "expanded"},
           NEW k \in DOMAIN done[g]
    PROVE  done[g][k] \in Instance /\ Together(N(g), done[g][k])
<1>1. N(g) \in Instance /\ OwnContext(N(g))
  BY OfCall DEF Expanding, Substituting, IInv, CallInv, OpInv
<1>2. inst[N(g)].ctxt \in 2 .. Len(ctxt) /\ InContext(N(g), N(g))
  BY <1>1 DEF IInv, CallInv, StateInv, OwnContext
<1>3. done[g][k] \in Instance /\ InContext(N(g), done[g][k])
  BY DEF IInv, CallInv, DoneInv
<1> QED
  BY <1>2, <1>3 DEF Together, InContext

\* A call that changes its type and goes on, to l.
LEMMA ChangesType ==
    ASSUME IInv, NEW g \in Goroutine, NEW l \in Label, Goto(g, l),
           pc[g] # "idle", op[g].op # "Instantiate",
           NEW t \in Type, inst' = [inst EXCEPT ![N(g)] = t], ctxt' = ctxt,
           t.orig = inst[N(g)].orig,
           inst[N(g)].state # "unresolved" => t.state # "unresolved",
           inst[N(g)].mu \in {g, NoGoroutine}, NoGoroutine \notin Goroutine,
           \A k \in DOMAIN inst[N(g)].methods :
              inst[N(g)].methods[k] # NoFunc => /\ k \in DOMAIN t.methods
                                                /\ t.methods[k] = inst[N(g)].methods[k],
           t.ctxt = inst[N(g)].ctxt \/ (t.ctxt = Nil /\ t.state # "unresolved"),
           MethodsInv(t),
           \A m \in ReachedOf(t) : m \in Instance /\ Together(N(g), m),
           op' \in [Goroutine -> CallOf], todo' \in [Goroutine -> Seq(Origin)],
           done' \in [Goroutine -> Seq(Nat)], funcs' \in Nat,
           \A d \in Goroutine \ {g} : Still(d),
           origin' = origin, known' = known, results' = results,
           Instance' = Instance /\ inst'[N(g)] = t => CallInv(g)'
    PROVE  IInv'
<1>1. N(g) \in Instance
  BY OfCall
<1>2. VarTypes /\ TypesInv
  BY DEF IInv
<1>3. /\ inst' \in Seq(Type) /\ Instance' = Instance /\ inst'[N(g)] = t
      /\ Kept(g) /\ TypesInv'
  BY <1>1, <1>2, OneType
<1>4. VarTypes'
  BY <1>3 DEF IInv, VarTypes, Goto
<1> QED
  BY <1>3, <1>4, Moved

\* The slow path of resolve: the state is read again under the mutex.
LEMMA LockHolds ==
    ASSUME ProgramOK, IInv, NEW g \in Goroutine, Lock(g) PROVE IInv'
<1> DEFINE n == N(g)
           t == [inst[n] EXCEPT !.mu = g]
           l == IF op[g].op = "Method" THEN "method" ELSE "under"
<1>1. pc[g] = "lock" /\ inst[n].mu = NoGoroutine
  BY DEF Lock
<1>2. op[g].op \in {"Underlying", "Method"} /\ done[g] = <<>> /\ todo[g] = <<>>
  BY <1>1 DEF IInv, CallInv, OpInv, DoneInv, Substituting
<1>3. CASE inst[n].state # "unresolved"
  <2>1. Goto(g, l) /\ inst' = inst /\ l \in Label
    BY <1>3 DEF Lock, Resolved, Goto, Label
  <2>2. pc'[g] = l
    BY <2>1 DEF Goto, IInv, VarTypes
  <2>3. CallInv(g)'
    BY <1>1, <1>2, <1>3, <2>1, <2>2 DEF Lock, IInv, CallInv, OpInv, MutexInv, Holds, StateInv,
       DoneInv, Expanding, Substituting, Resolving, PastResolve, N, NumMethods, Instance
  <2> QED
    BY <2>1, <2>3, GoesOn DEF Lock, IInv, VarTypes
<1>4. CASE inst[n].state = "unresolved"
  <2>1. Goto(g, "origin") /\ inst' = [inst EXCEPT ![n] = t]
    BY <1>4 DEF Lock
  <2>2. pc'[g] = "origin"
    BY <2>1 DEF Goto, IInv, VarTypes
  <2>3. /\ n \in Instance /\ inst[n] \in Type /\ MethodsInv(inst[n])
        /\ \A m \in ReachedOf(inst[n]) : m \in Instance /\ Together(n, m)
    BY <1>1, <1>2, OfCall
  <2>4. t \in Type /\ t.mu = g /\ MethodsInv(t) /\ ReachedOf(t) = ReachedOf(inst[n])
    BY <2>3 DEF Type, Mutex, MethodsInv, Expanded, ReachedOf
  <2>5. ASSUME Instance' = Instance, inst'[n] = t PROVE CallInv(g)'
    BY <1>1, <1>2, <1>4, <2>2, <2>3, <2>4, <2>5 DEF Lock, IInv, CallInv, OpInv, MutexInv, Holds, StateInv,
       DoneInv, Expanding, Substituting, Resolving, PastResolve, N, NumMethods, Type
  <2>6. \A d \in Goroutine \ {g} : Still(d)
    BY <2>1 DEF Lock, Still, IInv, VarTypes, Goto
  <2> QED
    BY <1>1, <1>2, <2>1, <2>3, <2>4, <2>5, <2>6, ChangesType
       DEF Lock, IInv, VarTypes, Label, ProgramOK, Type
<1> QED
  BY <1>3, <1>4

\* The references that subst has made are recorded with the type.
LEMMA StoreHolds ==
    ASSUME ProgramOK, IInv, NEW g \in Goroutine, Store(g) PROVE IInv'
<1> DEFINE n == N(g)
           t == [inst[n] EXCEPT !.under = 1, !.refs = done[g]]
<1>1. pc[g] = "store" /\ Goto(g, "publish") /\ inst' = [inst EXCEPT ![n] = t]
  BY DEF Store
<1>2. /\ op[g].op \in {"Underlying", "Method"}
      /\ inst[n].state = "unresolved" /\ inst[n].mu = g /\ inst[n].ctxt # Nil
  BY <1>1 DEF IInv, CallInv, OpInv, StateInv, Resolving, MutexInv, Holds
<1>3. /\ n \in Instance /\ inst[n] \in Type /\ MethodsInv(inst[n])
      /\ \A m \in ReachedOf(inst[n]) : m \in Instance /\ Together(n, m)
  BY <1>1, <1>2, OfCall
<1>4. pc'[g] = "publish" /\ done'[g] = <<>> /\ done[g] \in Seq(Nat)
  BY <1>1 DEF Store, Goto, IInv, VarTypes
<1>5. /\ t \in Type /\ t.mu = g /\ t.state = "unresolved" /\ t.under = 1
      /\ t.ctxt = inst[n].ctxt
  BY <1>2, <1>3, <1>4 DEF Type
<1>6. MethodsInv(t)
  BY <1>2, <1>3 DEF MethodsInv, Expanded, Type
<1>7. ASSUME NEW m \in ReachedOf(t) PROVE m \in Instance /\ Together(n, m)
  <2>1. t.methods = <<>>
    BY <1>5, <1>6 DEF MethodsInv
  <2>2. PICK k \in DOMAIN done[g] : m = done[g][k]
    BY <1>3, <2>1 DEF ReachedOf, Type
  <2> QED
    BY <1>1, <2>2, DoneTogether
<1>8. ASSUME Instance' = Instance, inst'[n] = t PROVE CallInv(g)'
  <2> USE <1>1, <1>2, <1>4, <1>5, <1>8
  <2>1. N(g)' = n /\ op' = op /\ todo' = todo /\ n \in Instance'
    BY <1>3 DEF Store, N
  <2>2. OpInv(g)'
    BY <2>1, <1>3 DEF IInv, CallInv, OpInv, NumMethods, Type, Expanding, Substituting, N
  <2> HIDE DEF t, n
  <2>3. MutexInv(g)' /\ StateInv(g)'
    BY <2>1, <1>2 DEF MutexInv, StateInv, Expanding, Substituting, Resolving, PastResolve, Nil
  <2>4. todo[g] = <<>>
    BY DEF Store, IInv, CallInv, DoneInv, Substituting
  <2>5. DoneInv(g)'
    BY <2>1, <2>4 DEF DoneInv, Expanding, Substituting
  <2> QED
    BY <2>2, <2>3, <2>5 DEF CallInv
<1>9. done' \in [Goroutine -> Seq(Nat)] /\ \A d \in Goroutine \ {g} : Still(d)
  BY <1>1 DEF Store, Still, IInv, VarTypes, Goto
<1> QED
  BY <1>1, <1>2, <1>3, <1>5, <1>6, <1>7, <1>8, <1>9, ChangesType
     DEF Store, IInv, VarTypes, Label, ProgramOK, Type

\* A type is published after its underlying type is there, as complete only
\* if it has no methods.
LEMMA PublishHolds ==
    ASSUME ProgramOK, IInv, NEW g \in Goroutine, Publish(g) PROVE IInv'
<1> DEFINE n == N(g)
           t == [inst[n] EXCEPT !.state = IF NumMethods(n) = 0 THEN "complete" ELSE "resolved"]
<1>1. pc[g] = "publish" /\ Goto(g, "unlock") /\ inst' = [inst EXCEPT ![n] = t]
  BY DEF Publish
<1>2. /\ op[g].op \in {"Underlying", "Method"}
      /\ inst[n].state = "unresolved" /\ inst[n].under # Nil /\ inst[n].mu = g
      /\ inst[n].ctxt # Nil
  BY <1>1 DEF IInv, CallInv, OpInv, StateInv, Resolving, MutexInv, Holds
<1>3. /\ n \in Instance /\ inst[n] \in Type /\ MethodsInv(inst[n])
      /\ \A m \in ReachedOf(inst[n]) : m \in Instance /\ Together(n, m)
  BY <1>1, <1>2, OfCall
<1>4. pc'[g] = "unlock"
  BY <1>1 DEF Goto, IInv, VarTypes
<1>5. t \in Type /\ t.mu = g /\ t.state # "unresolved" /\ ReachedOf(t) = ReachedOf(inst[n])
  BY <1>2, <1>3 DEF Type, States, ReachedOf
<1>6. MethodsInv(t)
  <2>1. inst[n].methods = <<>> /\ inst[n].expanded = 0
    BY <1>2, <1>3, NoneExpanded DEF MethodsInv
  <2> QED
    BY <1>2, <1>3, <2>1, Methods DEF MethodsInv, Expanded, Type, NumMethods
<1>7. ASSUME Instance' = Instance, inst'[n] = t PROVE CallInv(g)'
  BY <1>1, <1>2, <1>3, <1>4, <1>5, <1>7 DEF Publish, IInv, CallInv, OpInv, MutexInv, Holds,
     StateInv, DoneInv, Expanding, Substituting, Resolving, PastResolve, N, NumMethods, Type, Nil
<1>8. \A d \in Goroutine \ {g} : Still(d)
  BY <1>1 DEF Publish, Still, IInv, VarTypes, Goto
<1> QED
  BY <1>1, <1>2, <1>3, <1>5, <1>6, <1>7, <1>8, ChangesType
     DEF Publish, IInv, VarTypes, Label, ProgramOK, Type

\* A type gives up its context only if it has no methods to expand.
LEMMA UnlockHolds ==
    ASSUME ProgramOK, IInv, NEW g \in Goroutine, Unlock(g) PROVE IInv'
<1> DEFINE n == N(g)
           t == [inst[n] EXCEPT !.ctxt = IF NumMethods(n) = 0 THEN Nil ELSE @,
                                !.mu = NoGoroutine]
           l == IF op[g].op = "Method" THEN "method" ELSE "under"
<1>1. /\ pc[g] = "unlock" /\ Goto(g, l) /\ l \in Label
      /\ inst' = [inst EXCEPT ![n] = t]
  BY DEF Unlock, Resolved, Goto, Label
<1>2. /\ op[g].op \in {"Underlying", "Method"}
      /\ inst[n].state # "unresolved" /\ inst[n].mu = g
      /\ done[g] = <<>> /\ todo[g] = <<>>
  BY <1>1 DEF IInv, CallInv, OpInv, StateInv, PastResolve, MutexInv, Holds, DoneInv, Substituting
<1>3. /\ n \in Instance /\ inst[n] \in Type /\ MethodsInv(inst[n])
      /\ \A m \in ReachedOf(inst[n]) : m \in Instance /\ Together(n, m)
  BY <1>1, <1>2, OfCall
<1>4. pc'[g] = l
  BY <1>1 DEF Goto, IInv, VarTypes
<1>5. t \in Type /\ t.state # "unresolved" /\ ReachedOf(t) = ReachedOf(inst[n])
  <2>1. (IF NumMethods(n) = 0 THEN Nil ELSE inst[n].ctxt) \in Nat /\ NoGoroutine \in Mutex
    BY <1>3 DEF Type, Nil, Mutex
  <2>2. t \in Type
    BY <1>3, <2>1 DEF Type
  <2> QED
    BY <1>2, <1>3, <2>2 DEF Type, ReachedOf
<1>6. MethodsInv(t)
  <2>1. NumMethods(n) = 0 => inst[n].expanded = 0
    <3>1. Cardinality(Expanded(inst[n])) \in 0 .. Len(inst[n].methods)
      BY <1>3, ExpandedFinite
    <3> QED
      BY <1>3, <3>1 DEF MethodsInv, NumMethods
  <2> QED
    BY <1>2, <1>3, <2>1 DEF MethodsInv, Expanded, Type, NumMethods
<1>7. ASSUME Instance' = Instance, inst'[n] = t PROVE CallInv(g)'
  BY <1>1, <1>2, <1>3, <1>4, <1>5, <1>7 DEF Unlock, IInv, CallInv, OpInv, MutexInv, Holds,
     StateInv, DoneInv, Expanding, Substituting, Resolving, PastResolve, N, NumMethods, Type
<1>8. \A d \in Goroutine \ {g} : Still(d)
  BY <1>1 DEF Unlock, Still, IInv, VarTypes, Goto
<1>9. t.ctxt = inst[n].ctxt \/ (t.ctxt = Nil /\ t.state # "unresolved")
  BY <1>2, <1>3 DEF Type
<1> QED
  BY <1>1, <1>2, <1>3, <1>5, <1>6, <1>7, <1>8, <1>9, ChangesType
     DEF Unlock, IInv, VarTypes, ProgramOK, Type

\* A call that returns has nothing left.
LEMMA ReturnHolds ==
    ASSUME VarTypes, NEW g \in Goroutine, Return(g)
    PROVE  /\ CallInv(g)'
           /\ pc' \in [Goroutine -> Label] /\ op' \in [Goroutine -> CallOf]
           /\ todo' \in [Goroutine -> Seq(Origin)] /\ done' \in [Goroutine -> Seq(Nat)]
           /\ \A d \in Goroutine \ {g} : Still(d)
<1>1. pc'[g] = "idle" /\ op'[g] = NoCall /\ done'[g] = <<>> /\ todo'[g] = <<>> /\ op'[g].op = "none"
  BY DEF Return, Goto, VarTypes, NoCall
<1>2. CallInv(g)'
  BY <1>1 DEF CallInv, OpInv, MutexInv, Holds, StateInv, DoneInv, Expanding, Substituting, Resolving,
     PastResolve
<1> QED
  BY <1>2 DEF Return, Goto, VarTypes, Label, CallOf, NoCall, Still, Nil

\* A call that returns and has changed no type.
LEMMA Returns ==
    ASSUME IInv, NEW g \in Goroutine, Return(g),
           inst' = inst, ctxt' = ctxt, origin' = origin, funcs' = funcs,
           known' \subseteq Instance,
           \A r \in results' : r \in results \/ ResultInv(r)
    PROVE  IInv'
<1>1. VarTypes'
  BY ReturnHolds DEF IInv, VarTypes, Instance
<1>2. Kept(g) /\ TypesInv'
  BY SameTypes DEF IInv
<1> QED
  BY <1>1, <1>2, ReturnHolds, Moved DEF IInv

\* What Underlying returns are instances.
LEMMA UnderlyingHolds ==
    ASSUME IInv, NEW g \in Goroutine, Underlying(g) PROVE IInv'
<1> DEFINE n == N(g)
<1>1. pc[g] = "under" /\ op[g].op = "Underlying"
  BY DEF Underlying, IInv, CallInv, OpInv
<1>2. {inst[n].refs[k] : k \in DOMAIN inst[n].refs} \subseteq Instance
  BY <1>1, OfCall DEF ReachedOf
<1> QED
  BY <1>2, Returns DEF Underlying, IInv, VarTypes

\* A result of Method is an expanded method of the type.
LEMMA GivesMethod ==
    ASSUME IInv, NEW g \in Goroutine, pc[g] # "idle", op[g].op = "Method",
           op[g].i \in DOMAIN inst[N(g)].methods, inst[N(g)].methods[op[g].i] # NoFunc,
           MethodResult(g, inst[N(g)].methods[op[g].i])
    PROVE  known' \subseteq Instance /\ \A r \in results' : r \in results \/ ResultInv(r)
<1> DEFINE n == N(g)
           f == inst[n].methods[op[g].i]
<1>1. n \in Instance /\ {f.refs[k] : k \in DOMAIN f.refs} \subseteq Instance
  BY OfCall DEF ReachedOf
<1>2. ResultInv(<<n, op[g].i, f>>)
  BY <1>1 DEF ResultInv
<1> QED
  BY <1>1, <1>2 DEF MethodResult, IInv, VarTypes

\* Where all methods are expanded, so is that of a call.
LEMMA IsExpanded ==
    ASSUME ProgramOK, IInv, NEW g \in Goroutine, pc[g] # "idle", op[g].op = "Method",
           inst[N(g)].expanded = NumMethods(N(g))
    PROVE  op[g].i \in DOMAIN inst[N(g)].methods /\ inst[N(g)].methods[op[g].i] # NoFunc
<1>1. inst[N(g)] \in Type /\ MethodsInv(inst[N(g)]) /\ op[g].i \in 1 .. NumMethods(N(g))
  BY OfCall DEF IInv, CallInv, OpInv
<1> QED
  BY <1>1, AllExpanded DEF NumMethods

\* Whoever finds a type complete finds the method expanded.
LEMMA MethodFastHolds ==
    ASSUME ProgramOK, IInv, NEW g \in Goroutine, MethodFast(g) PROVE IInv'
<1> DEFINE n == N(g)
<1>1. pc[g] = "method" /\ op[g].op = "Method" /\ done[g] = <<>> /\ todo[g] = <<>>
  BY DEF MethodFast, IInv, CallInv, OpInv, DoneInv, Substituting
<1>2. n \in Instance /\ MethodsInv(inst[n])
  BY <1>1, OfCall
<1>3. CASE inst[n].state = "complete"
  <2>1. op[g].i \in DOMAIN inst[n].methods /\ inst[n].methods[op[g].i] # NoFunc
    BY <1>1, <1>2, <1>3, IsExpanded DEF MethodsInv, NumMethods
  <2>2. MethodResult(g, inst[n].methods[op[g].i])
    BY <1>3, <2>1 DEF MethodFast
  <2> QED
    BY <1>1, <2>1, <2>2, GivesMethod, Returns DEF MethodFast, MethodResult
<1>4. CASE inst[n].state # "complete"
  <2>1. Goto(g, "methodlock") /\ pc'[g] = "methodlock" /\ "methodlock" \in Label
    BY <1>4 DEF MethodFast, Goto, IInv, VarTypes, Label
  <2>2. CallInv(g)'
    <3>1. inst' = inst /\ op' = op /\ todo' = todo /\ done' = done
      BY <1>4 DEF MethodFast
    <3>2. OpInv(g)'
      BY <1>1, <2>1, <3>1 DEF IInv, CallInv, OpInv, Expanding, Substituting, N, NumMethods, Instance
    <3>3. MutexInv(g)' /\ StateInv(g)'
      BY <1>1, <2>1, <3>1 DEF IInv, CallInv, MutexInv, Holds, StateInv, Expanding, Substituting, Resolving,
         PastResolve, N
    <3>4. DoneInv(g)'
      <4>1. done'[g] = <<>> /\ todo'[g] = <<>> /\ op'[g].op = "Method" /\ DOMAIN done'[g] = {}
        BY <1>1, <3>1
      <4> QED
        BY <2>1, <4>1 DEF DoneInv, Expanding, Substituting
    <3> QED
      BY <3>2, <3>3, <3>4 DEF CallInv
  <2> QED
    BY <1>4, <2>1, <2>2, GoesOn DEF MethodFast, IInv, VarTypes
<1> QED
  BY <1>3, <1>4

\* Under the mutex a method is there or is begun; a context is left for it.
LEMMA MethodLockHolds ==
    ASSUME ProgramOK, IInv, NEW g \in Goroutine, MethodLock(g) PROVE IInv'
<1> DEFINE n == N(g)
           i == op[g].i
           len == NumMethods(n)
           methods == IF Len(inst[n].methods) = len THEN inst[n].methods
                      ELSE [k \in 1 .. len |-> NoFunc]
           t == [inst[n] EXCEPT !.methods = methods, !.mu = g]
<1>1. pc[g] = "methodlock" /\ op[g].op = "Method" /\ inst[n].mu = NoGoroutine
      /\ done[g] = <<>> /\ todo[g] = <<>>
  BY DEF MethodLock, IInv, CallInv, OpInv, DoneInv, Substituting
<1>2. inst[n].state # "unresolved"
  BY <1>1 DEF IInv, CallInv, StateInv, PastResolve
<1>3. /\ n \in Instance /\ inst[n] \in Type /\ MethodsInv(inst[n])
      /\ \A m \in ReachedOf(inst[n]) : m \in Instance /\ Together(n, m)
  BY <1>1, OfCall
<1>4. i \in 1 .. len /\ len \in Nat /\ i \in Nat /\ MRefs[inst[n].orig][i] \in Seq(Origin)
  BY <1>1, <1>3, Methods DEF IInv, CallInv, OpInv
<1>5. /\ methods \in Seq(Func) /\ Len(methods) = len /\ DOMAIN methods = 1 .. len
      /\ inst[n].methods \in Seq(Func)
  <2>1. inst[n].methods \in Seq(Func)
    BY <1>3 DEF Type
  <2>2. NoFunc \in Func
    BY DEF NoFunc, Func
  <2>3. [k \in 1 .. len |-> NoFunc] \in Seq(Func) /\ Len([k \in 1 .. len |-> NoFunc]) = len
    BY <1>4, <2>2
  <2>4. CASE Len(inst[n].methods) = len
    BY <2>1, <2>4
  <2>5. CASE Len(inst[n].methods) # len
    <3>1. methods = [k \in 1 .. len |-> NoFunc]
      BY <2>5
    <3> QED
      BY <2>1, <2>3, <3>1
  <2> QED
    BY <2>4, <2>5
<1>6. Len(inst[n].methods) # len => inst[n].methods = <<>>
  BY <1>3, <1>5 DEF MethodsInv, NumMethods
<1>7. CASE methods[i] # NoFunc
  <2>1. methods = inst[n].methods
    BY <1>4, <1>7
  <2>2. i \in DOMAIN inst[n].methods /\ MethodResult(g, inst[n].methods[i]) /\ inst' = inst
    BY <1>4, <1>5, <1>7, <2>1 DEF MethodLock
  <2> QED
    BY <1>1, <1>7, <2>1, <2>2, GivesMethod, Returns DEF MethodLock, MethodResult
<1>8. CASE methods[i] = NoFunc
  <2>1. inst[n].ctxt # Nil
    <3>1. inst[n].expanded # NumMethods(n)
      <4>1. SUFFICES ASSUME inst[n].expanded = NumMethods(n) PROVE FALSE
        OBVIOUS
      <4>2. i \in DOMAIN inst[n].methods /\ inst[n].methods[i] # NoFunc
        BY <1>1, <4>1, IsExpanded
      <4> QED
        BY <1>6, <1>8, <4>2
    <3> QED
      BY <1>2, <1>3, <3>1 DEF MethodsInv, NumMethods
  <2>2. /\ Goto(g, "subst") /\ inst' = [inst EXCEPT ![n] = t]
        /\ todo' = [todo EXCEPT ![g] = MRefs[inst[n].orig][i]]
        /\ op' = [op EXCEPT ![g].part = "method"]
        /\ done' = done /\ known' = known /\ results' = results
        /\ ctxt' = ctxt /\ origin' = origin /\ funcs' = funcs
    BY <1>8, <2>1 DEF MethodLock
  <2>3. /\ pc'[g] = "subst" /\ op'[g].op = "Method" /\ op'[g].n = n /\ op'[g].i = i
        /\ op'[g].part = "method" /\ DOMAIN done'[g] = {}
    BY <1>1, <2>2 DEF Goto, IInv, VarTypes, CallOf, N
  <2>4. /\ t \in Type /\ t.mu = g /\ t.methods = methods /\ t.ctxt # Nil
        /\ t.state # "unresolved" /\ t.orig = inst[n].orig
    BY <1>2, <1>3, <1>5, <2>1 DEF Type, Mutex
  <2>5. MethodsInv(t)
    <3>1. t.expanded = Cardinality(Expanded(t))
      <4>1. CASE Len(inst[n].methods) = len
        BY <1>3, <4>1 DEF MethodsInv, Expanded, Type
      <4>2. CASE Len(inst[n].methods) # len
        <5>1. Cardinality(Expanded(inst[n])) = 0
          BY <1>6, <4>2, NoneExpanded
        <5>2. \A k \in DOMAIN t.methods : t.methods[k] = NoFunc
          BY <4>2, <2>4
        <5>3. t.expanded = Cardinality(Expanded(inst[n]))
          BY <1>3 DEF MethodsInv, Type
        <5> HIDE DEF t
        <5>4. Cardinality(Expanded(t)) = 0
          BY <5>2, NoneExpanded
        <5> QED
          BY <5>1, <5>3, <5>4
      <4> QED
        BY <4>1, <4>2
    <3> QED
      BY <1>2, <1>3, <1>5, <2>4, <3>1 DEF MethodsInv, Type, NumMethods
  <2>6. ASSUME NEW m \in ReachedOf(t) PROVE m \in Instance /\ Together(n, m)
    <3>1. m \in ReachedOf(inst[n])
      <4>1. CASE methods = inst[n].methods
        <5>1. t.refs = inst[n].refs /\ t.methods = inst[n].methods
          BY <1>3, <2>4, <4>1 DEF Type
        <5> HIDE DEF t
        <5> QED
          BY <2>6, <5>1 DEF ReachedOf
      <4>2. CASE methods # inst[n].methods
        <5>1. \A k \in DOMAIN t.methods : DOMAIN t.methods[k].refs = {}
          BY <1>5, <2>4, <4>2 DEF NoFunc
        <5> QED
          BY <1>3, <2>6, <5>1 DEF ReachedOf, Type
      <4> QED
        BY <4>1, <4>2
    <3> QED
      BY <1>3, <3>1
  <2>7. ASSUME Instance' = Instance, inst'[n] = t PROVE CallInv(g)'
    <3> USE <1>1, <1>3, <2>3, <2>4, <2>7
    <3>1. N(g)' = n /\ NumMethods(n)' = len
      BY DEF N, NumMethods
    <3>2. OpInv(g)'
      BY <1>4, <3>1 DEF OpInv, Expanding, Substituting
    <3> HIDE DEF t, n, i, methods
    <3>3. MutexInv(g)'
      BY <3>1 DEF MutexInv
    <3>4. StateInv(g)'
      BY <1>4, <1>5, <1>8, <3>1 DEF StateInv, Expanding, Substituting, Resolving, PastResolve
    <3>5. DoneInv(g)'
      BY DEF DoneInv, Expanding, Substituting
    <3> QED
      BY <3>2, <3>3, <3>4, <3>5 DEF CallInv
  <2>8. /\ op' \in [Goroutine -> CallOf] /\ todo' \in [Goroutine -> Seq(Origin)]
        /\ \A d \in Goroutine \ {g} : Still(d)
    BY <1>4, <2>2 DEF IInv, VarTypes, CallOf, Still, Goto
  <2>9. \A k \in DOMAIN inst[n].methods :
           inst[n].methods[k] # NoFunc => /\ k \in DOMAIN t.methods
                                          /\ t.methods[k] = inst[n].methods[k]
    BY <1>6, <2>4
  <2> QED
    BY <1>1, <1>2, <1>3, <2>2, <2>4, <2>5, <2>6, <2>7, <2>8, <2>9, ChangesType
       DEF IInv, VarTypes, Label, ProgramOK, Type
<1> QED
  BY <1>7, <1>8

\* A method that was not expanded is stored and counted once.
LEMMA StoreMethodHolds ==
    ASSUME ProgramOK, IInv, NEW g \in Goroutine, StoreMethod(g) PROVE IInv'
<1> DEFINE n == N(g)
           i == op[g].i
           new == [id |-> funcs + 1, refs |-> done[g]]
           t == [inst[n] EXCEPT !.methods[i] = new, !.expanded = @ + 1]
<1>1. pc[g] = "expanded" /\ op[g].op = "Method" /\ inst[n].mu = g
  BY DEF StoreMethod, IInv, CallInv, OpInv, MutexInv, Holds
<1>2. /\ inst[n].state # "unresolved" /\ inst[n].ctxt # Nil
      /\ i \in DOMAIN inst[n].methods /\ inst[n].methods[i] = NoFunc
  BY <1>1 DEF IInv, CallInv, StateInv, PastResolve
<1>3. /\ n \in Instance /\ inst[n] \in Type /\ MethodsInv(inst[n])
      /\ \A m \in ReachedOf(inst[n]) : m \in Instance /\ Together(n, m)
  BY <1>1, OfCall
<1>4. /\ inst' = [inst EXCEPT ![n] = t] /\ Goto(g, "complete") /\ funcs' = funcs + 1
      /\ ctxt' = ctxt /\ origin' = origin /\ op' = op /\ todo' = todo /\ done' = done
      /\ known' = known /\ results' = results
  BY DEF StoreMethod
<1>5. new \in Func /\ new # NoFunc
  BY DEF IInv, VarTypes, Func, NoFunc
<1>6. /\ inst[n].methods \in Seq(Func)
      /\ [inst[n].methods EXCEPT ![i] = new] \in Seq(Func)
      /\ Len([inst[n].methods EXCEPT ![i] = new]) = Len(inst[n].methods)
      /\ DOMAIN [inst[n].methods EXCEPT ![i] = new] = DOMAIN inst[n].methods
  BY <1>2, <1>3, <1>5, ExceptSeq DEF Type
<1>7. /\ t \in Type /\ t.mu = g /\ t.orig = inst[n].orig /\ t.state = inst[n].state
      /\ t.ctxt = inst[n].ctxt /\ t.under = inst[n].under /\ t.refs = inst[n].refs
      /\ t.methods = [inst[n].methods EXCEPT ![i] = new] /\ t.expanded = inst[n].expanded + 1
  <2> DEFINE ms == [inst[n].methods EXCEPT ![i] = new]
  <2>1. t = [inst[n] EXCEPT !.methods = ms, !.expanded = inst[n].expanded + 1]
    BY <1>3 DEF Type
  <2>2. ms \in Seq(Func) /\ inst[n].expanded + 1 \in Nat
    BY <1>3, <1>6 DEF Type
  <2> HIDE DEF ms
  <2>3. t \in Type /\ t.methods = ms /\ t.expanded = inst[n].expanded + 1
    BY <1>3, <2>1, <2>2 DEF Type
  <2>4. /\ t.mu = g /\ t.orig = inst[n].orig /\ t.state = inst[n].state
        /\ t.ctxt = inst[n].ctxt /\ t.under = inst[n].under /\ t.refs = inst[n].refs
    BY <1>1, <1>3, <2>1 DEF Type
  <2> QED
    BY <2>3, <2>4 DEF ms
<1> HIDE DEF t
<1>8. MethodsInv(t)
  <2>1. Expanded(t) = Expanded(inst[n]) \cup {i} /\ i \notin Expanded(inst[n])
    BY <1>2, <1>5, <1>6, <1>7 DEF Expanded
  <2>2. IsFiniteSet(Expanded(inst[n]))
    BY <1>3, ExpandedFinite
  <2>3. Cardinality(Expanded(t)) = Cardinality(Expanded(inst[n])) + 1
    BY <2>1, <2>2, FS_AddElement
  <2>4. inst[n].state # "complete"
    <3>1. SUFFICES ASSUME inst[n].state = "complete" PROVE FALSE
      OBVIOUS
    <3>2. inst[n].methods[i] # NoFunc
      BY <1>1, <1>3, <3>1, IsExpanded DEF MethodsInv, NumMethods
    <3> QED
      BY <1>2, <3>2
  <2> QED
    BY <1>2, <1>3, <1>6, <1>7, <2>3, <2>4 DEF MethodsInv
<1>9. ASSUME NEW m \in ReachedOf(t) PROVE m \in Instance /\ Together(n, m)
  <2>1. CASE m \in ReachedOf(inst[n])
    BY <1>3, <2>1
  <2>2. CASE m \notin ReachedOf(inst[n])
    <3>1. PICK j \in DOMAIN t.methods : m \in {t.methods[j].refs[k] : k \in DOMAIN t.methods[j].refs}
      BY <1>7, <2>2 DEF ReachedOf
    <3>2. j = i
      BY <1>6, <1>7, <2>2, <3>1 DEF ReachedOf
    <3>3. t.methods[j].refs = done[g]
      BY <1>2, <1>6, <1>7, <3>2
    <3>4. PICK k \in DOMAIN done[g] : m = done[g][k]
      BY <3>1, <3>3
    <3> QED
      BY <1>1, <3>4, DoneTogether
  <2> QED
    BY <2>1, <2>2
<1>10. pc'[g] = "complete"
  BY <1>4 DEF Goto, IInv, VarTypes
<1>11. ASSUME Instance' = Instance, inst'[n] = t PROVE CallInv(g)'
  <2> USE <1>1, <1>2, <1>4, <1>7, <1>10, <1>11
  <2>1. N(g)' = n /\ NumMethods(n)' = NumMethods(n)
    BY DEF N, NumMethods
  <2>2. OpInv(g)'
    BY <2>1 DEF IInv, CallInv, OpInv, Expanding, Substituting
  <2> HIDE DEF n, i
  <2>3. MutexInv(g)'
    BY <2>1 DEF MutexInv
  <2>4. StateInv(g)'
    <3>1. op'[g].i = i /\ i \in DOMAIN t.methods /\ t.methods[i] # NoFunc
      BY <1>5, <1>6 DEF i
    <3> QED
      BY <2>1, <3>1 DEF StateInv, Expanding, Substituting, Resolving, PastResolve
  <2>5. DoneInv(g)'
    BY DEF DoneInv, Expanding, Substituting, IInv, CallInv
  <2> QED
    BY <2>2, <2>3, <2>4, <2>5 DEF CallInv
<1>12. \A d \in Goroutine \ {g} : Still(d)
  BY <1>4 DEF Still, Goto, IInv, VarTypes
<1>13. \A k \in DOMAIN inst[n].methods :
         inst[n].methods[k] # NoFunc => /\ k \in DOMAIN t.methods
                                        /\ t.methods[k] = inst[n].methods[k]
  BY <1>2, <1>6, <1>7
<1>14. funcs' \in Nat
  BY <1>4 DEF IInv, VarTypes
<1> QED
  BY <1>1, <1>2, <1>3, <1>4, <1>7, <1>8, <1>9, <1>11, <1>12, <1>13, <1>14, ChangesType
     DEF IInv, VarTypes, Label, ProgramOK

\* With the last method the context is given up, and the state says so.
LEMMA CompleteMethodsHolds ==
    ASSUME ProgramOK, IInv, NEW g \in Goroutine, CompleteMethods(g) PROVE IInv'
<1> DEFINE n == N(g)
           i == op[g].i
           all == inst[n].expanded = NumMethods(n)
           t == [inst[n] EXCEPT !.state = IF all THEN "complete" ELSE @,
                                !.ctxt = IF all THEN Nil ELSE @,
                                !.mu = NoGoroutine]
<1>1. pc[g] = "complete" /\ op[g].op = "Method" /\ inst[n].mu = g
  BY DEF CompleteMethods, IInv, CallInv, OpInv, MutexInv, Holds
<1>2. /\ inst[n].state # "unresolved"
      /\ i \in DOMAIN inst[n].methods /\ inst[n].methods[i] # NoFunc
  BY <1>1 DEF IInv, CallInv, StateInv, PastResolve
<1>3. /\ n \in Instance /\ inst[n] \in Type /\ MethodsInv(inst[n])
      /\ \A m \in ReachedOf(inst[n]) : m \in Instance /\ Together(n, m)
  BY <1>1, OfCall
<1>4. /\ inst' = [inst EXCEPT ![n] = t] /\ MethodResult(g, inst[n].methods[i])
      /\ ctxt' = ctxt /\ origin' = origin /\ funcs' = funcs
  BY DEF CompleteMethods
<1>5. /\ t \in Type /\ t.orig = inst[n].orig /\ t.state # "unresolved"
      /\ t.state = (IF all THEN "complete" ELSE inst[n].state)
      /\ t.ctxt = (IF all THEN Nil ELSE inst[n].ctxt)
      /\ t.under = inst[n].under /\ t.refs = inst[n].refs
      /\ t.methods = inst[n].methods /\ t.expanded = inst[n].expanded
  <2>1. /\ (IF all THEN "complete" ELSE inst[n].state) \in States
        /\ (IF all THEN Nil ELSE inst[n].ctxt) \in Nat /\ NoGoroutine \in Mutex
    BY <1>3 DEF Type, Nil, Mutex, States
  <2>2. t \in Type
    BY <1>3, <2>1 DEF Type
  <2> QED
    BY <1>2, <1>3, <2>2 DEF Type
<1> HIDE DEF t
<1>6. MethodsInv(t) /\ ReachedOf(t) = ReachedOf(inst[n])
  BY <1>2, <1>3, <1>5 DEF MethodsInv, Expanded, ReachedOf, NumMethods
<1>7. known' \subseteq Instance /\ \A r \in results' : r \in results \/ ResultInv(r)
  BY <1>1, <1>2, <1>4, GivesMethod
<1>8. inst[n].mu \notin Goroutine \ {g} /\ VarTypes /\ TypesInv
  BY <1>1 DEF IInv
<1>9. /\ inst' \in Seq(Type) /\ Instance' = Instance
      /\ Kept(g) /\ TypesInv'
  BY <1>2, <1>3, <1>4, <1>5, <1>6, <1>7, <1>8, OneType
<1>10. Return(g)
  BY <1>4 DEF MethodResult
<1>11. VarTypes'
  BY <1>4, <1>7, <1>9, <1>10, ReturnHolds DEF IInv, VarTypes
<1> QED
  BY <1>9, <1>10, <1>11, ReturnHolds, Moved DEF IInv

-----------------------------------------------------------------------------
(* Contexts.                                                                 *)

\* The type of a call that is being expanded, and where it looks for others.
LEMMA InUse ==
    ASSUME ProgramOK, IInv, NEW g \in Goroutine, pc[g] \in {"lookup", "update"}, todo[g] # <<>>
    PROVE  /\ ContextOf(g) \in 1 .. Len(ctxt) /\ ContextOf(g) # Nil
           /\ Head(todo[g]) \in Origin
           /\ Tail(todo[g]) \in Seq(Origin) /\ Len(Tail(todo[g])) = Len(todo[g]) - 1
           /\ op[g].op = "Instantiate" <=> ContextOf(g) = 1
<1>1. todo[g] \in Seq(Origin) /\ Len(ctxt) \in Nat /\ Len(ctxt) >= 1
  BY DEF IInv, VarTypes
<1>2. CASE op[g].op = "Instantiate"
  BY <1>1, <1>2, HeadTailProperties DEF ContextOf, Nil
<1>3. CASE op[g].op # "Instantiate"
  <2>1. inst[N(g)].ctxt # Nil /\ OwnContext(N(g))
    BY <1>3, OfCall DEF IInv, CallInv, StateInv, Expanding, Substituting
  <2>2. ContextOf(g) \in 2 .. Len(ctxt)
    BY <1>3, <2>1 DEF OwnContext, ContextOf
  <2> QED
    BY <1>1, <1>3, <2>2, HeadTailProperties DEF Nil
<1> QED
  BY <1>2, <1>3

\* An instance is made or found; the others stay.
LEMMA Appended ==
    ASSUME NEW S, NEW s \in Seq(S), NEW e \in S
    PROVE  /\ Append(s, e) \in Seq(S) /\ Len(Append(s, e)) = Len(s) + 1
           /\ DOMAIN Append(s, e) = 1 .. Len(s) + 1
           /\ \A k \in 1 .. Len(s) : Append(s, e)[k] = s[k]
           /\ Append(s, e)[Len(s) + 1] = e
OBVIOUS

\* A call takes m for the next origin.
LEMMA Takes ==
    ASSUME ProgramOK, IInv, NEW g \in Goroutine,
           pc[g] \in {"lookup", "update"}, todo[g] # <<>>, NEW m,
           Kept(g), VarTypes', op' = op, pc'[g] = "subst",
           todo'[g] = Tail(todo[g]), done'[g] = Append(done[g], m),
           m \in Instance', inst'[m].orig = Head(todo[g]),
           ctxt'[ContextOf(g)][Head(todo[g])] = m,
           op[g].op # "Instantiate" => inst'[N(g)] = inst[N(g)]
    PROVE  CallInv(g)'
<1>0. PICK n : n = N(g)
  OBVIOUS
<1>1. /\ N(g)' = n /\ Expanding(g)' = Expanding(g)
      /\ Expanding(g) <=> op[g].op # "Instantiate"
  BY <1>0 DEF N, Expanding, Substituting
<1>2. ASSUME Expanding(g)
      PROVE  /\ n \in Instance /\ inst'[n] = inst[n]
             /\ n \in Instance' /\ NumMethods(n)' = NumMethods(n)
  <2>1. n \in Instance
    BY <1>0, <1>2, OfCall DEF Expanding, Substituting
  <2> QED
    BY <1>0, <1>1, <1>2, <2>1 DEF Kept, Instance, NumMethods
<1>4. MutexInv(g)'
  BY <1>0, <1>1, <1>2 DEF IInv, CallInv, MutexInv, Holds
<1>5. StateInv(g)'
  BY <1>0, <1>1, <1>2 DEF IInv, CallInv, StateInv, Resolving, PastResolve
<1>6. m \in Nat /\ done[g] \in Seq(Nat) /\ todo[g] \in Seq(Origin)
  <2>1. m \in 1 .. Len(inst')
    BY DEF VarTypes, Instance
  <2> QED
    BY <2>1 DEF IInv, VarTypes
<1>7. ASSUME NEW k \in DOMAIN done'[g]
      PROVE  /\ done'[g][k] \in Instance'
             /\ Expanding(g) => ctxt'[inst'[n].ctxt][inst'[done'[g][k]].orig] = done'[g][k]
  <2>1. PICK l : l = done'[g][k]
    OBVIOUS
  <2>2. CASE l = m
    BY <1>0, <1>1, <1>2, <2>1, <2>2 DEF ContextOf
  <2>3. CASE l # m
    <3>1. k \in DOMAIN done[g] /\ l = done[g][k]
      BY <1>6, <2>1, <2>3, Appended
    <3>2. l \in Instance /\ l \in Instance' /\ inst'[l].orig = inst[l].orig
      BY <3>1 DEF IInv, CallInv, DoneInv, Kept, Instance
    <3>3. ASSUME Expanding(g) PROVE ctxt'[inst'[n].ctxt][inst'[l].orig] = l
      <4>1. inst[n].ctxt # Nil /\ OwnContext(n)
        BY <1>0, <1>1, <3>3, OfCall DEF IInv, CallInv, StateInv, Expanding, Substituting
      <4>2. ctxt[inst[n].ctxt][inst[l].orig] = l /\ inst[n].ctxt \in 1 .. Len(ctxt)
        <5>1. InContext(n, l)
          BY <1>0, <3>1, <3>3 DEF IInv, CallInv, DoneInv
        <5> QED
          BY <4>1, <5>1 DEF InContext, OwnContext
      <4>3. inst[l].orig \in Origin /\ l # Nil
        BY <3>2, Elements DEF IInv, Type
      <4> QED
        BY <1>2, <3>2, <3>3, <4>2, <4>3 DEF Kept
    <3> QED
      BY <2>1, <3>2, <3>3
  <2> QED
    BY <2>2, <2>3
<1>8. ASSUME op[g].op = "Instantiate"
      PROVE  Len(todo'[g]) + Len(done'[g]) = 1 /\ todo'[g] = <<>>
  <2> DEFINE a == Len(todo[g])
             b == Len(done[g])
  <2>1. a + b = 1
    BY <1>8 DEF IInv, CallInv, DoneInv
  <2>2. Len(todo'[g]) = a - 1 /\ Len(done'[g]) = b + 1 /\ a \in Nat /\ b \in Nat
    BY <1>6, InUse, Appended
  <2> HIDE DEF a, b
  <2>3. (a - 1) + (b + 1) = 1 /\ a - 1 = 0
    BY <2>1, <2>2
  <2>4. todo'[g] \in Seq(Origin)
    BY InUse
  <2>5. todo'[g] = <<>>
    BY <2>2, <2>3, <2>4, EmptySeq
  <2> QED
    BY <2>2, <2>3, <2>5
<1>3. OpInv(g)'
  BY <1>0, <1>1, <1>2, <1>8 DEF IInv, CallInv, OpInv
<1>9. DoneInv(g)'
  BY <1>1, <1>7, <1>8 DEF DoneInv, InContext, Instance, Substituting
<1> QED
  BY <1>3, <1>4, <1>5, <1>9 DEF CallInv

\* An instance that is found is one of its origin, in the context in use.
LEMMA LookupHolds ==
    ASSUME ProgramOK, IInv, NEW g \in Goroutine, Lookup(g) PROVE IInv'
<1> DEFINE c == ContextOf(g)
           o == Head(todo[g])
           found == ctxt[c][o]
<1>1. pc[g] = "lookup" /\ todo[g] # <<>>
  BY DEF Lookup
<1>2. c \in 1 .. Len(ctxt) /\ c # Nil /\ o \in Origin /\ Tail(todo[g]) \in Seq(Origin)
  BY <1>1, InUse
<1>3. CASE found = Nil
  <2>1. /\ Goto(g, "update") /\ pc'[g] = "update" /\ "update" \in Label
        /\ todo' = todo /\ done' = done /\ op' = op /\ inst' = inst /\ ctxt' = ctxt
    BY <1>2, <1>3 DEF Lookup, Goto, Label, IInv, VarTypes
  <2>2. Expanding(g)' = Expanding(g) /\ N(g)' = N(g)
    BY <1>1, <2>1 DEF Expanding, Substituting, N
  <2>3. OpInv(g)' /\ MutexInv(g)' /\ StateInv(g)'
    BY <1>1, <2>1, <2>2 DEF IInv, CallInv, OpInv, MutexInv, Holds, StateInv, Resolving,
       PastResolve, NumMethods, Instance
  <2>4. DoneInv(g)'
    BY <1>1, <2>1, <2>2 DEF IInv, CallInv, DoneInv, Substituting, InContext, Instance
  <2> QED
    BY <2>1, <2>3, <2>4, GoesOn DEF Lookup, CallInv, IInv, VarTypes
<1>4. CASE found # Nil
  <2>1. /\ Goto(g, "subst") /\ pc'[g] = "subst" /\ pc' \in [Goroutine -> Label]
        /\ op' = op /\ inst' = inst /\ ctxt' = ctxt /\ origin' = origin
        /\ known' = known /\ funcs' = funcs /\ results' = results
        /\ todo' = [todo EXCEPT ![g] = Tail(todo[g])]
        /\ done' = [done EXCEPT ![g] = Append(done[g], found)]
    BY <1>2, <1>4 DEF Lookup, Goto, Label, IInv, VarTypes
  <2>2. found \in Instance /\ inst[found].orig = o /\ found \in Nat /\ Instance' = Instance
    BY <1>2, <1>4, <2>1, Elements DEF IInv, TypesInv, RecordsOwn, Instance
  <2>3. done[g] \in Seq(Nat) /\ todo'[g] = Tail(todo[g]) /\ done'[g] = Append(done[g], found)
    BY <2>1 DEF IInv, VarTypes
  <2>4. VarTypes'
    BY <1>2, <2>1, <2>2, <2>3, Appended DEF IInv, VarTypes, Instance
  <2>5. Kept(g) /\ TypesInv'
    BY <2>1, SameTypes DEF IInv
  <2>6. CallInv(g)'
    BY <1>1, <2>1, <2>2, <2>3, <2>4, <2>5, Takes
  <2>7. \A d \in Goroutine \ {g} : Still(d)
    BY <2>1 DEF Still, IInv, VarTypes, Goto
  <2> QED
    BY <2>4, <2>5, <2>6, <2>7, Moved
<1> QED
  BY <1>3, <1>4

\* When nothing is left to substitute the results are there.
LEMMA SubstitutedHolds ==
    ASSUME ProgramOK, IInv, NEW g \in Goroutine, Substituted(g) PROVE IInv'
<1>1. pc[g] = "subst" /\ todo[g] = <<>>
  BY DEF Substituted
<1>2. CASE op[g].op = "Instantiate"
  <2>1. done[g] \in Seq(Nat) /\ DoneInv(g)
    BY DEF IInv, CallInv, VarTypes
  <2>2. Len(todo[g]) + Len(done[g]) = 1 /\ \A k \in DOMAIN done[g] : done[g][k] \in Instance
    BY <1>2, <2>1 DEF DoneInv
  <2>3. 1 \in DOMAIN done[g]
    BY <1>1, <2>1, <2>2
  <2>4. done[g][1] \in Instance
    BY <2>2, <2>3
  <2> QED
    BY <1>2, <2>4, Returns DEF Substituted, IInv, VarTypes
<1>3. CASE op[g].op # "Instantiate"
  <2> DEFINE l == IF op[g].part = "underlying" THEN "store" ELSE "expanded"
  <2>1. Goto(g, l) /\ l \in Label /\ pc'[g] = l
    BY <1>3 DEF Substituted, Goto, Label, IInv, VarTypes
  <2>2. /\ op' = op /\ inst' = inst /\ ctxt' = ctxt /\ todo' = todo /\ done' = done
        /\ N(g)' = N(g)
    BY <1>3 DEF Substituted, N
  <2>3. Expanding(g) /\ ~ Expanding(g)'
    BY <1>1, <1>3, <2>1 DEF Expanding, Substituting
  <2>4. op[g].part \in {"underlying", "method"} /\ (op[g].part = "method" => op[g].op = "Method")
    BY <2>3 DEF IInv, CallInv, OpInv
  <2>5. OpInv(g)'
    BY <1>1, <1>3, <2>1, <2>2, <2>3, <2>4 DEF IInv, CallInv, OpInv, NumMethods, Instance
  <2>6. MutexInv(g)'
    BY <2>2, <2>3 DEF IInv, CallInv, MutexInv, Holds
  <2>7. StateInv(g)'
    BY <2>1, <2>2, <2>3, <2>4 DEF IInv, CallInv, StateInv, Resolving, PastResolve
  <2>8. DoneInv(g)'
    <3>1. todo'[g] = <<>> /\ pc'[g] \in {"store", "expanded"}
      BY <1>1, <2>1, <2>2
    <3>2. DoneInv(g)
      BY DEF IInv, CallInv
    <3>3. ASSUME NEW k \in DOMAIN done[g]
          PROVE  done[g][k] \in Instance' /\ InContext(N(g), done[g][k])'
      <4>1. done[g][k] \in Instance /\ InContext(N(g), done[g][k])
        BY <2>3, <3>2 DEF DoneInv
      <4> QED
        BY <2>2, <4>1 DEF InContext, Instance, N
    <3>4. done'[g] = done[g] /\ op'[g].op # "Instantiate"
      BY <1>3, <2>2
    <3> QED
      BY <3>1, <3>3, <3>4, <2>2 DEF DoneInv
  <2> QED
    BY <1>3, <2>1, <2>2, <2>5, <2>6, <2>7, <2>8, GoesOn DEF Substituted, CallInv, IInv, VarTypes
<1> QED
  BY <1>2, <1>3

\* A new instance, recorded where there was none.
LEMMA NewInstance ==
    ASSUME VarTypes, TypesInv, NEW g, NEW c \in 1 .. Len(ctxt), NEW o \in Origin,
           ctxt[c][o] = Nil, NEW d, d = (IF c = 1 THEN Nil ELSE c),
           inst' = Append(inst, NewNamedInstance(o, d)),
           ctxt' = [ctxt EXCEPT ![c][o] = Len(inst) + 1],
           results' = results
    PROVE  /\ inst' \in Seq(Type) /\ Len(inst') = Len(inst) + 1
           /\ ctxt' \in Seq([Origin -> Nat]) /\ Len(ctxt') = Len(ctxt)
           /\ \A m \in Instance : m \in Instance' /\ inst'[m] = inst[m]
           /\ inst'[Len(inst) + 1].orig = o /\ Len(inst) + 1 \in Instance'
           /\ ctxt'[c][o] = Len(inst) + 1
           /\ Kept(g) /\ TypesInv'
<1>0. PICK new, last, row :
         /\ new = NewNamedInstance(o, d)
         /\ last = Len(inst) + 1
         /\ row = [ctxt[c] EXCEPT ![o] = last]
  OBVIOUS
<1>1. new \in Type
  BY <1>0 DEF NewNamedInstance, Type, Nil, States, Mutex
<1>2. Len(inst) \in Nat /\ Len(ctxt) \in Nat /\ Instance = 1 .. Len(inst) /\ inst \in Seq(Type)
  BY Elements DEF VarTypes
<1>3. /\ inst' \in Seq(Type) /\ Len(inst') = last /\ Instance' = 1 .. last
      /\ \A m \in Instance : inst'[m] = inst[m]
      /\ inst'[last] = new
  BY <1>0, <1>1, <1>2, Appended DEF Instance
<1>4. /\ ctxt \in Seq([Origin -> Nat]) /\ ctxt[c] \in [Origin -> Nat]
      /\ row \in [Origin -> Nat] /\ ctxt' = [ctxt EXCEPT ![c] = row]
  BY <1>0, <1>2, Elements DEF VarTypes
<1>5. /\ ctxt' \in Seq([Origin -> Nat]) /\ Len(ctxt') = Len(ctxt)
      /\ \A e \in 1 .. Len(ctxt) : ctxt'[e] = IF e = c THEN row ELSE ctxt[e]
  <2> DEFINE S == [Origin -> Nat]
  <2>1. ctxt \in Seq(S) /\ row \in S /\ ctxt' = [ctxt EXCEPT ![c] = row]
    BY <1>4
  <2> HIDE DEF S
  <2>2. /\ ctxt' \in Seq(S) /\ Len(ctxt') = Len(ctxt)
        /\ \A e \in 1 .. Len(ctxt) : ctxt'[e] = IF e = c THEN row ELSE ctxt[e]
    BY <2>1, ExceptSeq
  <2> QED
    BY <2>2 DEF S
<1>6. \A e \in 1 .. Len(ctxt), p \in Origin :
         ctxt'[e][p] = IF e = c /\ p = o THEN last ELSE ctxt[e][p]
  BY <1>0, <1>4, <1>5
<1>7. /\ new.orig = o /\ new.ctxt = d /\ new.state = "unresolved" /\ new.refs = <<>>
      /\ new.methods = <<>> /\ new.expanded = 0 /\ new.mu = NoGoroutine
  BY <1>0 DEF NewNamedInstance
<1>8. last \notin Instance /\ last \in Instance' /\ last # Nil /\ last \in Nat
  BY <1>0, <1>2, <1>3 DEF Nil
<1>9. Kept(g)
  BY <1>0, <1>2, <1>3, <1>5, <1>6 DEF Kept, Instance
<1>10. ASSUME NEW m \in Instance PROVE MethodsInv(inst[m])' /\ OwnContext(m)' /\ ReachInv(m)'
  <2>1. MethodsInv(inst[m]) /\ OwnContext(m) /\ ReachInv(m) /\ inst[m] \in Type
    BY Elements DEF TypesInv
  <2>0. inst'[m] = inst[m] /\ m # last /\ m # Nil
    BY <1>3, <1>8, Elements
  <2>2. MethodsInv(inst[m])'
    BY <2>0, <2>1 DEF MethodsInv, Expanded
  <2>3. OwnContext(m)'
    <3>1. SUFFICES ASSUME inst[m].ctxt # Nil
                   PROVE  inst[m].ctxt \in 2 .. Len(ctxt') /\ ctxt'[inst[m].ctxt][inst[m].orig] = m
      BY <2>0 DEF OwnContext, InContext
    <3>2. inst[m].ctxt \in 2 .. Len(ctxt) /\ ctxt[inst[m].ctxt][inst[m].orig] = m
      BY <2>1, <3>1 DEF OwnContext, InContext
    <3>3. inst[m].orig \in Origin
      BY <2>1 DEF Type
    <3>4. inst[m].ctxt \in 1 .. Len(ctxt)
      BY <1>2, <3>2
    <3> QED
      BY <1>5, <1>9, <2>0, <3>2, <3>3, <3>4 DEF Kept
  <2>4. ReachInv(m)'
    <3>1. Reached(m)' = Reached(m)
      <4>1. Reached(m) = ReachedOf(inst[m]) /\ Reached(m)' = ReachedOf(inst'[m])
        BY DEF Reached, ReachedOf
      <4> QED
        BY <2>0, <4>1
    <3>2. ASSUME NEW l \in Reached(m) PROVE l \in Instance' /\ Together(m, l)'
      <4>1. l \in Instance
        BY <2>1 DEF ReachInv
      <4>2. PICK e \in 2 .. Len(ctxt) : ctxt[e][inst[m].orig] = m /\ ctxt[e][inst[l].orig] = l
        BY <2>1 DEF ReachInv, Together
      <4>3. inst[l].orig \in Origin /\ inst[m].orig \in Origin /\ l # Nil /\ m # Nil
        BY <4>1, Elements DEF Type
      <4>4. ctxt'[e][inst'[m].orig] = m /\ ctxt'[e][inst'[l].orig] = l
        BY <1>2, <1>3, <1>9, <4>1, <4>2, <4>3 DEF Kept
      <4>5. e \in 2 .. Len(ctxt') /\ l \in Instance'
        BY <1>5, <1>9, <4>1 DEF Kept, Instance
      <4> QED
        BY <4>4, <4>5 DEF Together
    <3> QED
      BY <3>1, <3>2 DEF ReachInv
  <2> QED
    BY <2>2, <2>3, <2>4
<1>11. MethodsInv(inst[last])' /\ OwnContext(last)' /\ ReachInv(last)'
  <2>1. Expanded(new) = {} /\ Cardinality(Expanded(new)) = 0
    BY <1>7, FS_EmptySet DEF Expanded
  <2>2. MethodsInv(new)
    BY <1>7, <2>1 DEF MethodsInv
  <2>3. MethodsInv(inst[last])'
    BY <1>3, <2>2 DEF MethodsInv, Expanded
  <2>4. OwnContext(last)'
    BY <1>0, <1>2, <1>3, <1>5, <1>6, <1>7 DEF OwnContext, InContext
  <2>5. Reached(last)' = {}
    BY <1>3, <1>7 DEF Reached
  <2> QED
    BY <2>3, <2>4, <2>5 DEF ReachInv
<1>12. ASSUME NEW e \in 1 .. Len(ctxt), NEW p \in Origin PROVE RecordsOwn(e, p)'
  <2>1. CASE e = c /\ p = o
    BY <1>3, <1>6, <1>7, <1>8, <2>1 DEF RecordsOwn
  <2>2. CASE ~ (e = c /\ p = o)
    <3>1. RecordsOwn(e, p) /\ ctxt'[e][p] = ctxt[e][p]
      BY <1>6, <2>2 DEF TypesInv
    <3> QED
      BY <1>3, <1>2, <3>1 DEF RecordsOwn
  <2> QED
    BY <2>1, <2>2
<1>13. ASSUME NEW e \in 2 .. Len(ctxt), NEW f \in 2 .. Len(ctxt), NEW p \in Origin
       PROVE  RecordsOnce(e, f, p)'
  <2>1. RecordsOnce(e, f, p) /\ ctxt[e][p] \in Instance \cup {Nil} /\ ctxt[f][p] \in Instance \cup {Nil}
    BY <1>2 DEF TypesInv, RecordsOwn
  <2> QED
    BY <1>2, <1>6, <1>8, <2>1 DEF RecordsOnce
<1>14. ASSUME NEW r \in results' PROVE ResultInv(r)'
  BY <1>2, <1>3 DEF TypesInv, ResultInv
<1>15. TypesInv'
  <2>1. \A m \in Instance' : m \in Instance \/ m = last
    BY <1>0, <1>2, <1>3
  <2> QED
    BY <1>5, <1>10, <1>11, <1>12, <1>13, <1>14, <2>1 DEF TypesInv
<1> QED
  BY <1>0, <1>2, <1>3, <1>5, <1>6, <1>7, <1>8, <1>9, <1>15

\* A new instance is recorded, or one that another goroutine has made is taken.
LEMMA UpdateHolds ==
    ASSUME ProgramOK, IInv, NEW g \in Goroutine, Update(g) PROVE IInv'
<1> DEFINE c == ContextOf(g)
           o == Head(todo[g])
           found == ctxt[c][o]
<1>1. pc[g] = "update" /\ todo[g] # <<>> /\ Goto(g, "subst")
  BY DEF Update, IInv, CallInv, DoneInv
<1>2. /\ c \in 1 .. Len(ctxt) /\ c # Nil /\ o \in Origin /\ Tail(todo[g]) \in Seq(Origin)
      /\ op[g].op = "Instantiate" <=> c = 1
  BY <1>1, InUse
<1>3. /\ op' = op /\ origin' = origin /\ known' = known /\ funcs' = funcs /\ results' = results
      /\ todo' = [todo EXCEPT ![g] = Tail(todo[g])]
      /\ done' = [done EXCEPT ![g] = Append(done[g], ctxt'[c][o])]
  BY DEF Update
<1>4. done[g] \in Seq(Nat) /\ todo'[g] = Tail(todo[g]) /\ done'[g] = Append(done[g], ctxt'[c][o])
  BY <1>3 DEF IInv, VarTypes
<1>5. \A d \in Goroutine \ {g} : Still(d)
  BY <1>1, <1>3 DEF Still, IInv, VarTypes, Goto
<1>6. pc' \in [Goroutine -> Label] /\ pc'[g] = "subst"
  BY <1>1 DEF IInv, VarTypes, Goto, Label
<1>7. CASE found # Nil
  <2>1. inst' = inst /\ ctxt' = ctxt
    <3>1. inst' = inst /\ ctxt' = [ctxt EXCEPT ![c][o] = found]
      BY <1>7 DEF Update
    <3> QED
      BY <1>2, <3>1, Elements DEF IInv, VarTypes
  <2>2. found \in Instance /\ inst[found].orig = o /\ found \in Nat /\ Instance' = Instance
    BY <1>2, <1>7, <2>1, Elements DEF IInv, TypesInv, RecordsOwn, Instance
  <2>3. VarTypes'
    BY <1>2, <1>3, <1>4, <1>6, <2>1, <2>2, Appended DEF IInv, VarTypes
  <2>4. Kept(g) /\ TypesInv'
    BY <1>3, <2>1, SameTypes DEF IInv
  <2>5. CallInv(g)'
    BY <1>1, <1>3, <1>4, <1>6, <2>1, <2>2, <2>3, <2>4, Takes
  <2> QED
    BY <1>5, <2>3, <2>4, <2>5, Moved
<1>8. CASE found = Nil
  <2> DEFINE d == IF op[g].op = "Instantiate" THEN Nil ELSE c
             last == Len(inst) + 1
  <2>1. d = IF c = 1 THEN Nil ELSE c
    BY <1>2
  <2>2. inst' = Append(inst, NewNamedInstance(o, d))
    BY <1>8 DEF Update
  <2>3. Len(inst') = last
    BY <2>2 DEF IInv, VarTypes
  <2>4. ctxt' = [ctxt EXCEPT ![c][o] = last]
    BY <1>8, <2>3 DEF Update
  <2>5. VarTypes /\ TypesInv
    BY DEF IInv
  <2> HIDE DEF d, c, o
  <2>6. /\ inst' \in Seq(Type)
        /\ ctxt' \in Seq([Origin -> Nat]) /\ Len(ctxt') = Len(ctxt)
        /\ \A m \in Instance : m \in Instance' /\ inst'[m] = inst[m]
        /\ inst'[last].orig = o /\ last \in Instance'
        /\ ctxt'[c][o] = last
        /\ Kept(g) /\ TypesInv'
    BY <1>2, <1>3, <1>8, <2>1, <2>2, <2>4, <2>5, NewInstance
  <2>7. VarTypes'
    <3>1. last \in Nat /\ Len(ctxt') >= 1
      BY <2>5, <2>6 DEF VarTypes
    <3>2. done' \in [Goroutine -> Seq(Nat)] /\ todo' \in [Goroutine -> Seq(Origin)]
      BY <1>2, <1>3, <1>4, <2>5, <2>6, <3>1, Appended DEF VarTypes, c, o
    <3>3. known' \subseteq Instance'
      BY <1>3, <2>5, <2>6 DEF VarTypes
    <3> QED
      BY <1>3, <1>6, <2>5, <2>6, <3>1, <3>2, <3>3 DEF VarTypes
  <2>8. op[g].op # "Instantiate" => inst'[N(g)] = inst[N(g)]
    BY <1>1, <2>6, OfCall
  <2>9. CallInv(g)'
    BY <1>1, <1>3, <1>4, <1>6, <2>6, <2>7, <2>8, Takes DEF c, o
  <2> QED
    BY <1>5, <2>6, <2>7, <2>9, Moved
<1> QED
  BY <1>7, <1>8

\* A context for a type that is in none besides the caller's.
LEMMA NewContext ==
    ASSUME VarTypes, TypesInv, NEW g, NEW n \in Instance,
           inst[n].ctxt = Nil, inst[n].state = "unresolved", inst[n].mu \notin Goroutine \ {g},
           NEW c, c = Len(ctxt) + 1,
           NEW row, row = [o \in Origin |-> IF o = inst[n].orig THEN n ELSE Nil],
           inst' = [inst EXCEPT ![n].ctxt = c],
           ctxt' \in Seq([Origin -> Nat]), Len(ctxt') = c,
           \A e \in 1 .. Len(ctxt) : ctxt'[e] = ctxt[e],
           ctxt'[c] = row,
           results' = results
    PROVE  /\ inst' \in Seq(Type) /\ Instance' = Instance
           /\ inst'[n] = [inst[n] EXCEPT !.ctxt = c]
           /\ Kept(g) /\ TypesInv'
<1>0. PICK t : t = [inst[n] EXCEPT !.ctxt = c]
  OBVIOUS
<1>1. /\ Len(inst) \in Nat /\ Len(ctxt) \in Nat /\ Instance = 1 .. Len(inst)
      /\ inst \in Seq(Type) /\ inst[n] \in Type /\ Len(ctxt) >= 1 /\ n \in Nat /\ n # Nil
      /\ ctxt \in Seq([Origin -> Nat])
  BY Elements DEF VarTypes
<1>2. /\ t \in Type /\ t.orig = inst[n].orig /\ t.ctxt = c /\ t.state = "unresolved"
      /\ t.refs = inst[n].refs /\ t.methods = inst[n].methods /\ t.under = inst[n].under
      /\ t.expanded = inst[n].expanded
  <2>1. c \in Nat
    BY <1>1
  <2>2. t \in Type
    BY <1>0, <1>1, <2>1 DEF Type
  <2> QED
    BY <1>0, <1>1, <2>2 DEF Type
<1>3. inst' = [inst EXCEPT ![n] = t]
  BY <1>0
<1>4. /\ inst' \in Seq(Type) /\ Instance' = Instance
      /\ \A m \in Instance : inst'[m] = IF m = n THEN t ELSE inst[m]
  <2>1. /\ inst' \in Seq(Type) /\ Len(inst') = Len(inst)
        /\ \A m \in 1 .. Len(inst) : inst'[m] = IF m = n THEN t ELSE inst[m]
    <3>1. inst \in Seq(Type) /\ n \in 1 .. Len(inst) /\ t \in Type
      BY <1>1, <1>2
    <3>2. /\ [inst EXCEPT ![n] = t] \in Seq(Type) /\ Len([inst EXCEPT ![n] = t]) = Len(inst)
          /\ \A m \in 1 .. Len(inst) : [inst EXCEPT ![n] = t][m] = IF m = n THEN t ELSE inst[m]
      BY <3>1, ExceptSeq
    <3> QED
      BY <1>3, <3>2
  <2> QED
    BY <1>1, <2>1 DEF Instance
<1>5. \A m \in Instance : /\ inst'[m].orig = inst[m].orig
                          /\ inst'[m].refs = inst[m].refs
                          /\ inst'[m].methods = inst[m].methods
                          /\ inst'[m].state = inst[m].state
                          /\ m # n => inst'[m] = inst[m]
  BY <1>2, <1>4
<1>6. row \in [Origin -> Nat]
  BY <1>1 DEF Nil
<1>7. /\ ctxt' \in Seq([Origin -> Nat]) /\ Len(ctxt') = c /\ c \in Nat /\ c >= 2
      /\ \A e \in 1 .. Len(ctxt) : ctxt'[e] = ctxt[e]
      /\ ctxt'[c] = row
  BY <1>1
<1>8. Kept(g)
  BY <1>1, <1>4, <1>5, <1>7 DEF Kept, Instance
<1>9. \A e \in 2 .. Len(ctxt), o \in Origin : ctxt[e][o] # n
  <2>1. SUFFICES ASSUME NEW e \in 2 .. Len(ctxt), NEW o \in Origin, ctxt[e][o] = n PROVE FALSE
    OBVIOUS
  <2>2. e \in 1 .. Len(ctxt) /\ e # Nil /\ e >= 2
    BY <1>1 DEF Nil
  <2>3. RecordsOwn(e, o)
    BY <2>2 DEF TypesInv
  <2> QED
    BY <1>1, <2>1, <2>2, <2>3 DEF RecordsOwn
<1>10. ASSUME NEW m \in Instance PROVE MethodsInv(inst[m])'
  <2>1. MethodsInv(inst[m])
    BY DEF TypesInv
  <2>2. MethodsInv(inst'[m])
    <3>1. CASE m = n
      BY <1>2, <1>4, <2>1, <3>1 DEF MethodsInv, Expanded
    <3>2. CASE m # n
      BY <1>5, <2>1, <3>2
    <3> QED
      BY <3>1, <3>2
  <2> QED
    BY <2>2 DEF MethodsInv, Expanded
<1>11. ASSUME NEW m \in Instance PROVE OwnContext(m)'
  <2>1. CASE m = n
    <3>1. inst'[m].ctxt = c /\ c \in 2 .. Len(ctxt') /\ inst'[m].orig = inst[n].orig
      BY <1>2, <1>4, <1>7, <2>1
    <3>2. inst[n].orig \in Origin
      BY <1>1 DEF Type
    <3>3. ctxt'[c][inst[n].orig] = n
      BY <1>7, <3>2
    <3> QED
      BY <2>1, <3>1, <3>3 DEF OwnContext, InContext
  <2>2. CASE m # n
    <3>1. OwnContext(m) /\ inst'[m] = inst[m]
      BY <1>5, <2>2 DEF TypesInv
    <3>2. SUFFICES ASSUME inst[m].ctxt # Nil
                   PROVE  inst[m].ctxt \in 2 .. Len(ctxt') /\ ctxt'[inst[m].ctxt][inst[m].orig] = m
      BY <3>1 DEF OwnContext, InContext
    <3>3. inst[m].ctxt \in 2 .. Len(ctxt) /\ ctxt[inst[m].ctxt][inst[m].orig] = m
      BY <3>1, <3>2 DEF OwnContext, InContext
    <3>4. ctxt'[inst[m].ctxt] = ctxt[inst[m].ctxt] /\ inst[m].ctxt \in 2 .. Len(ctxt')
      BY <1>1, <1>7, <3>3
    <3> QED
      BY <3>3, <3>4
  <2> QED
    BY <2>1, <2>2
<1>12. ASSUME NEW m \in Instance PROVE ReachInv(m)'
  <2>1. Reached(m)' = Reached(m)
    <3>1. Reached(m)' = {inst'[m].refs[k] : k \in DOMAIN inst'[m].refs}
             \cup UNION {{inst'[m].methods[i].refs[k] : k \in DOMAIN inst'[m].methods[i].refs} :
                           i \in DOMAIN inst'[m].methods}
      BY DEF Reached
    <3> QED
      BY <1>5, <3>1 DEF Reached
  <2>2. ASSUME NEW l \in Reached(m) PROVE l \in Instance' /\ Together(m, l)'
    <3>1. l \in Instance /\ Together(m, l)
      BY DEF TypesInv, ReachInv
    <3>2. PICK e \in 2 .. Len(ctxt) : ctxt[e][inst[m].orig] = m /\ ctxt[e][inst[l].orig] = l
      BY <3>1 DEF Together
    <3>3. e \in 2 .. Len(ctxt') /\ ctxt'[e] = ctxt[e]
      BY <1>1, <1>7
    <3> QED
      BY <1>4, <1>5, <3>1, <3>2, <3>3 DEF Together
  <2> QED
    BY <2>1, <2>2 DEF ReachInv
<1>13. ASSUME NEW e \in 1 .. Len(ctxt'), NEW o \in Origin PROVE RecordsOwn(e, o)'
  <2>1. CASE e = c
    <3>1. ctxt'[e][o] = IF o = inst[n].orig THEN n ELSE Nil
      BY <1>7, <2>1
    <3> QED
      BY <1>2, <1>4, <2>1, <3>1 DEF RecordsOwn
  <2>2. CASE e # c
    <3>1. e \in 1 .. Len(ctxt) /\ ctxt'[e][o] = ctxt[e][o]
      BY <1>1, <1>7, <2>2
    <3>2. RecordsOwn(e, o) /\ (e >= 2 => ctxt[e][o] # n)
      BY <1>1, <1>9, <3>1 DEF TypesInv
    <3> QED
      BY <1>4, <1>5, <3>1, <3>2 DEF RecordsOwn
  <2> QED
    BY <2>1, <2>2
<1>14. ASSUME NEW e \in 2 .. Len(ctxt'), NEW f \in 2 .. Len(ctxt'), NEW o \in Origin
       PROVE  RecordsOnce(e, f, o)'
  <2>1. ASSUME NEW h \in 2 .. Len(ctxt'), h # c
        PROVE  h \in 2 .. Len(ctxt) /\ ctxt'[h][o] = ctxt[h][o] /\ ctxt'[h][o] # n
    <3>1. h \in 2 .. Len(ctxt) /\ h \in 1 .. Len(ctxt)
      BY <1>1, <1>7, <2>1
    <3> QED
      BY <1>7, <1>9, <3>1
  <2>2. ctxt'[c][o] \in {n, Nil}
    BY <1>7
  <2>3. CASE e = c \/ f = c
    BY <2>1, <2>2, <2>3 DEF RecordsOnce
  <2>4. CASE e # c /\ f # c
    <3>1. RecordsOnce(e, f, o)
      BY <2>1, <2>4 DEF TypesInv
    <3> QED
      BY <2>1, <2>4, <3>1 DEF RecordsOnce
  <2> QED
    BY <2>3, <2>4
<1>15. ASSUME NEW r \in results' PROVE ResultInv(r)'
  BY <1>4, <1>5 DEF TypesInv, ResultInv
<1>16. TypesInv'
  BY <1>4, <1>10, <1>11, <1>12, <1>13, <1>14, <1>15 DEF TypesInv
<1> QED
  BY <1>0, <1>4, <1>7, <1>8, <1>16

\* A type that is expanded is recorded in its own context; the assertion of
\* expandUnderlying holds.
LEMMA ExpandHolds ==
    ASSUME ProgramOK, IInv, NEW g \in Goroutine, Expand(g) PROVE IInv'
<1>0. PICK n : n = N(g)
  OBVIOUS
<1>1. /\ pc[g] = "expand" /\ op[g].op \in {"Underlying", "Method"}
      /\ inst[n].mu = g /\ inst[n].state = "unresolved" /\ done[g] = <<>>
  BY <1>0 DEF Expand, IInv, CallInv, OpInv, MutexInv, Holds, StateInv, Resolving, DoneInv, Substituting
<1>2. n \in Instance /\ inst[n] \in Type /\ OwnContext(n)
  BY <1>0, <1>1, OfCall
<1>3. VarTypes /\ TypesInv /\ inst[n].orig \in Origin /\ URefs[inst[n].orig] \in Seq(Origin)
  BY <1>2 DEF IInv, Type, ProgramOK
<1>4. PICK c, new : /\ new <=> inst[n].ctxt = Nil
                    /\ c = IF inst[n].ctxt = Nil THEN Len(ctxt) + 1 ELSE inst[n].ctxt
  OBVIOUS
<1>5. /\ todo' = [todo EXCEPT ![g] = URefs[inst[n].orig]]
      /\ op' = [op EXCEPT ![g].part = "underlying"]
      /\ origin' = origin /\ done' = done /\ known' = known /\ funcs' = funcs
      /\ results' = results
      /\ inst' = [inst EXCEPT ![n].ctxt = c]
      /\ Goto(g, IF ctxt'[c][inst[n].orig] = n THEN "subst" ELSE "assertion failed")
  BY <1>0, <1>4 DEF Expand
<1>6. /\ inst' \in Seq(Type) /\ Instance' = Instance
      /\ inst'[n].ctxt = c /\ c # Nil
      /\ inst'[n].orig = inst[n].orig /\ inst'[n].mu = g /\ inst'[n].state = "unresolved"
      /\ inst'[n].methods = inst[n].methods
      /\ ctxt' \in Seq([Origin -> Nat]) /\ Len(ctxt') >= 1 /\ ctxt'[c][inst[n].orig] = n
      /\ Kept(g) /\ TypesInv'
  <2>1. CASE inst[n].ctxt = Nil
    <3> DEFINE nils == [o \in Origin |-> Nil]
               row == [o \in Origin |-> IF o = inst[n].orig THEN n ELSE Nil]
    <3>1. c = Len(ctxt) + 1 /\ Len(ctxt) \in Nat /\ ctxt \in Seq([Origin -> Nat])
      BY <1>3, <1>4, <2>1 DEF VarTypes
    <3>2. ctxt' = [Append(ctxt, nils) EXCEPT
                     ![c][inst[n].orig] = IF @ = Nil THEN n ELSE @]
      BY <1>0, <2>1, <3>1 DEF Expand
    <3>3. nils \in [Origin -> Nat] /\ row \in [Origin -> Nat]
      BY <1>2, Elements, <1>3 DEF Nil
    <3>4. Append(ctxt, nils)[c] = nils /\ Append(ctxt, nils) \in Seq([Origin -> Nat])
          /\ Len(Append(ctxt, nils)) = c
      BY <3>1, <3>3, Appended
    <3>5. ctxt' = [Append(ctxt, nils) EXCEPT ![c] = row]
      <4>1. [nils EXCEPT ![inst[n].orig] = n] = row
        BY <1>3
      <4>2. nils[inst[n].orig] = Nil
        BY <1>3
      <4> QED
        BY <3>2, <3>4, <4>1, <4>2
    <3>6. /\ ctxt' \in Seq([Origin -> Nat]) /\ Len(ctxt') = c
          /\ \A e \in 1 .. Len(ctxt) : ctxt'[e] = ctxt[e]
          /\ ctxt'[c] = row
      <4> DEFINE S == [Origin -> Nat]
                 app == Append(ctxt, nils)
      <4>1. app \in Seq(S) /\ Len(app) = c /\ row \in S /\ c \in 1 .. Len(app)
            /\ \A e \in 1 .. Len(ctxt) : app[e] = ctxt[e] /\ e # c
        BY <3>1, <3>3, <3>4, Appended
      <4> HIDE DEF S, app, row
      <4>2. /\ [app EXCEPT ![c] = row] \in Seq(S) /\ Len([app EXCEPT ![c] = row]) = c
            /\ \A e \in 1 .. c : [app EXCEPT ![c] = row][e] = IF e = c THEN row ELSE app[e]
        BY <4>1, ExceptSeq
      <4>3. ctxt' = [app EXCEPT ![c] = row]
        BY <3>5 DEF app
      <4>4. \A e \in 1 .. Len(ctxt) : e \in 1 .. c /\ e # c
        BY <3>1
      <4>5. c \in 1 .. c
        BY <3>1
      <4> QED
        BY <4>1, <4>2, <4>3, <4>4, <4>5 DEF S
    <3>7. inst[n].mu \notin Goroutine \ {g}
      BY <1>1
    <3>8. PICK r : r = row
      OBVIOUS
    <3>9. /\ inst' \in Seq(Type) /\ Instance' = Instance
          /\ inst'[n] = [inst[n] EXCEPT !.ctxt = c]
          /\ Kept(g) /\ TypesInv'
      <4>1. r = [o \in Origin |-> IF o = inst[n].orig THEN n ELSE Nil] /\ ctxt'[c] = r
        BY <3>6, <3>8
      <4> HIDE DEF row
      <4>2. /\ VarTypes /\ TypesInv /\ n \in Instance
            /\ inst[n].ctxt = Nil /\ inst[n].state = "unresolved"
            /\ inst[n].mu \notin Goroutine \ {g} /\ c = Len(ctxt) + 1
            /\ inst' = [inst EXCEPT ![n].ctxt = c] /\ results' = results
            /\ ctxt' \in Seq([Origin -> Nat]) /\ Len(ctxt') = c
            /\ \A e \in 1 .. Len(ctxt) : ctxt'[e] = ctxt[e]
        BY <1>1, <1>2, <1>3, <1>5, <2>1, <3>1, <3>6, <3>7
      <4> QED
        BY <4>1, <4>2, NewContext
    <3>10. ctxt'[c][inst[n].orig] = n /\ c >= 1 /\ c # Nil
      BY <1>3, <3>1, <3>6 DEF Nil
    <3>11. /\ inst'[n].ctxt = c /\ inst'[n].orig = inst[n].orig /\ inst'[n].mu = g
           /\ inst'[n].state = "unresolved" /\ inst'[n].methods = inst[n].methods
      BY <1>1, <1>2, <3>9 DEF Type
    <3> QED
      BY <3>6, <3>9, <3>10, <3>11
  <2>2. CASE inst[n].ctxt # Nil
    <3>1. c = inst[n].ctxt /\ c \in 2 .. Len(ctxt) /\ ctxt[c][inst[n].orig] = n
      BY <1>2, <1>4, <2>2 DEF OwnContext, InContext
    <3>2. n # Nil
      BY <1>2, <1>3, Elements
    <3>3. ctxt' = [ctxt EXCEPT ![c][inst[n].orig] = IF @ = Nil THEN n ELSE @]
      BY <1>0, <2>2, <3>1 DEF Expand
    <3>4. ctxt' = ctxt
      <4>1. ctxt \in Seq([Origin -> Nat]) /\ c \in DOMAIN ctxt /\ ctxt[c] \in [Origin -> Nat]
        BY <1>3, <3>1 DEF VarTypes
      <4>2. ctxt' = [ctxt EXCEPT ![c] = [ctxt[c] EXCEPT ![inst[n].orig] = n]]
        BY <3>1, <3>2, <3>3
      <4>3. [ctxt[c] EXCEPT ![inst[n].orig] = n] = ctxt[c]
        BY <1>3, <3>1, <4>1
      <4> QED
        BY <4>1, <4>2, <4>3
    <3>5. inst' = inst
      <4>1. inst \in Seq(Type) /\ n \in DOMAIN inst
        BY <1>2, <1>3 DEF VarTypes, Instance
      <4>2. [inst[n] EXCEPT !.ctxt = c] = inst[n]
        BY <1>2, <3>1 DEF Type
      <4>3. inst' = [inst EXCEPT ![n] = inst[n]]
        BY <1>5, <4>2
      <4> QED
        BY <4>1, <4>3
    <3>6. Kept(g) /\ TypesInv'
      BY <1>3, <1>5, <3>4, <3>5, SameTypes
    <3> QED
      BY <1>1, <1>3, <2>2, <3>1, <3>4, <3>5, <3>6 DEF VarTypes, Instance
  <2> QED
    BY <2>1, <2>2
<1>7. Goto(g, "subst") /\ "subst" \in Label
  BY <1>5, <1>6 DEF Label
<1>8. VarTypes'
  <2>1. op' \in [Goroutine -> CallOf] /\ todo' \in [Goroutine -> Seq(Origin)]
    BY <1>3, <1>5 DEF VarTypes, CallOf
  <2>2. pc' \in [Goroutine -> Label]
    BY <1>3, <1>7 DEF VarTypes, Goto
  <2>3. known' \subseteq Instance'
    BY <1>3, <1>5, <1>6 DEF VarTypes
  <2> QED
    BY <1>3, <1>5, <1>6, <2>1, <2>2, <2>3 DEF VarTypes
<1>9. /\ pc'[g] = "subst" /\ op'[g].op = op[g].op /\ op'[g].n = n /\ op'[g].i = op[g].i
      /\ op'[g].part = "underlying" /\ done'[g] = <<>> /\ DOMAIN done'[g] = {}
  BY <1>0, <1>1, <1>3, <1>5, <1>7 DEF VarTypes, Goto, CallOf, N
<1>10. CallInv(g)'
  <2>1. N(g)' = n /\ NumMethods(n)' = NumMethods(n)
    BY <1>6, <1>9 DEF N, NumMethods
  <2>2. OpInv(g)'
    BY <1>0, <1>1, <1>2, <1>6, <1>9, <2>1 DEF IInv, CallInv, OpInv, Expanding, Substituting
  <2>3. MutexInv(g)' /\ StateInv(g)'
    BY <1>6, <1>9, <2>1 DEF MutexInv, StateInv, Expanding, Substituting, Resolving, PastResolve
  <2>4. DoneInv(g)'
    BY <1>1, <1>9 DEF DoneInv, Substituting
  <2> QED
    BY <2>2, <2>3, <2>4 DEF CallInv
<1>11. \A d \in Goroutine \ {g} : Still(d)
  BY <1>3, <1>5, <1>7 DEF Still, VarTypes, Goto
<1> QED
  BY <1>6, <1>8, <1>10, <1>11, Moved

-----------------------------------------------------------------------------
(* The theorems.                                                             *)

\* Every step of every goroutine preserves the invariant.
LEMMA NextHolds == ASSUME ProgramOK, IInv, [Next]_vars PROVE IInv'
<1>1. CASE Next
  <2>1. PICK g \in Goroutine : Call(g) \/ Step(g)
    BY <1>1 DEF Next
  <2>2. CASE Call(g)
    BY <2>2, CallInstantiateHolds, CallUnderlyingHolds, CallMethodHolds DEF Call
  <2>3. CASE Step(g)
    <3>1. CASE ResolveFast(g) \/ Lock(g) \/ ResolveOrigin(g) \/ LockOrigin(g) \/ Load(g) \/ Expand(g)
      BY <3>1, ResolveFastHolds, LockHolds, ResolveOriginHolds, LockOriginHolds, LoadHolds,
         ExpandHolds
    <3>2. CASE Lookup(g) \/ Update(g) \/ Substituted(g)
      BY <3>2, LookupHolds, UpdateHolds, SubstitutedHolds
    <3>3. CASE Store(g) \/ Publish(g) \/ Unlock(g) \/ Underlying(g)
      BY <3>3, StoreHolds, PublishHolds, UnlockHolds, UnderlyingHolds
    <3>4. CASE MethodFast(g) \/ MethodLock(g) \/ StoreMethod(g) \/ CompleteMethods(g)
      BY <3>4, MethodFastHolds, MethodLockHolds, StoreMethodHolds, CompleteMethodsHolds
    <3> QED
      BY <2>3, <3>1, <3>2, <3>3, <3>4 DEF Step
  <2> QED
    BY <2>1, <2>2, <2>3
<1>2. CASE UNCHANGED vars
  <2>1. VarTypes'
    BY <1>2 DEF vars, IInv, VarTypes, Instance
  <2>2. ASSUME NEW g \in Goroutine PROVE CallInv(g)'
    <3>1. CallInv(g)
      BY DEF IInv
    <3> QED
      BY <1>2, <3>1 DEF vars, CallInv, OpInv, MutexInv, Holds, StateInv, DoneInv, Expanding, Substituting,
         Resolving, PastResolve, InContext, Instance, N, NumMethods
  <2>3. TypesInv'
    <3>1. \A r \in results' : r \in results \/ ResultInv(r)
      BY <1>2 DEF vars
    <3> QED
      BY <1>2, <3>1, SameTypes DEF vars, IInv
  <2> QED
    BY <2>1, <2>2, <2>3 DEF IInv
<1> QED
  BY <1>1, <1>2

\* The invariant of the expansion: it is inductive for any number of goroutines
\* and any program of generic types.
THEOREM Invariance == ASSUME ProgramOK PROVE Spec => []IInv
<1>1. Init => IInv
  BY InitHolds
<1>2. IInv /\ [Next]_vars => IInv'
  BY NextHolds
<1> QED
  BY <1>1, <1>2, PTL DEF Spec

\* Types refer to types, contexts record types, the counter of expanded methods
\* stays within the methods.
THEOREM TypeCorrect == ASSUME ProgramOK PROVE Spec => []TypeOK
<1>1. ASSUME IInv PROVE TypeOK
  <2>1. \A o \in Origin : origin[o].mu \in Goroutine \cup {NoGoroutine}
    BY <1>1 DEF IInv, VarTypes, Mutex
  <2>2. ASSUME NEW n \in Instance
        PROVE  /\ inst[n].orig \in Origin /\ inst[n].ctxt \in 0 .. Len(ctxt)
               /\ inst[n].state \in States /\ inst[n].mu \in Goroutine \cup {NoGoroutine}
               /\ inst[n].expanded \in 0 .. NumMethods(n)
               /\ \A k \in DOMAIN inst[n].refs : inst[n].refs[k] \in Instance
    <3>1. /\ inst[n] \in Type /\ MethodsInv(inst[n]) /\ OwnContext(n) /\ ReachInv(n)
          /\ Len(ctxt) \in Nat
      BY <1>1, Elements DEF IInv, TypesInv
    <3>2. inst[n].ctxt \in 0 .. Len(ctxt)
      BY <3>1 DEF OwnContext, Nil, Type
    <3>3. inst[n].expanded \in 0 .. NumMethods(n)
      <4>1. inst[n].expanded \in 0 .. Len(inst[n].methods)
        BY <3>1, ExpandedFinite DEF MethodsInv
      <4>2. NumMethods(n) \in Nat /\ Len(inst[n].methods) \in {0, NumMethods(n)}
        BY <1>1, <3>1, Methods DEF IInv, MethodsInv, NumMethods
      <4> QED
        BY <4>1, <4>2
    <3> QED
      BY <3>1, <3>2, <3>3 DEF Type, Mutex, ReachInv, Reached
  <2>3. ASSUME NEW c \in DOMAIN ctxt PROVE ctxt[c] \in [Origin -> 0 .. Len(inst)]
    <3>1. /\ c \in 1 .. Len(ctxt) /\ ctxt[c] \in [Origin -> Nat] /\ Instance = 1 .. Len(inst)
          /\ Len(inst) \in Nat
      BY <1>1, Elements DEF IInv
    <3>2. \A o \in Origin : ctxt[c][o] \in 0 .. Len(inst)
      BY <1>1, <3>1 DEF IInv, TypesInv, RecordsOwn, Nil
    <3> QED
      BY <3>1, <3>2
  <2> QED
    BY <1>1, <2>1, <2>2, <2>3 DEF TypeOK, IInv, VarTypes
<1> QED
  BY <1>1, Invariance, PTL

\* No assertion of the expansion fails, and whoever reads a type without its
\* mutex finds what the state promises.
THEOREM ReadsReady == ASSUME ProgramOK PROVE Spec => [](ReadsAreReady /\ AssertionsHold)
<1>1. ASSUME IInv PROVE AssertionsHold
  BY <1>1 DEF IInv, VarTypes, Label, AssertionsHold
<1>2. ASSUME IInv PROVE ReadsAreReady
  <2>1. ASSUME NEW g \in Goroutine, pc[g] \in {"under", "method"} PROVE inst[N(g)].under # Nil
    <3>1. op[g].op \in {"Underlying", "Method"} /\ inst[N(g)].state # "unresolved"
      BY <1>2, <2>1 DEF IInv, CallInv, OpInv, StateInv, PastResolve
    <3>2. MethodsInv(inst[N(g)])
      BY <1>2, <2>1, <3>1, OfCall
    <3> QED
      BY <3>1, <3>2 DEF MethodsInv
  <2>2. \A r \in results : r[3] # NoFunc
    BY <1>2 DEF IInv, TypesInv, ResultInv
  <2> QED
    BY <2>1, <2>2 DEF ReadsAreReady
<1> QED
  BY <1>1, <1>2, Invariance, PTL

\* The contexts of a type and of what it refers to are one: the references of
\* its references are recorded with it.
LEMMA NearIsTogether ==
    ASSUME IInv, NEW n \in Instance, NEW l, NEW m \in Reached(n), l \in Reached(m)
    PROVE  \E c \in 2 .. Len(ctxt) : /\ ctxt[c][inst[n].orig] = n
                                     /\ ctxt[c][inst[m].orig] = m
                                     /\ ctxt[c][inst[l].orig] = l
<1>1. m \in Instance /\ Together(n, m) /\ l \in Instance /\ Together(m, l)
  BY DEF IInv, TypesInv, ReachInv
<1>2. PICK c \in 2 .. Len(ctxt) : ctxt[c][inst[n].orig] = n /\ ctxt[c][inst[m].orig] = m
  BY <1>1 DEF Together
<1>3. PICK d \in 2 .. Len(ctxt) : ctxt[d][inst[m].orig] = m /\ ctxt[d][inst[l].orig] = l
  BY <1>1 DEF Together
<1>4. inst[m].orig \in Origin /\ m # Nil
  BY <1>1, Elements DEF IInv, Type
<1>5. c = d
  BY <1>2, <1>3, <1>4 DEF IInv, TypesInv, RecordsOnce
<1> QED
  BY <1>2, <1>3, <1>5

\* Methods are one *Func each, and references lead back to one instance.
THEOREM Canonical == ASSUME ProgramOK PROVE Spec => [](MethodsAreCanonical /\ CyclesClose)
<1>1. ASSUME IInv PROVE MethodsAreCanonical
  BY <1>1 DEF IInv, TypesInv, ResultInv, MethodsAreCanonical
<1>2. ASSUME IInv PROVE CyclesClose
  <2>1. SUFFICES ASSUME NEW n \in Instance,
                        NEW l \in {n} \cup Reached(n) \cup UNION {Reached(m) : m \in {n} \cup Reached(n)},
                        NEW m \in {n} \cup Reached(n) \cup UNION {Reached(k) : k \in {n} \cup Reached(n)},
                        inst[l].orig = inst[m].orig
                 PROVE  l = m
    BY DEF CyclesClose
  <2>2. ASSUME NEW k \in {n} \cup Reached(n) \cup UNION {Reached(j) : j \in {n} \cup Reached(n)}
        PROVE  \/ k = n
               \/ \E c \in 2 .. Len(ctxt) : ctxt[c][inst[n].orig] = n /\ ctxt[c][inst[k].orig] = k
    <3>1. CASE k \in {n} \cup Reached(n)
      BY <1>2, <3>1 DEF IInv, TypesInv, ReachInv, Together
    <3>2. CASE k \notin {n} \cup Reached(n)
      <4>1. PICK j \in Reached(n) : k \in Reached(j)
        BY <3>2
      <4> QED
        BY <1>2, <4>1, NearIsTogether
    <3> QED
      BY <3>1, <3>2
  <2>3. inst[n].orig \in Origin /\ n # Nil
    BY <1>2, Elements DEF IInv, Type
  <2>4. \A c, d \in 2 .. Len(ctxt) :
           ctxt[c][inst[n].orig] = n /\ ctxt[d][inst[n].orig] = n => c = d
    BY <1>2, <2>3 DEF IInv, TypesInv, RecordsOnce
  <2>5. CASE l = n /\ m = n
    BY <2>5
  <2>6. CASE ~ (l = n /\ m = n)
    <3>1. PICK c \in 2 .. Len(ctxt) :
             ctxt[c][inst[n].orig] = n /\ (ctxt[c][inst[l].orig] = l \/ ctxt[c][inst[m].orig] = m)
      BY <2>2, <2>6
    <3>2. ctxt[c][inst[l].orig] = l /\ ctxt[c][inst[m].orig] = m
      BY <2>2, <2>4, <3>1
    <3> QED
      BY <2>1, <3>2
  <2> QED
    BY <2>5, <2>6
<1> QED
  BY <1>1, <1>2, Invariance, PTL
================================================================================
