-------------------------------- MODULE Mono --------------------------------
(***************************************************************************)
(* Instantiation without end (types/mono.go): a generic function that      *)
(* instantiates itself, over others perhaps, with ever larger types.       *)
(*                                                                         *)
(* A program says how many type parameters each generic function has, in   *)
(* what order the scope of a function yields them ("range scope.elems"     *)
(* ranges over a map), which type a method belongs to, whose parameters    *)
(* its own stand for, and what is instantiated, in order: in one function, *)
(* another with type arguments. The checker builds a graph w of the type   *)
(* parameters and local types, with an edge for each type that flows into  *)
(* a parameter, and looks for a cycle of positive weight.                  *)
(***************************************************************************)
EXTENDS Naturals, Integers, Sequences, FiniteSets, SequencesExt

Typ(k, of, i, args) == [k |-> k, of |-> of, i |-> i, args |-> args]
Basic == Typ("Basic", "", 0, <<>>)
TypeParam(of, i) == Typ("TypeParam", of, i, <<>>)
Local(of) == Typ("Local", of, 0, <<>>)          \* the type that is declared in a function
Slice(elem) == Typ("Slice", "", 0, <<elem>>)
Named(of, args) == Typ("Named", of, 0, args)    \* an instance of a generic type of the package

Vertex(obj) == [weight |-> 0, pre |-> 1, len |-> 0, obj |-> obj]
Edge(dst, src, weight) == [dst |-> dst, src |-> src, weight |-> weight]
Empty == [vertices |-> <<>>, edges |-> <<>>]

IndexOf(w, obj) == SelectInSeq(w.vertices, LAMBDA v : v.obj = obj)
\* The vertex of obj, which is there.
WithVertex(w, obj) == IF IndexOf(w, obj) # 0 THEN w ELSE [w EXCEPT !.vertices = Append(@, Vertex(obj))]
addEdge(w, dst, src, weight) == [w EXCEPT !.edges = Append(@, Edge(IndexOf(w, dst), IndexOf(w, src), weight))]

\* Mutant: the parameters of a method are not those of its receiver.
Own(program, tpar) == tpar
\* "canon maps method receiver type parameters to their respective receiver type's type parameters."
Canonical(program, tpar) ==
    IF tpar.of \in DOMAIN program.receiver THEN [tpar EXCEPT !.of = program.receiver[tpar.of]] ELSE tpar
typeParamVertex(w, program, tpar) == WithVertex(w, Canonical(program, tpar))

\* A local type depends on all type parameters of its function.
localNamedVertex(w, program, t) ==
    IF IndexOf(w, t) # 0 THEN w
    ELSE FoldLeft(LAMBDA acc, i : LET p == Canonical(program, TypeParam(t.of, i))
                                  IN addEdge(WithVertex(acc, p), t, p, 1),
                  IF program.scope[t.of] = <<>> THEN w ELSE WithVertex(w, t), program.scope[t.of])

Weight(typ, targ) == IF typ = targ THEN 0 ELSE 1
Flow(w, program, tpar, src, typ, targ) ==
    addEdge(typeParamVertex(w, program, tpar), Canonical(program, tpar), src, Weight(typ, targ))

\* Walks the type argument targ, in which typ is.
RECURSIVE Walk(_, _, _, _, _)
Walk(w, program, tpar, typ, targ) ==
    LET src == IF typ.k = "TypeParam" THEN Canonical(program, typ) ELSE typ
        known == CASE typ.k = "TypeParam" -> typeParamVertex(w, program, typ)
                   [] typ.k = "Local" -> localNamedVertex(w, program, typ)
                   [] OTHER -> w
    IN FoldLeft(LAMBDA acc, t : Walk(acc, program, tpar, t, targ),
                IF IndexOf(known, src) # 0 THEN Flow(known, program, tpar, src, typ, targ) ELSE known, typ.args)
assign(w, program, tpar, targ) == Walk(w, program, tpar, targ, targ)
recordInstance(w, program, of, targs) ==
    FoldLeft(LAMBDA acc, i : assign(acc, program, TypeParam(of, i), targs[i]), w, [i \in DOMAIN targs |-> i])

\* Relaxes the edges from the n-th on; loop is the end of a path that is too long.
RECURSIVE Relaxed(_, _, _)
Relaxed(w, n, again) ==
    LET edge == w.edges[n]
        src == w.vertices[edge.src]  dst == w.vertices[edge.dst]
        weight == src.weight + edge.weight
        to == [dst EXCEPT !.pre = n, !.len = src.len + 1]
        with(v) == [w EXCEPT !.vertices[edge.dst] = v]
    IN CASE n > Len(w.edges) -> [w |-> w, again |-> again, loop |-> 0]
         [] n <= Len(w.edges) /\ weight <= dst.weight -> Relaxed(w, n + 1, again)
         [] OTHER -> IF to.len = Len(w.vertices) THEN [w |-> with(to), again |-> FALSE, loop |-> edge.dst]
                     ELSE Relaxed(with([to EXCEPT !.weight = weight]), n + 1, TRUE)
RECURSIVE FixedPoint(_)
FixedPoint(w) ==
    LET r == Relaxed(w, 1, FALSE) IN IF r.again THEN FixedPoint(r.w) ELSE r

\* Walks backwards along the path to v, until a vertex appears twice.
RECURSIVE Backwards(_, _, _)
Backwards(w, v, stack) ==
    IF Contains(stack, v) THEN SubSeq(stack, SelectInSeq(stack, LAMBDA u : u = v), Len(stack))
    ELSE Backwards(w, w.edges[w.vertices[v].pre].src, Append(stack, v))
reportInstanceLoop(w, v) == Backwards(w, v, <<>>)

\* The cycle that is reported, and the graph; there is none if the cycle is empty.
monomorph(program) ==
    LET w == FoldLeft(LAMBDA acc, x : recordInstance(acc, program, x.of, x.targs), Empty, program.instances)
        r == FixedPoint(w)
    IN [w |-> r.w, cycle |-> IF r.loop = 0 THEN <<>> ELSE reportInstanceLoop(r.w, r.loop)]

-----------------------------------------------------------------------------
(* Static instantiation.                                                     *)

RECURSIVE DepthOf(_)
DepthOf(t) == IF t.args = <<>> THEN 0 ELSE 1 + Max({DepthOf(t.args[n]) : n \in DOMAIN t.args})

\* t in an instance of its function: a local type is another one in each.
RECURSIVE Subst(_, _)
Subst(t, args) ==
    CASE t.k = "TypeParam" -> args[t.i]
      [] t.k = "Local" -> [t EXCEPT !.args = args]
      [] OTHER -> [t EXCEPT !.args = [n \in DOMAIN @ |-> Subst(@[n], args)]]

\* The instances that a set of them needs; the methods of a type are instantiated with it.
Owner(program, f) == IF f \in DOMAIN program.receiver THEN program.receiver[f] ELSE f
Needed(program, known) ==
    known \cup {<<x.of, [i \in DOMAIN x.targs |-> Subst(x.targs[i], inst[2])]>> :
                    <<x, inst>> \in {<<y, k>> \in ToSet(program.instances) \X known : Owner(program, y.in) = k[1]}}
RECURSIVE Unbounded(_, _, _)
Unbounded(program, known, depth) ==
    LET next == Needed(program, known)
    IN IF \E inst \in next : \E i \in DOMAIN inst[2] : DepthOf(inst[2][i]) > depth THEN TRUE
       ELSE next # known /\ Unbounded(program, next, depth)

\* What is reported is a cycle of the graph, with a derived type.
IsLoop(r) ==
    LET edge(n) == r.w.edges[r.w.vertices[r.cycle[n]].pre]
        next(n) == r.cycle[(n % Len(r.cycle)) + 1]
    IN /\ \A n \in DOMAIN r.cycle : edge(n).dst = r.cycle[n] /\ edge(n).src = next(n)
       /\ \E n \in DOMAIN r.cycle : edge(n).weight = 1

\* "A package cannot be statically instantiated if the graph has any cycles
\* involving at least one derived type": there is an error exactly if some
\* instance of each function needs instances without end, and it shows such a cycle.
LoopsAreFound(program, depth) ==
    LET start == {<<f, [i \in DOMAIN program.scope[f] |-> Basic]>> : f \in DOMAIN program.scope \ DOMAIN program.receiver}
        r == monomorph(program)
    IN /\ r.cycle # <<>> <=> Unbounded(program, start, depth)
       /\ r.cycle # <<>> => IsLoop(r)
==============================================================================
