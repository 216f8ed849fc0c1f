------------------------------ MODULE ValidType ------------------------------
(***************************************************************************)
(* Types that contain themselves (types/validtype.go).                     *)
(*                                                                         *)
(* A program D gives every type name its number of type parameters, and    *)
(* the types of the fields of its struct. A struct is embedded in the      *)
(* memory of what contains it; behind a pointer it is not. The type        *)
(* arguments of an instance are not substituted: a type parameter is       *)
(* looked up in the instance at the end of the nest.                       *)
(*                                                                         *)
(* The nest and the path are Go slices, an array in s.heap and a length:   *)
(* what is appended to a shorter slice of the array overwrites the longer. *)
(***************************************************************************)
EXTENDS Naturals, Sequences, FiniteSets, SequencesExt

Typ(k, name, i, args) == [k |-> k, name |-> name, i |-> i, args |-> args]
Basic == Typ("Basic", "int", 0, <<>>)
Pointer(base) == Typ("Pointer", "", 0, <<base>>)
Named(name, args) == Typ("Named", name, 0, args)
TypeParam(of, i) == Typ("TypeParam", of, i, <<>>)    \* the i-th one of the type of

\* The type as it is declared, whose arguments are its parameters.
Origin(t) == Named(t.name, <<>>)

\* s.underlying are the types whose underlying type is set, s.invalid those
\* where it is the invalid one, s.errs the cycles that are reported.
Start == [heap |-> <<>>, underlying |-> {}, invalid |-> {}, errs |-> <<>>]
Nil == [array |-> 0, len |-> 0]
At(s, slice) == SubSeq(s.heap[slice.array], 1, slice.len)
ListOf(s, slice) == IF slice.len = 0 THEN <<>> ELSE At(s, slice)

\* append(slice, t): in place if there is room, else in an array of twice the size.
Appended(s, slice, t) ==
    LET old == ListOf(s, slice)
        room == slice.array # 0 /\ slice.len < Len(s.heap[slice.array])
        size == IF slice.array = 0 THEN 1 ELSE 2 * Len(s.heap[slice.array])
        array == IF room THEN slice.array ELSE Len(s.heap) + 1
    IN [s |-> [s EXCEPT !.heap = IF room THEN [@ EXCEPT ![array][slice.len + 1] = t]
                                 ELSE Append(@, [n \in 1 .. size |-> IF n <= slice.len THEN old[n] ELSE t])],
        slice |-> [array |-> array, len |-> slice.len + 1]]

\* Named.Underlying sets the underlying type of an instance to that of its origin.
Underlying(s, t) ==
    IF t \in s.underlying THEN s
    ELSE [s EXCEPT !.underlying = @ \cup {t},
                   !.invalid = IF Origin(t) \in @ THEN @ \cup {t} ELSE @]

cycleError(s, t, path) ==
    LET list == ListOf(s, path)
        starts == {n \in DOMAIN list : list[n] = t}
        start == CHOOSE n \in starts : \A m \in starts : n <= m
    IN [s EXCEPT !.invalid = @ \cup {t, Origin(t)},
                 !.underlying = @ \cup {t, Origin(t)},
                 !.errs = Append(@, IF starts = {} THEN "panic: cycle start not found"
                                    ELSE SubSeq(list, start, Len(list)))]

\* Mutants: the entry that the check of a type argument overwrote is not
\* restored; the argument is looked up in the nest of the parameter.
Keep(s, nest, inst) == s
WholeNest(nest) == nest

\* "Restore the entry (was issue go.dev/issue/66323)."
Restored(s, nest, inst) == [s EXCEPT !.heap[nest.array][nest.len] = inst]
\* "We must check targ's validity in the type nest excluding the current (instantiated) type."
Enclosing(nest) == [nest EXCEPT !.len = @ - 1]

Res(s, ok) == [s |-> s, ok |-> ok]
RECURSIVE validType0(_, _, _, _, _)
validFields(s, D, fields, nest, path) ==
    FoldLeft(LAMBDA r, f : IF r.ok THEN validType0(r.s, D, f, nest, path) ELSE r, Res(s, TRUE), fields)
validNamed(s0, D, t, nest, path) ==
    LET s == Underlying(s0, t)
        n == Appended(s, nest, t)
        p == Appended(n.s, path, t)
    IN IF t \in s.invalid THEN Res(s, FALSE)
       ELSE IF \E e \in DOMAIN ListOf(s, nest) : ListOf(s, nest)[e] = t THEN Res(cycleError(s, t, path), FALSE)
       ELSE validFields(p.s, D, D[t.name].fields, n.slice, p.slice)
validParam(s, D, t, nest, path) ==
    LET inst == s.heap[nest.array][nest.len]
        r == validType0(s, D, inst.args[t.i], Enclosing(nest), path)
    IN IF nest.len = 0 \/ inst.name # t.name \/ t.i > Len(inst.args) THEN Res(s, TRUE)
       ELSE Res(Restored(r.s, nest, inst), r.ok)
validType0(s, D, t, nest, path) ==
    CASE t.k = "Named" -> validNamed(s, D, t, nest, path)
      [] t.k = "TypeParam" -> validParam(s, D, t, nest, path)
      [] OTHER -> Res(s, TRUE)

validType(s, D, t) == validType0(s, D, t, Nil, Nil).s

-----------------------------------------------------------------------------
(* The order of the checks: those of a declared type and of the instances    *)
(* in it are delayed, when they are come across.                             *)

Todo(declared, later) == [declared |-> declared, later |-> later]
RECURSIVE typeDecl(_, _, _)
RECURSIVE instantiatedType(_, _, _)
instantiatedType(todo, D, t) ==
    LET generic == IF t.k = "Named" THEN typeDecl(todo, D, t.name) ELSE todo
        args == FoldLeft(LAMBDA acc, u : instantiatedType(acc, D, u), generic, t.args)
    IN IF t.k = "Named" /\ t.args # <<>> THEN Todo(args.declared, Append(args.later, t)) ELSE args
typeDecl(todo, D, name) ==
    IF name \in todo.declared THEN todo
    ELSE FoldLeft(LAMBDA acc, f : instantiatedType(acc, D, f),
                  Todo(todo.declared \cup {name}, Append(todo.later, Named(name, <<>>))), D[name].fields)

\* All declarations, in the order of the source.
Order(D, names) == FoldLeft(LAMBDA acc, name : typeDecl(acc, D, name), Todo({}, <<>>), names).later
processDelayed(D, names) == FoldLeft(LAMBDA s, t : validType(s, D, t), Start, Order(D, names))

-----------------------------------------------------------------------------
(* What the check is for.                                                    *)

RECURSIVE Subst(_, _)
Subst(t, args) ==
    CASE t.k = "TypeParam" -> IF args = <<>> THEN Basic ELSE args[t.i]
      [] OTHER -> [t EXCEPT !.args = [n \in DOMAIN @ |-> Subst(@[n], args)]]

\* The memory of t, but for that of the types of Except, is nested more than depth times.
RECURSIVE Deep(_, _, _, _)
Deep(D, t, Except, depth) ==
    /\ t.k = "Named"
    /\ {t, Origin(t)} \cap Except = {}
    /\ \/ depth = 0
       \/ \E n \in DOMAIN D[t.name].fields : Deep(D, Subst(D[t.name].fields[n], t.args), Except, depth - 1)
MaxDepth == 10
Infinite(D, t, Except) == Deep(D, t, Except, MaxDepth)

\* "If a type appears in its own nest we have an invalid recursive type": a
\* cycle is reported if, and only if, there is one, and the types that become
\* invalid are infinite.
InfiniteTypesAreFound(D, names) ==
    LET s == processDelayed(D, names)
    IN /\ s.errs = <<>> <=> \A t \in ToSet(Order(D, names)) : ~Infinite(D, t, {})
       /\ \A t \in s.invalid : Infinite(D, t, {})
       /\ \A n \in DOMAIN s.errs : s.errs[n] # "panic: cycle start not found"
==============================================================================
