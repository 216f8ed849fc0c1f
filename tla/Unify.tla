--------------------------------- MODULE Unify ---------------------------------
(***************************************************************************)
(* Unification of types (types/unify.go).                                  *)
(*                                                                         *)
(* A type is a record [k, n, a] of its kind, a name and its parts:         *)
(*   "tparam"  the type parameter n                                        *)
(*   "basic"   the predeclared type n                                      *)
(*   "named"   the declared type n with type arguments a                   *)
(*   "chan"    a channel of direction n, "" for both, with its element     *)
(*   "iface"   an interface with the methods MethodNames[n], signatures a  *)
(*   "lit"     slices, maps, signatures, ...: the constructor n            *)
(*                                                                         *)
(* A unifier u has the handle of each bound type parameter and the type    *)
(* that is known for each handle; panic says that the limit of the depth   *)
(* has been reached.  Interfaces of constraints and cyclic declared types  *)
(* are left out.                                                           *)
(***************************************************************************)
EXTENDS Naturals, Sequences, FiniteSets, SequencesExt

CONSTANTS
    Under,        \* [declared type -> its underlying type, of the parameter Self]
    Declared,     \* [declared type -> its methods [name, sig]]
    MethodNames,  \* [name of an interface -> the names of its methods]
    CoreOf,       \* [type parameter that is never bound -> its core type, or NoType]
    DepthLimit    \* unificationDepthLimit

NoType == [k |-> "none", n |-> "none", a |-> <<>>]
Self == [k |-> "tparam", n |-> "Self", a |-> <<>>]

\* t with each type parameter p replaced by by[p].
RECURSIVE Substitute(_, _)
Substitute(t, by) ==
    IF t.k = "tparam" THEN IF t.n \in DOMAIN by /\ by[t.n] # NoType THEN by[t.n] ELSE t
    ELSE [t EXCEPT !.a = [i \in DOMAIN t.a |-> Substitute(t.a[i], by)]]

Instance(t, of) == IF of.a = <<>> THEN t ELSE Substitute(t, [p \in {"Self"} |-> of.a[1]])
UnderOf(t) == IF t.k = "named" THEN Instance(Under[t.n], t) ELSE t

IsTypeLit(t) == t.k \notin {"named", "tparam"}
IsInterface(t) == t.k # "tparam" /\ UnderOf(t).k = "iface"

\* The signature of the method m of t, NoType if there is none.
MethodOf(t, m) ==
    LET own == IF t.k = "named" THEN {d \in Declared[t.n] : d.name = m} ELSE {}
    IN  IF own = {} THEN NoType ELSE Instance((CHOOSE d \in own : TRUE).sig, t)

-----------------------------------------------------------------------------
(* The unifier.                                                              *)

newUnifier(tparams, targs) ==
    [handle |-> [p \in tparams |-> p], val |-> [p \in tparams |-> targs[p]], panic |-> FALSE]

Bound(u, t) == t.k = "tparam" /\ t.n \in DOMAIN u.handle
At(u, p) == u.val[u.handle[p]]
Set(u, p, t) == [u EXCEPT !.val[u.handle[p]] = t]

\* Mutant: only the handle of x is replaced.
SetOneHandle(u, x, h) == [u EXCEPT !.handle[x] = h]

\* Every parameter that shares the handle of x gets h.
SetHandle(u, x, h) ==
    [u EXCEPT !.handle = [p \in DOMAIN u.handle |-> IF u.handle[p] = u.handle[x] THEN h ELSE u.handle[p]]]

Result(ok, u) == [ok |-> ok, u |-> u]

Join(u, x, y) ==
    LET hx == u.handle[x]
        hy == u.handle[y]
    IN  CASE hx = hy -> Result(TRUE, u)
          [] hx # hy /\ u.val[hx] # NoType /\ u.val[hy] # NoType -> Result(FALSE, u)
          [] hx # hy /\ u.val[hx] # NoType /\ u.val[hy] = NoType -> Result(TRUE, SetHandle(u, y, hx))
          [] OTHER -> Result(TRUE, SetHandle(u, x, hy))

Unknowns(u) == Cardinality({p \in DOMAIN u.handle : At(u, p) = NoType})

\* Mutant: the type that is known is kept.
SelectKnown(x, y) == x

\* Of two types that match inexactly, x, which is known, and y, a declared type is kept, and
\* if there is none, a channel with a direction.
Select(x, y) ==
    IF x.k # "named" /\ (y.k = "named" \/ (UnderOf(y).k = "chan" /\ UnderOf(y).n # "")) THEN y ELSE x

\* Interfaces can share a type parameter only if they have the same methods.
SelectInterfaces(x, y) ==
    CASE IsInterface(x) /\ IsInterface(y) ->
            IF x.k = "named" /\ y.k = "named" THEN x = y
            ELSE Len(UnderOf(x).a) = Len(UnderOf(y).a)
      [] OTHER -> ~IsInterface(x) /\ ~IsInterface(y)

RECURSIVE Nify(_, _, _, _, _)

\* Pairs of parts, up to the first that fails.
NifyAll(u, pairs, mode, d) ==
    FoldLeft(LAMBDA r, xy : IF r.ok THEN Nify(r.u, xy[1], xy[2], mode, d) ELSE r,
             Result(TRUE, u), pairs)

NifyBound(u, x, y, mode, d) ==
    LET known == At(u, x.n)
        r == Nify(u, known, y, mode, d)
    IN  CASE Bound(u, y) ->
                LET j == Join(u, x.n, y.n)
                IN  IF j.ok THEN j ELSE Nify(u, known, At(u, y.n), mode, d)
          [] ~Bound(u, y) /\ known = NoType -> Result(TRUE, Set(u, x.n, y))
          [] OTHER -> IF ~r.ok \/ ~SelectInterfaces(known, y) THEN Result(FALSE, r.u)
                      ELSE IF "exact" \in mode \/ Select(known, y) # y THEN r
                      ELSE Result(TRUE, Set(r.u, x.n, y))

\* Interface inference: the methods of an interface, with those of another or of a type.
NifyInterfaces(u, x, y, d) ==
    LET i == UnderOf(IF IsInterface(y) THEN y ELSE x)
        t == IF IsInterface(y) THEN x ELSE y
        both == IsInterface(x) /\ IsInterface(y)
        j == UnderOf(t)
        few == IF both /\ Len(j.a) < Len(i.a) THEN j ELSE i
        many == IF few = i THEN j ELSE i
        names == MethodNames[few.n]
        Other(m) == IF ~both THEN MethodOf(t, names[m])
                    ELSE LET at == {l \in DOMAIN many.a : MethodNames[many.n][l] = names[m]}
                         IN  IF at = {} THEN NoType ELSE many.a[CHOOSE l \in at : TRUE]
        Visit(r, m) == CASE ~r.ok -> r
                         [] r.ok /\ Other(m) = NoType -> Result(FALSE, r.u)
                         [] OTHER -> Nify(r.u, few.a[m], Other(m), {"exact"}, d)
    IN  FoldLeft(Visit, Result(TRUE, u), [m \in DOMAIN few.a |-> m])

\* An unbound type parameter stands for the core type of its constraint.
NifyCore(u, x, y, d) ==
    IF CoreOf[x.n] = NoType THEN Result(FALSE, u) ELSE Nify(u, CoreOf[x.n], y, {"assign"}, d)

\* Type arguments unify even if the declared types have different origins.
NifyNamed(u, x, y, mode, d) ==
    LET args == NifyAll(u, Zip(x.a, y.a), mode, d) IN Result(args.ok /\ x.n = y.n, args.u)

\* x and y are neither the same nor bound type parameters; elements match exactly in an
\* assignment.
NifyTypes(u, x0, y0, mode, d) ==
    LET x == IF y0.k = "tparam" THEN y0 ELSE x0
        y == IF y0.k = "tparam" THEN x0 ELSE y0
        emode == IF "assign" \in mode THEN mode \cup {"exact"} ELSE mode
        same == x.k = y.k /\ Len(x.a) = Len(y.a)
        pairs == Zip(x.a, y.a)
    IN  CASE "exact" \notin mode /\ (IsInterface(x0) \/ IsInterface(y0)) -> NifyInterfaces(u, x0, y0, d)
          [] x.k = "tparam" -> NifyCore(u, x, y, d)
          [] same /\ x.k = "lit" /\ x.n = y.n -> NifyAll(u, pairs, emode, d)
          [] same /\ x.k = "chan" /\ ("exact" \notin mode \/ x.n = y.n) -> NifyAll(u, pairs, emode, d)
          [] same /\ x.k = "iface" /\ x.n = y.n /\ "exact" \in mode -> NifyAll(u, pairs, {"exact"}, d)
          [] same /\ x.k = "named" -> NifyNamed(u, x, y, mode, d)
          [] OTHER -> Result(FALSE, u)

Nify(u, x0, y0, mode, depth) ==
    LET swap == x0.k = "named" \/ Bound(u, y0)
        x == IF swap THEN y0 ELSE x0
        y1 == IF swap THEN x0 ELSE y0
        y == IF "exact" \notin mode /\ IsTypeLit(x) /\ ~IsInterface(x) THEN UnderOf(y1) ELSE y1
    IN  CASE x0 = y0 -> Result(TRUE, u)
          [] x0 # y0 /\ depth >= DepthLimit -> Result(FALSE, [u EXCEPT !.panic = TRUE])
          [] x0 # y0 /\ depth < DepthLimit /\ x = y -> Result(TRUE, u)
          [] OTHER -> IF Bound(u, x) THEN NifyBound(u, x, y, mode, depth + 1)
                      ELSE NifyTypes(u, x, y, mode, depth + 1)

UnifyTypes(u, x, y, mode) == Nify(u, x, y, mode, 0)

-----------------------------------------------------------------------------
(* The steps of inference (types/infer.go), whose order is in modules Infer  *)
(* and Arguments. tps are the names of the type parameters.                  *)

RECURSIVE IsParameterized(_, _)
IsParameterized(tps, t) ==
    IF t.k = "tparam" THEN t.n \in tps ELSE \E i \in DOMAIN t.a : IsParameterized(tps, t.a[i])

UnifyArg(un, tps, par, typ) ==
    IF typ.k = "untyped" \/ ~(IsParameterized(tps, par) \/ IsParameterized(tps, typ)) THEN Result(TRUE, un)
    ELSE UnifyTypes(un, par, typ, {"assign"})

\* The single term of a constraint, or the underlying type all its terms have.
CoreTerm(c) ==
    LET terms == {c.terms[i] : i \in DOMAIN c.terms}
        unders == {UnderOf(t.typ) : t \in terms}
    IN  CASE Len(c.terms) = 1 -> [typ |-> c.terms[1].typ, tilde |-> c.terms[1].tilde, single |-> TRUE]
          [] Cardinality(unders) = 1 /\ Len(c.terms) > 1 ->
                [typ |-> CHOOSE t \in unders : TRUE, tilde |-> \E t \in terms : t.tilde, single |-> FALSE]
          [] OTHER -> [typ |-> NoType, tilde |-> FALSE, single |-> FALSE]

\* The methods of the constraint c, with those of the type tx.
UnifyMethods(un, tx, c) ==
    LET Visit(r, m) == CASE ~r.ok -> r
                         [] r.ok /\ MethodOf(tx, m.name) = NoType -> Result(FALSE, r.u)
                         [] OTHER -> UnifyTypes(r.u, MethodOf(tx, m.name), m.sig, {"exact"})
    IN  FoldLeft(Visit, Result(TRUE, un), c.methods)

\* One type parameter of one iteration over the constraints.
UnifyConstraint(un, c) ==
    LET tx == At(un, c.n)
        core == CoreTerm(c)
    IN  CASE core.typ # NoType /\ tx # NoType -> UnifyTypes(un, tx, core.typ, {})
          [] core.typ # NoType /\ tx = NoType ->
                Result(TRUE, IF core.single /\ ~core.tilde THEN Set(un, c.n, core.typ) ELSE un)
          [] core.typ = NoType /\ tx # NoType -> UnifyMethods(un, tx, c)
          [] OTHER -> Result(TRUE, un)

UnifyConstraints(un, tparams) ==
    FoldLeft(LAMBDA r, c : IF r.ok THEN UnifyConstraint(r.u, c) ELSE r, Result(TRUE, un), tparams)

\* Untyped kinds in their order; numbers have a largest kind, others only themselves.
Kinds == <<"bool", "string", "int", "rune", "float", "complex">>
KindIndex(k) == CHOOSE i \in DOMAIN Kinds : Kinds[i] = k
maxType(j, k) ==
    CASE j = k -> j
      [] j # k /\ {j, k} \cap {"bool", "string", "none"} # {} -> "none"
      [] OTHER -> IF KindIndex(j) > KindIndex(k) THEN j ELSE k
Default(k) == [k |-> "basic", n |-> k, a |-> <<>>]

\* A type parameter that is met again on a path through what has been inferred loses its type.
RECURSIVE KillCycle(_, _, _, _)
KillCycle(tps, inf, t, seen) ==
    CASE t.k # "tparam" -> FoldLeft(LAMBDA r, s : KillCycle(tps, r, s, seen), inf, t.a)
      [] t.k = "tparam" /\ t.n \notin tps -> inf
      [] OTHER -> CASE t.n \in seen -> [inf EXCEPT ![t.n] = NoType]
                    [] t.n \notin seen /\ inf[t.n] # NoType -> KillCycle(tps, inf, inf[t.n], seen \cup {t.n})
                    [] OTHER -> inf

KillCycles(inf, tparams) ==
    LET tps == {tparams[i].n : i \in DOMAIN tparams}
    IN FoldLeft(LAMBDA r, c : KillCycle(tps, r, [k |-> "tparam", n |-> c.n, a |-> <<>>], {}), inf, tparams)
==============================================================================
