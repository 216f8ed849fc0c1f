--------------------------------- MODULE Infer ---------------------------------
(***************************************************************************)
(* Inference of type arguments (types/infer.go): the types of arguments    *)
(* are unified with those of parameters, type parameters with the core     *)
(* types and methods of their constraints, untyped constants get default   *)
(* types, and what has been inferred is substituted into itself.           *)
(*                                                                         *)
(* A call has type parameters [n, terms, methods], those of the function   *)
(* and those of generic functions among the arguments, type arguments for  *)
(* some of them, parameters and arguments. Untyped arguments are of kind   *)
(* "untyped".                                                              *)
(***************************************************************************)
EXTENDS Unify

CONSTANT Calls    \* sets of calls [tparams, targs, params, args]

VARIABLES
    call,      \* the call
    u,         \* the unifier
    phase,     \* "args", "core", "untyped", "simplify", "done", "failed"
    arg,       \* "args": the argument that is next
    inferred,  \* "simplify", "done": [type parameter -> type]
    dirty,     \* "simplify": those that may contain type parameters
    passes     \* history: how often all of them have been substituted

vars == <<call, u, phase, arg, inferred, dirty, passes>>

TParams == {call.tparams[i].n : i \in DOMAIN call.tparams}

Param(i) == Substitute(call.params[i], call.targs)

\* The arguments that are left for the end.
Untyped == SelectSeq([i \in DOMAIN call.args |-> i],
                     LAMBDA i : call.args[i].k = "untyped" /\ Param(i).k = "tparam")

\* The untyped kind of the type parameter p: the largest of its arguments; "none" if there is none.
MaxUntyped(p) ==
    LET ks == SelectSeq(Untyped, LAMBDA i : Param(i).n = p)
    IN  FoldLeft(LAMBDA k, i : maxType(k, call.args[i].n), call.args[ks[1]].n, Tail(ks))

-----------------------------------------------------------------------------
Init ==
    /\ \E family \in Calls : call \in family
    /\ u = newUnifier(TParams, call.targs)
    /\ phase = "args" /\ arg = 1
    /\ inferred = <<>> /\ dirty = {} /\ passes = 0

\* Continue in phase next with the unifier of r, if there has been no failure.
Continue(r, next) ==
    /\ u' = r.u
    /\ phase' = IF r.ok THEN next ELSE "failed"

InferArg ==
    /\ phase = "args" /\ arg <= Len(call.args)
    /\ Continue(UnifyArg(u, TParams, Param(arg), call.args[arg]), "args")
    /\ arg' = arg + 1
    /\ UNCHANGED <<call, inferred, dirty, passes>>

EndArgs ==
    /\ phase = "args" /\ arg > Len(call.args)
    /\ phase' = "core"
    /\ UNCHANGED <<call, u, arg, inferred, dirty, passes>>

\* One iteration; the last is the one that makes no progress.
InferCore ==
    /\ phase = "core"
    /\ LET r == UnifyConstraints(u, call.tparams)
       IN  Continue(r, IF Unknowns(r.u) = Unknowns(u) THEN "untyped" ELSE "core")
    /\ UNCHANGED <<call, arg, inferred, dirty, passes>>

\* The defaults are set in any order: one of the type parameters that share a handle wins.
InferUntyped ==
    LET open == {p \in TParams : At(u, p) = NoType /\ \E i \in ToSet(Untyped) : Param(i).n = p}
        Types(h) == {Default(MaxUntyped(p)) : p \in {p \in open : u.handle[p] = h}}
    IN  /\ phase = "untyped"
        /\ IF \E p \in open : MaxUntyped(p) = "none"
           THEN phase' = "failed" /\ UNCHANGED <<u, inferred, dirty>>
           ELSE \E wins \in [open -> open] :
                /\ \A p \in open : u.handle[wins[p]] = u.handle[p]
                /\ \A p, q \in open : u.handle[p] = u.handle[q] => wins[p] = wins[q]
                /\ u' = [u EXCEPT !.val = [h \in DOMAIN u.val |->
                            IF \E p \in open : u.handle[p] = h
                            THEN Default(MaxUntyped(wins[CHOOSE p \in open : u.handle[p] = h]))
                            ELSE u.val[h]]]
                /\ phase' = "simplify"
                /\ inferred' = KillCycles([p \in TParams |-> At(u', p)], call.tparams)
                /\ dirty' = {p \in TParams : inferred'[p] # NoType /\ call.targs[p] = NoType}
        /\ UNCHANGED <<call, arg, passes>>

\* One pass over the types that may contain type parameters.
Simplify ==
    LET by == [p \in TParams |-> IF p \in dirty THEN Substitute(inferred[p], inferred) ELSE inferred[p]]
    IN  /\ phase = "simplify" /\ dirty # {}
        /\ inferred' = by
        /\ dirty' = {p \in dirty : by[p] # inferred[p]}
        /\ passes' = passes + 1
        /\ UNCHANGED <<call, u, phase, arg>>

Finish ==
    /\ phase = "simplify" /\ dirty = {}
    /\ phase' = IF \A p \in TParams : inferred[p] # NoType /\ ~IsParameterized(TParams, inferred[p])
                THEN "done" ELSE "failed"
    /\ UNCHANGED <<call, u, arg, inferred, dirty, passes>>

Next == InferArg \/ EndArgs \/ InferCore \/ InferUntyped \/ Simplify \/ Finish

Spec == Init /\ [][Next]_vars

-----------------------------------------------------------------------------
(* Properties                                                                *)

RECURSIVE SubTerms(_)
SubTerms(t) == {t} \cup UNION {SubTerms(t.a[i]) : i \in DOMAIN t.a}
AllTerms == UNION ({SubTerms(call.args[i]) : i \in DOMAIN call.args}
                   \cup {SubTerms(call.params[i]) : i \in DOMAIN call.params}
                   \cup {SubTerms(call.tparams[i].terms[j].typ) :
                            <<i, j>> \in {<<i, j>> \in (DOMAIN call.tparams) \X (1 .. 2) :
                                            j <= Len(call.tparams[i].terms)}})

\* Calls in which types match only if they are identical.
IsExact ==
    /\ \A t \in AllTerms : t.k \in {"basic", "lit"} \/ (t.k = "tparam" /\ t.n \in TParams)
    /\ \A i \in DOMAIN call.tparams :
        LET c == call.tparams[i]
        IN  c.methods = <<>> /\ Len(c.terms) < 2 /\ \A j \in DOMAIN c.terms : ~c.terms[j].tilde

\* s solves the equations of the call.
IsSolution(s) ==
    /\ \A p \in TParams : call.targs[p] # NoType => s[p] = call.targs[p]
    /\ \A i \in DOMAIN call.args : IsParameterized(TParams, Param(i)) \/ IsParameterized(TParams, call.args[i]) =>
            Substitute(call.params[i], s) = Substitute(call.args[i], s)
    /\ \A c \in ToSet(call.tparams) : c.terms # <<>> => Substitute(c.terms[1].typ, s) = s[c.n]

\* The types a call mentions, with two others for type parameters that are not determined.
Universe ==
    LET others == {[k |-> "basic", n |-> n, a |-> <<>>] : n \in {"other1", "other2"}}
        mentioned == {t \in AllTerms : ~IsParameterized(TParams, t)}
    IN  others \cup mentioned
        \cup {Substitute(t, [p \in TParams |-> o]) : t \in AllTerms, o \in others \cup mentioned}

\* If types must be identical, type arguments that are found solve the equations, and nothing
\* else does; if none are found, the equations have no solution, or several.
InferredIsTheSolution ==
    (IsExact /\ phase \in {"done", "failed"} /\ ~u.panic) =>
        LET solutions == {s \in [TParams -> Universe] : IsSolution(s)}
        IN  IF phase = "done" THEN IsSolution(inferred) /\ solutions \subseteq {inferred}
            ELSE Cardinality(solutions) # 1

\* The type arguments after all arguments have been unified in an order, NoType if unknown.
RECURSIVE Resolved(_, _)
Resolved(vals, n) ==
    IF n = 0 THEN [p \in DOMAIN vals |-> IF IsParameterized(TParams, vals[p]) THEN NoType ELSE vals[p]]
    ELSE Resolved([p \in DOMAIN vals |-> Substitute(vals[p], vals)], n - 1)
Outcome(order) ==
    LET r == FoldLeft(LAMBDA s, i : IF s.ok THEN UnifyArg(s.u, TParams, Param(i), call.args[i]) ELSE s,
                      Result(TRUE, newUnifier(TParams, call.targs)), order)
    IN  Result(r.ok, IF r.ok THEN Resolved([p \in TParams |-> At(r.u, p)], Cardinality(TParams)) ELSE <<>>)

Foreign == \E t \in AllTerms : t.k = "tparam" /\ t.n \notin TParams
Opposite == \E s, t \in AllTerms : {UnderOf(s).k, UnderOf(t).k} = {"chan"} /\ UnderOf(s).n = "send" /\ UnderOf(t).n = "recv"

\* "In a series of types, all matching against the same type parameter, we infer a defined type
\* if there is one, independent of order", and in general the same types, but for channels of
\* opposite directions, and type parameters of the caller that match their core types.
OrderFree ==
    (arg > Len(call.args) /\ phase \in {"core", "failed"} /\ ~u.panic /\ ~Opposite /\ ~Foreign
        /\ \A i \in DOMAIN call.params : Param(i).k = "tparam") =>
        LET n == Len(call.args)
            first == Outcome([i \in 1 .. n |-> i])
        IN  \A order \in {f \in [1 .. n -> 1 .. n] : \A i, j \in 1 .. n : i # j => f[i] # f[j]} :
                Outcome(order) = first

\* Substitution ends: no type that has been inferred contains itself.
SimplifyEnds == passes <= Len(call.tparams) + 1
==============================================================================
