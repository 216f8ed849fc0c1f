------------------------------- MODULE Arguments -------------------------------
(***************************************************************************)
(* Calls of functions, and the instantiation of generic functions that are *)
(* called, passed or assigned (types/call.go). The type arguments of a     *)
(* call are inferred together: those of the function, and those of all     *)
(* generic functions among its arguments, one after the other in a list.   *)
(*                                                                         *)
(* A signature has type parameters [n, terms, methods] as in Infer,        *)
(* parameters, the last of which is variadic perhaps, and results. An      *)
(* expression e is of kind e.k:                                            *)
(*   "Value"      a value of type e.typ, of an untyped kind perhaps        *)
(*   "Func"       a function with the signature e.sig                      *)
(*   "Inst"       that function with the type arguments e.targs; NoType    *)
(*                stands for a type that is in error                       *)
(*   "Index"      an element of type e.typ, of a slice                     *)
(*   "Call"       a call with the results e.results                        *)
(*   "Type"       a type                                                   *)
(*   "Undefined"  an expression that is in error                           *)
(* Conversions and calls of built-in functions are left out, and so are    *)
(* the positions and wording of errors, which are codes in c.errs.         *)
(***************************************************************************)
EXTENDS Unify, TLC

Sig(tparams, params, variadic, results) ==
    [tparams |-> tparams, params |-> params, variadic |-> variadic, results |-> results]
NoSig == Sig(<<>>, <<>>, FALSE, <<>>)
Lit(n, a) == [k |-> "lit", n |-> n, a |-> a]
SliceOf(t) == Lit("slice", <<t>>)
FuncType(sig) == Lit(ToString(<<Len(sig.params), sig.variadic>>), sig.params \o sig.results)
ResultsType(types) == [k |-> "tuple", n |-> "", a |-> types]
IsUntyped(t) == t.k = "untyped"
NamesOf(tparams) == {tparams[i].n : i \in DOMAIN tparams}
SmapOf(tparams, targs) == [n \in NamesOf(tparams) |-> targs[CHOOSE i \in DOMAIN tparams : tparams[i].n = n]]

SubstAll(types, by) == [i \in DOMAIN types |-> Substitute(types[i], by)]
\* The signature with its type parameters replaced: it is no longer generic.
SubstSig(sig, by) == Sig(<<>>, SubstAll(sig.params, by), sig.variadic, SubstAll(sig.results, by))

Operand(mode, typ, sig, at) == [mode |-> mode, typ |-> typ, sig |-> sig, at |-> at]
Invalid(at) == Operand("invalid", NoType, NoSig, at)
IsGeneric(x) == x.mode = "value" /\ x.sig.tparams # <<>>

-----------------------------------------------------------------------------
(* The checker c: errors, how often each argument has been evaluated, the    *)
(* operands and instances that are recorded for the function (0) and the     *)
(* arguments, and the verifications that come later.                         *)

NewChecker(n, version) ==
    [version |-> version, errs |-> <<>>, evals |-> [i \in 0 .. n |-> 0], types |-> [i \in 0 .. n |-> Invalid(i)],
     insts |-> [i \in 0 .. n |-> <<>>], later |-> <<>>]
Report(c, code) == [c EXCEPT !.errs = Append(@, code)]
verifyVersionf(c, v) == IF c.version < v THEN Report(c, "UnsupportedFeature") ELSE c
recordTypeAndValue(c, x) == IF x.mode = "invalid" THEN c ELSE [c EXCEPT !.types[x.at] = x]
Gives(c, x) == [c |-> c, x |-> x]
Fail(c, code, at) == Gives(Report(c, code), Invalid(at))

\* "rename type parameters to avoid problems with recursive calls"
renameTParams(tparams, at) ==
    LET new == [n \in NamesOf(tparams) |-> [k |-> "tparam", n |-> ToString(<<at, n>>), a |-> <<>>]]
    IN [by |-> new, tparams |-> [i \in DOMAIN tparams |->
            [n |-> new[tparams[i].n].n,
             terms |-> [j \in DOMAIN tparams[i].terms |-> [tparams[i].terms[j] EXCEPT !.typ = Substitute(@, new)]],
             methods |-> tparams[i].methods]]]

instantiateSignature(c, sig, targs, at) ==
    LET inst == SubstSig(sig, SmapOf(sig.tparams, targs))
    IN Gives([c EXCEPT !.insts[at] = targs, !.later = Append(@, [tparams |-> sig.tparams, targs |-> targs])],
             Operand("value", FuncType(inst), inst, at))

\* What has been put off: whether type arguments satisfy their constraints.
verify(c) ==
    LET Satisfies(v) == \A i \in DOMAIN v.tparams :
            v.tparams[i].terms = <<>> \/ \E term \in ToSet(v.tparams[i].terms) :
                LET t == Substitute(term.typ, SmapOf(v.tparams, v.targs))
                IN t = v.targs[i] \/ (term.tilde /\ UnderOf(v.targs[i]) = t)
    IN [FoldLeft(LAMBDA acc, v : IF Satisfies(v) THEN acc ELSE Report(acc, "InvalidTypeArg"), c, c.later) EXCEPT !.later = <<>>]

-----------------------------------------------------------------------------
(* Inference (types/infer.go); the steps are those of module Infer.          *)

RECURSIVE CoreTypes(_, _)
CoreTypes(un, tparams) ==
    LET r == UnifyConstraints(un, tparams)
    IN IF ~r.ok \/ Unknowns(r.u) = Unknowns(un) THEN r ELSE CoreTypes(r.u, tparams)

\* Untyped arguments for the parameters that are type parameters.
IndicesOf(pars, args, tps) ==
    SelectSeq([i \in DOMAIN args |-> i],
              LAMBDA i : IsUntyped(args[i].typ) /\ args[i].typ.n # "nil" /\ pars[i].k = "tparam" /\ pars[i].n \in tps)
DefaultTypes(un, pars, args, tps) ==
    LET late == SelectSeq(IndicesOf(pars, args, tps), LAMBDA i : At(un, pars[i].n) = NoType)
        Largest(p) == LET ks == SelectSeq(late, LAMBDA i : pars[i].n = p)
                  IN FoldLeft(LAMBDA k, i : maxType(k, args[i].typ.n), args[ks[1]].typ.n, Tail(ks))
        open == {pars[late[j]].n : j \in DOMAIN late}
    IN IF \E p \in open : Largest(p) = "none" THEN Result(FALSE, un)
       ELSE Result(TRUE, FoldLeft(LAMBDA acc, p : Set(acc, p, Default(Largest(p))), un, SetToSeq(open)))

RECURSIVE Simplified(_, _)
Simplified(inf, n) == IF n = 0 THEN inf ELSE Simplified([p \in DOMAIN inf |-> Substitute(inf[p], inf)], n - 1)

\* The type arguments, or <<>>: with an error, unless an argument is in error.
infer(tparams, targs, params, args) ==
    LET tps == NamesOf(tparams)
        given == SmapOf(tparams, targs)
        pars == SubstAll(params, given)
        first == FoldLeft(LAMBDA r, i : IF r.ok THEN UnifyArg(r.u, tps, pars[i], args[i].typ) ELSE r,
                          Result(TRUE, newUnifier(tps, given)), [i \in DOMAIN args |-> i])
        core == IF first.ok THEN CoreTypes(first.u, tparams) ELSE first
        last == IF core.ok THEN DefaultTypes(core.u, pars, args, tps) ELSE core
        inf == Simplified(KillCycles([p \in tps |-> At(last.u, p)], tparams), Len(tparams))
    IN CASE \A i \in DOMAIN targs : targs[i] # NoType -> [targs |-> targs, err |-> FALSE]
         [] \E i \in DOMAIN args : args[i].mode = "invalid" -> [targs |-> <<>>, err |-> FALSE]
         [] ~last.ok \/ \E p \in tps : inf[p] = NoType \/ IsParameterized(tps, inf[p]) -> [targs |-> <<>>, err |-> TRUE]
         [] OTHER -> [targs |-> [i \in DOMAIN tparams |-> inf[tparams[i].n]], err |-> FALSE]

-----------------------------------------------------------------------------
\* A function with some of its type arguments, those of an index expression, or none; target is
\* the type of the variable that it is assigned to, NoType if there is none. Type arguments that
\* are not inferred are left to the caller.
funcInst(c0, target, e, at, indexed, mayInfer) ==
    LET targs == IF indexed THEN e.targs ELSE <<>>
        want == Len(e.sig.tparams)
        generic == Operand("value", FuncType(e.sig), e.sig, at)
        Left(c) == [c |-> c, x |-> generic, targs |-> targs]
        Gone(c) == [c |-> c, x |-> Invalid(at), targs |-> <<>>]
        Inst(c, all) == LET r == instantiateSignature(c, e.sig, all, at) IN [c |-> r.c, x |-> r.x, targs |-> <<>>]
        c1 == IF target # NoType /\ Len(targs) < want THEN verifyVersionf(c0, 21) ELSE c0
        renamed == renameTParams(e.sig.tparams, "x")
        params == IF target = NoType THEN <<>> ELSE <<Substitute(generic.typ, renamed.by)>>
        args == IF target = NoType THEN <<>> ELSE <<Operand("value", target, NoSig, at)>>
        r == infer(renamed.tparams, [i \in 1 .. want |-> IF i <= Len(targs) THEN targs[i] ELSE NoType], params, args)
    IN CASE NoType \in ToSet(targs) -> Gone(Report(c0, "UndeclaredName"))
         [] NoType \notin ToSet(targs) /\ Len(targs) > want -> Gone(Report(c0, "WrongTypeArgCount"))
         [] NoType \notin ToSet(targs) /\ Len(targs) = want -> Inst(c0, targs)
         [] OTHER -> CASE ~mayInfer -> Left(c0)
                       [] mayInfer /\ r.targs # <<>> -> Inst(c1, r.targs)
                       [] OTHER -> Gone(IF r.err THEN Report(c1, "CannotInferTypeArgs") ELSE c1)

\* An expression as it stands: generic functions stay what they are, unless there is a target.
exprInternal(c, target, e, at) ==
    CASE e.k \in {"Value", "Index"} -> Gives(c, Operand("value", e.typ, NoSig, at))
      [] e.k = "Func" -> Gives(c, Operand("value", FuncType(e.sig), e.sig, at))
      [] e.k = "Inst" -> LET r == funcInst(c, target, e, at, TRUE, TRUE) IN Gives(r.c, r.x)
      [] e.k = "Type" -> Gives(c, Operand("typexpr", NoType, NoSig, at))
      [] e.k = "Undefined" -> Fail(c, "UndeclaredName", at)
      [] e.k = "Call" -> Gives(c, CASE e.results = <<>> -> Operand("novalue", NoType, NoSig, at)
                                    [] Len(e.results) = 1 -> Operand("value", e.results[1], NoSig, at)
                                    [] OTHER -> Operand("value", ResultsType(e.results), NoSig, at))

nonGeneric(c, target, x, e) ==
    CASE ~IsGeneric(x) -> Gives(c, x)
      [] IsGeneric(x) /\ target # NoType -> LET r == funcInst(c, target, e, x.at, FALSE, TRUE) IN Gives(r.c, r.x)
      [] OTHER -> Fail(c, "WrongTypeArgCount", x.at)

rawExpr(c, target, e, at, allowGeneric) ==
    LET r == exprInternal([c EXCEPT !.evals[at] = @ + 1], target, e, at)
        s == IF allowGeneric THEN r ELSE nonGeneric(r.c, target, r.x, e)
    IN Gives(recordTypeAndValue(s.c, s.x), s.x)

exclude(c, x, modes) ==
    IF x.mode \in modes THEN Fail(c, IF x.mode = "novalue" THEN "TooManyValues" ELSE "NotAnExpr", x.at) ELSE Gives(c, x)
singleValue(c, x) == IF x.mode = "value" /\ x.typ.k = "tuple" THEN Fail(c, "TooManyValues", x.at) ELSE Gives(c, x)

genericExpr(c, e, at) ==
    LET r == rawExpr(c, NoType, e, at, TRUE)
        s == exclude(r.c, r.x, {"novalue", "typexpr"})
    IN singleValue(s.c, s.x)

use(c, args) == FoldLeft(LAMBDA acc, i : rawExpr(acc, NoType, args[i], i, TRUE).c, c, [i \in DOMAIN args |-> i])

\* An argument: a generic function that is instantiated in part perhaps, or else a value. What
\* turns out to be no such function after the evaluation of an index expression is evaluated
\* again. A single argument may have several values.
GenericArg(c, e, at, single) ==
    LET indexed == IF e.k \in {"Inst", "Index"} THEN [c EXCEPT !.evals[at] = @ + 1] ELSE c
        part == funcInst(indexed, NoType, e, at, TRUE, c.version < 21)
        raw == rawExpr(indexed, NoType, e, at, TRUE)
        one == exclude(raw.c, raw.x, {"novalue", "typexpr"})
        x == IF single THEN one ELSE genericExpr(indexed, e, at)
    IN IF e.k = "Inst" THEN [part EXCEPT !.c = IF part.targs = <<>> THEN recordTypeAndValue(@, part.x) ELSE @]
       ELSE [c |-> x.c, x |-> x.x, targs |-> <<>>]

\* The operands of a list of arguments, with the type arguments of those that are instantiated
\* in part. One argument may stand for several, the results of a call.
genericExprList(c0, args) ==
    LET one == GenericArg(c0, args[1], 1, TRUE)
        Add(acc, i) == LET r == GenericArg(acc.c, args[i], i, FALSE)
                       IN [c |-> r.c, xs |-> Append(acc.xs, r.x), targs |-> Append(acc.targs, r.targs)]
    IN CASE args = <<>> -> [c |-> c0, xs |-> <<>>, targs |-> <<>>]
         [] Len(args) = 1 ->
                IF one.x.mode = "value" /\ one.x.typ.k = "tuple"
                THEN [c |-> one.c, xs |-> [j \in DOMAIN one.x.typ.a |-> Operand("value", one.x.typ.a[j], NoSig, 1)],
                      targs |-> [j \in DOMAIN one.x.typ.a |-> <<>>]]
                ELSE [c |-> one.c, xs |-> <<one.x>>, targs |-> <<one.targs>>]
         [] OTHER -> FoldLeft(Add, [c |-> c0, xs |-> <<>>, targs |-> <<>>], [i \in DOMAIN args |-> i])

-----------------------------------------------------------------------------
\* "ok" or an error, and the parameters, of which there is one for each argument that maps to a
\* variadic one.
Adjusted(sig, n, calls, dots) ==
    LET npars == Len(sig.params)
        elem == sig.params[npars].a[1]
        pars == [i \in 1 .. n |-> IF i < npars THEN sig.params[i] ELSE elem]
    IN CASE sig.variadic /\ dots /\ calls = 1 /\ n > 1 -> [code |-> "InvalidDotDotDot", params |-> <<>>]
         [] ~sig.variadic /\ dots -> [code |-> "NonVariadicDotDotDot", params |-> <<>>]
         [] sig.variadic /\ ~dots /\ n >= npars - 1 -> [code |-> "ok", params |-> pars]
         [] OTHER -> [code |-> IF n = npars THEN "ok" ELSE "WrongArgCount", params |-> sig.params]

\* Mutant: the type parameters of an argument keep their names.
KeptTParams(x, i) == [by |-> <<>>, tparams |-> x.sig.tparams]
\* Those of an argument that is generic, renamed: the function may be passed twice.
ArgTParams(x, i) == renameTParams(x.sig.tparams, i)

\* Type arguments, as many as there are type parameters.
Padded(targs, n) == [i \in 1 .. n |-> IF i <= Len(targs) THEN targs[i] ELSE NoType]

\* The type parameters of all generic arguments behind those of the function; s.args are the
\* arguments with new names for their type parameters.
Collected(s0, atargs) ==
    FoldLeft(LAMBDA s, i :
                LET x == s.args[i]
                    new == ArgTParams(x, i)
                    sig == [SubstSig(x.sig, new.by) EXCEPT !.tparams = new.tparams]
                IN IF ~IsGeneric(x) THEN s
                   ELSE [tparams |-> s.tparams \o new.tparams,
                         targs |-> Padded(s.targs \o atargs[i], Len(s.tparams) + Len(new.tparams)),
                         args |-> [s.args EXCEPT ![i].sig = sig, ![i].typ = FuncType(sig)],
                         generic |-> Append(s.generic, i)],
             s0, [i \in DOMAIN s0.args |-> i])

\* The generic arguments, instantiated with their parts of the list of type arguments, which
\* begin at j.
Instantiated(c, args, generic, targs, j0) ==
    FoldLeft(LAMBDA s, i :
                LET n == Len(s.args[i].sig.tparams)
                    r == instantiateSignature(s.c, s.args[i].sig, SubSeq(targs, s.j + 1, s.j + n), s.args[i].at)
                IN [c |-> recordTypeAndValue(r.c, r.x), args |-> [s.args EXCEPT ![i] = r.x], j |-> s.j + n],
             [c |-> c, args |-> args, j |-> j0], generic)

Representable(t, T) ==
    CASE T.k = "basic" -> t.n = T.n \/ (t.n = "int" /\ T.n = "float")
      [] T.k = "named" -> t.n = UnderOf(T).n
      [] OTHER -> t.n = "nil" /\ T.k = "lit"
assignment(c, x, T) ==
    LET typed == [x EXCEPT !.typ = T]
    IN CASE x.mode # "value" -> c
         [] x.mode = "value" /\ IsUntyped(x.typ) ->
                IF Representable(x.typ, T) THEN recordTypeAndValue(c, typed) ELSE Report(c, "IncompatibleAssign")
         [] IsGeneric(x) -> Report(c, "WrongTypeArgCount")
         [] OTHER -> IF x.typ = T \/ ((IsTypeLit(x.typ) \/ IsTypeLit(T)) /\ UnderOf(x.typ) = UnderOf(T))
                     THEN c ELSE Report(c, "IncompatibleAssign")

\* Checks arguments, of a signature that may be generic and has some type arguments perhaps.
\* Returns the signature, instantiated if there is no error.
arguments(c0, call, sig, targs0, list) ==
    LET n == Len(sig.tparams)
        nargs == Len(list.xs)
        adjusted == Adjusted(sig, nargs, Len(call.args), call.dots)
        renamed == renameTParams(sig.tparams, 0)
        all == Collected([tparams |-> renamed.tparams, targs |-> Padded(targs0, n), args |-> list.xs, generic |-> <<>>], list.targs)
        c1 == IF all.generic = <<>> THEN c0 ELSE verifyVersionf(c0, 21)
        sigParams == SubstAll(adjusted.params, renamed.by)
        r == infer(all.tparams, all.targs, sigParams, all.args)
        callee == instantiateSignature(c1, sig, SubSeq(r.targs, 1, n), 0)
        done == Instantiated(IF n = 0 THEN c1 ELSE callee.c, all.args, all.generic, r.targs, n)
        params == IF n = 0 THEN sigParams ELSE SubstAll(sigParams, SmapOf(renamed.tparams, SubSeq(r.targs, 1, n)))
        Assign(c, args, pars) == FoldLeft(LAMBDA acc, i : assignment(acc, args[i], pars[i]), c, [i \in DOMAIN args |-> i])
    IN CASE adjusted.code # "ok" -> [c |-> Report(c0, adjusted.code), sig |-> sig]
         [] adjusted.code = "ok" /\ all.tparams = <<>> -> [c |-> Assign(c0, list.xs, sigParams), sig |-> sig]
         [] OTHER -> IF r.targs = <<>> THEN [c |-> IF r.err THEN Report(c1, "CannotInferTypeArgs") ELSE c1, sig |-> sig]
                     ELSE [c |-> Assign(done.c, done.args, params), sig |-> IF n = 0 THEN sig ELSE callee.x.sig]

\* The operand that is called, of the call with type arguments too.
Called(c, e) ==
    LET fun == rawExpr(c, NoType, [e EXCEPT !.k = IF @ = "Inst" THEN "Func" ELSE @], 0, TRUE)
        s == exclude(fun.c, fun.x, {"novalue"})
    IN singleValue(s.c, s.x)

callExpr(c0, call) ==
    LET e == call.fun
        fun == Called(c0, e)
        targs == IF e.k = "Inst" THEN e.targs ELSE <<>>
        want == Len(fun.x.sig.tparams)
        Stop(c) == Gives(use(c, call.args), Invalid(0))
        inst == instantiateSignature(fun.c, fun.x.sig, targs, 0)
        whole == want > 0 /\ Len(targs) = want
        sig == IF whole THEN inst.x.sig ELSE fun.x.sig
        list == genericExprList(IF whole THEN inst.c ELSE fun.c, call.args)
        r == arguments(list.c, call, sig, IF whole THEN <<>> ELSE targs, list)
        c1 == IF want > 0 /\ r.sig.tparams = <<>>
              THEN recordTypeAndValue(r.c, Operand("value", FuncType(r.sig), r.sig, 0)) ELSE r.c
        results == r.sig.results
        x == CASE results = <<>> -> Operand("novalue", NoType, NoSig, 0)
               [] Len(results) = 1 -> Operand("value", results[1], NoSig, 0)
               [] OTHER -> Operand("value", ResultsType(results), NoSig, 0)
    IN CASE fun.x.mode = "invalid" -> Stop(fun.c)
         [] fun.x.mode # "invalid" /\ (fun.x.typ.k # "lit" \/ fun.x.typ.n = "slice") ->
                Gives(Report(fun.c, "InvalidCall"), Invalid(0))
         [] NoType \in ToSet(targs) -> Stop(Report(fun.c, "UndeclaredName"))
         [] NoType \notin ToSet(targs) /\ Len(targs) > want -> Stop(Report(fun.c, "WrongTypeArgCount"))
         [] OTHER -> Gives(c1, IF x.mode = "value" /\ IsParameterized(NamesOf(r.sig.tparams), x.typ) THEN Invalid(0) ELSE x)

\* The assignment of an expression to a variable of the type T.
initVar(c, T, e) ==
    LET r == rawExpr(c, IF T.k = "lit" /\ T.n # "slice" THEN T ELSE NoType, e, 1, FALSE)
        s == exclude(r.c, r.x, {"novalue", "typexpr"})
        t == singleValue(s.c, s.x)
    IN assignment(t.c, t.x, T)

-----------------------------------------------------------------------------
(* What the language says of a call and of the functions it instantiates:    *)
(* "type inference uses the type relationships between pairs of types",      *)
(* that is, a system of equations between types, to be solved by the type    *)
(* arguments, and by no others. Equations are solved here as in textbooks,   *)
(* by substituting a solution for an unknown in what is left of them. The    *)
(* types of the inputs match only if they are identical.                     *)

\* A set with the most general solution of the equations left, given that of others.
RECURSIVE Solutions(_, _)
Solutions(eqs, by) ==
    LET l == Substitute(Head(eqs)[1], by)
        r == Substitute(Head(eqs)[2], by)
        IsUnknown(t) == t.k = "tparam" /\ t.n \in DOMAIN by
        Bound1(p, t) == IF IsParameterized({p.n}, t) THEN {}
                        ELSE Solutions(Tail(eqs), [q \in DOMAIN by |-> Substitute(by[q], [n \in {p.n} |-> t])])
    IN CASE eqs = <<>> -> {by}
         [] eqs # <<>> /\ l = r -> Solutions(Tail(eqs), by)
         [] eqs # <<>> /\ l # r /\ IsUnknown(l) -> Bound1(l, r)
         [] eqs # <<>> /\ l # r /\ ~IsUnknown(l) /\ IsUnknown(r) -> Bound1(r, l)
         [] OTHER -> IF l.k = "lit" /\ r.k = "lit" /\ l.n = r.n /\ Len(l.a) = Len(r.a)
                     THEN Solutions(Zip(l.a, r.a) \o Tail(eqs), by) ELSE {}

\* An argument, with new names for its type parameters: the same function may be passed twice.
Arg(typ, sig, targs, at) ==
    LET new == renameTParams(sig.tparams, at)
    IN [typ |-> Substitute(typ, new.by), tparams |-> new.tparams, targs |-> targs, at |-> at]
ArgsOf(call) ==
    LET a == call.args
        One(i) == CASE a[i].k \in {"Func", "Inst"} -> Arg(FuncType(a[i].sig), a[i].sig, a[i].targs, i)
                    [] a[i].k = "Call" -> Arg(a[i].results[1], NoSig, <<>>, i)
                    [] OTHER -> Arg(a[i].typ, NoSig, <<>>, i)
    IN IF Len(a) = 1 /\ a[1].k = "Call" THEN [j \in DOMAIN a[1].results |-> Arg(a[1].results[j], NoSig, <<>>, 1)]
       ELSE [i \in DOMAIN a |-> One(i)]

\* An expression is well formed on its own; single says that it is the only argument.
Alone(e, single, version) ==
    CASE e.k \in {"Value", "Index"} -> TRUE
      [] e.k = "Func" -> e.sig.tparams = <<>> \/ version >= 21
      [] e.k = "Inst" -> /\ NoType \notin ToSet(e.targs)
                         /\ Len(e.targs) = Len(e.sig.tparams) \/ (Len(e.targs) < Len(e.sig.tparams) /\ version >= 21)
      [] e.k = "Call" -> Len(e.results) = 1 \/ (single /\ Len(e.results) > 1)
      [] e.k \in {"Type", "Undefined"} -> FALSE

\* The parameters that n arguments are passed to, if that many may be passed.
Counts(call, n) ==
    LET npars == Len(call.fun.sig.params)
    IN CASE call.dots -> call.fun.sig.variadic /\ n = npars /\ Len(call.args) = n
         [] ~call.dots /\ call.fun.sig.variadic -> n >= npars - 1
         [] OTHER -> n = npars
Params(call, n) ==
    LET ps == call.fun.sig.params
    IN [i \in 1 .. n |-> IF call.fun.sig.variadic /\ ~call.dots /\ i >= Len(ps) THEN ps[Len(ps)].a[1] ELSE ps[i]]

\* The equations and the unknowns of a call.
System(call) ==
    LET args == ArgsOf(call)
        fun == Arg(FuncType(call.fun.sig), call.fun.sig, call.fun.targs, 0)
        new == renameTParams(call.fun.sig.tparams, 0).by
        pars == SubstAll(Params(call, Len(args)), new)
        tparams == FlattenSeq(<<fun.tparams>> \o [i \in DOMAIN args |-> args[i].tparams])
        Given(x) == [j \in DOMAIN x.targs |-> <<[k |-> "tparam", n |-> x.tparams[j].n, a |-> <<>>], x.targs[j]>>]
        Core(p) == <<[k |-> "tparam", n |-> p.n, a |-> <<>>], p.terms[1].typ>>
        cores == SelectSeq(tparams, LAMBDA p : Len(p.terms) = 1)
        typed == SelectSeq([i \in DOMAIN args |-> i], LAMBDA i : ~IsUntyped(args[i].typ))
    IN [args |-> args, pars |-> pars, tparams |-> tparams,
        eqs |-> FlattenSeq(<<Given(fun)>> \o [i \in DOMAIN args |-> Given(args[i])])
                \o [j \in DOMAIN typed |-> <<pars[typed[j]], args[typed[j]].typ>>]
                \o [j \in DOMAIN cores |-> Core(cores[j])]]

\* A set with the type arguments of a call: what the equations leave open is of the default type
\* of the untyped constants that are passed for it.
TypeArguments(sys) ==
    LET names == NamesOf(sys.tparams)
        Own(n) == [k |-> "tparam", n |-> n, a |-> <<>>]
        KindsFor(by, p) == {sys.args[i].typ.n : i \in {i \in DOMAIN sys.args :
                                IsUntyped(sys.args[i].typ) /\ sys.args[i].typ.n # "nil" /\ Substitute(sys.pars[i], by) = p}}
        Numbers == {"int", "float"}
        DefaultOf(kinds) == IF kinds \subseteq Numbers THEN Default(IF "float" \in kinds THEN "float" ELSE "int")
                            ELSE Default(CHOOSE k \in kinds : TRUE)
        Defaults(by) == [n \in names |-> LET kinds == KindsFor(by, Own(n)) IN IF kinds = {} THEN Own(n) ELSE DefaultOf(kinds)]
        Whole(by) == [n \in names |-> Substitute(by[n], Defaults(by))]
        Mixed(by) == \E n \in names : LET kinds == KindsFor(by, Own(n)) IN Cardinality(kinds) > 1 /\ ~(kinds \subseteq Numbers)
        IsWhole(by) == \A n \in names : ~IsParameterized(names, Whole(by)[n])
    IN {Whole(by) : by \in {by \in Solutions(sys.eqs, [n \in names |-> Own(n)]) : ~Mixed(by) /\ IsWhole(by)}}

Satisfied(sys, by) ==
    /\ \A p \in ToSet(sys.tparams) : p.terms # <<>> => by[p.n] \in {Substitute(t.typ, by) : t \in ToSet(p.terms)}
    /\ \A i \in DOMAIN sys.args : IsUntyped(sys.args[i].typ) => Representable(sys.args[i].typ, Substitute(sys.pars[i], by))

\* A set with the type arguments of a legal call.
Meaning(call, version) ==
    LET single == Len(call.args) = 1
        Fine == /\ Alone(call.fun, TRUE, 21)
                /\ call.fun.k \in {"Func", "Inst"} /\ Len(call.fun.targs) <= Len(call.fun.sig.tparams)
                /\ \A i \in DOMAIN call.args : Alone(call.args[i], single, version)
    IN IF ~Fine \/ ~Counts(call, Len(ArgsOf(call))) THEN {}
       ELSE LET sys == System(call) IN {by \in TypeArguments(sys) : Satisfied(sys, by)}

\* Each kind of untyped constant that is passed for one type is passed for one parameter: the
\* checker takes the default types of parameters in any order, and one of them wins.
Definite(call) ==
    LET sys == System(call)
        untyped == {i \in DOMAIN sys.args : IsUntyped(sys.args[i].typ)}
    IN \A by \in Solutions(sys.eqs, [n \in NamesOf(sys.tparams) |-> [k |-> "tparam", n |-> n, a |-> <<>>]]) :
         \A i, j \in untyped : Substitute(sys.pars[i], by) = Substitute(sys.pars[j], by)
                                 => sys.pars[i] = sys.pars[j] \/ sys.args[i].typ = sys.args[j].typ

-----------------------------------------------------------------------------
(* Properties of a call, and of an assignment to a variable of type call.to. *)

AsCall(in) == [in EXCEPT !.fun = [in.fun EXCEPT !.sig = Sig(<<>>, <<in.to>>, FALSE, <<>>)]]
Outcome(in) ==
    LET c == NewChecker(Len(in.args), in.version)
        r == callExpr(c, in)
    IN IF in.to = NoType THEN Gives(verify(r.c), r.x) ELSE Gives(verify(initVar(c, in.to, in.args[1])), Invalid(0))

\* What is recorded: every generic function with its type arguments, every constant with the
\* type of its parameter, and the result.
IsRecorded(c, x, in, call, by) ==
    LET sys == System(call)
        Renamed(e, at) == SubstSig([e.sig EXCEPT !.tparams = <<>>], renameTParams(e.sig.tparams, at).by)
        IsInst(e, at) ==
            /\ c.types[at].sig = SubstSig(Renamed(e, at), by)
            /\ c.types[at].typ = FuncType(c.types[at].sig)
            /\ c.insts[at] = [j \in DOMAIN e.sig.tparams |-> by[renameTParams(e.sig.tparams, at).tparams[j].n]]
    IN /\ \A i \in DOMAIN call.args :
            /\ call.args[i].k \in {"Func", "Inst"} => IsInst(call.args[i], i)
            /\ call.args[i].k = "Value" => c.types[i].typ = IF IsUntyped(call.args[i].typ) THEN Substitute(sys.pars[i], by)
                                                             ELSE call.args[i].typ
       /\ in.to = NoType =>
            LET results == SubstAll(Renamed(call.fun, 0).results, by)
            IN /\ IsInst(call.fun, 0)
               /\ CASE results = <<>> -> x.mode = "novalue"
                    [] Len(results) = 1 -> x.mode = "value" /\ x.typ = results[1]
                    [] OTHER -> x.mode = "value" /\ x.typ.a = results

\* A call or an assignment is accepted if its types have one solution, and that is recorded; or
\* an error is reported, and no type parameter of the function gets out.
CallsAreInferred(in) ==
    LET call == IF in.to = NoType THEN in ELSE AsCall(in)
        out == Outcome(in)
        meaning == Meaning(call, in.version)
    IN meaning = {} \/ Definite(call) =>
        /\ (out.c.errs = <<>>) <=> (meaning # {})
        /\ \A by \in meaning : IsRecorded(out.c, out.x, in, call, by)
        /\ out.x.mode = "value" => ~IsParameterized(NamesOf(in.fun.sig.tparams), out.x.typ)

\* "Useful to make sure expressions are evaluated (and variables are used) in the presence of
\* other errors": every argument is evaluated, but those of what is no function.
ArgumentsAreUsed(in) ==
    LET out == Outcome(in)
    IN "InvalidCall" \in ToSet(out.c.errs) \/ \A i \in DOMAIN in.args : out.c.evals[i] > 0
=============================================================================
