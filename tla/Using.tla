-------------------------------- MODULE Using --------------------------------
(***************************************************************************)
(* What the checker of statements promises. The language is stated over    *)
(* the text: a name means the declaration whose scope it is in, where it   *)
(* is written, in a function literal as well. A variable is used where its *)
(* name is evaluated, and not where it is assigned to.                     *)
(***************************************************************************)
EXTENDS Statements

\* env.names are the declarations in scope, env.block the names of the block.
Decl(name, pos, kind, typ, val) == [name |-> name, pos |-> pos, kind |-> kind, typ |-> typ, val |-> val]
Id(d) == <<d.name, d.pos>>
Bind(env, d) == IF d.name = "_" THEN env
                ELSE [env EXCEPT !.names = (d.name :> d) @@ @, !.block = @ \cup {d.name}]
Inner(env) == [env EXCEPT !.block = {}]

\* A program text says which variables it uses, which it declares, and whether it is correct.
M(used, decls, ok) == [used |-> used, decls |-> decls, ok |-> ok]
Nothing == M({}, {}, TRUE)
If(ok) == M({}, {}, ok)
And(a, b) == M(a.used \cup b.used, a.decls \cup b.decls, a.ok /\ b.ok)
All(ms) == FoldLeft(And, Nothing, ms)

-----------------------------------------------------------------------------

IsSingle(x) == x.mode \notin {"invalid", "novalue", "typexpr"} /\ x.typ \notin {"tuple", "invalid"}
Fits(x, T) == /\ IsSingle(x)
              /\ IF T = "none" THEN x.typ # "untyped nil"
                 ELSE LET typ == IF IsUntyped(x.typ) THEN ImplicitType(x.typ, T) ELSE x.typ
                      IN typ # "invalid" /\ AssignableTo(typ, T)
Given(x, T) == IF T # "none" THEN T ELSE IF ~Fits(x, "none") THEN "invalid"
               ELSE IF x.typ = "untyped bool" THEN "bool" ELSE Default(x.typ)

RECURSIVE Meaning(_, _)
Meaning(env, e) ==
    LET x == Meaning(env, e.args[1])
        d == env.names[e.name]
    IN CASE e.k = "Name" -> IF e.name \notin DOMAIN env.names \/ d.typ = "invalid" THEN Bad
                            ELSE X(CASE d.kind \in {"var", "param"} -> "variable" [] d.kind = "const" -> "constant"
                                     [] d.kind = "type" -> "typexpr" [] d.kind = "nil" -> "value", d.typ, <<>>, d.val)
         [] e.k = "Lit" -> X("constant", e.typ, <<>>, e.name)
         [] e.k = "Paren" -> x
         [] e.k = "FuncLit" -> Value("func")
         [] e.k = "Recv" -> IF IsSingle(x) /\ x.typ = "chan" THEN X("commaok", "int", <<>>, "") ELSE Bad
         [] e.k = "Field" -> IF x.mode = "invalid" \/ x.typ # "struct" THEN Bad
                             ELSE IF x.mode = "variable" THEN [x EXCEPT !.typ = "int"] ELSE Value("int")
         [] e.k = "Index" -> IF x.mode = "invalid" \/ ~IsMap(x.typ) THEN Bad ELSE X("mapindex", Elem(x.typ), <<>>, "")
         [] e.k = "Call" -> CASE e.results = <<>> -> X("novalue", "none", <<>>, "")
                              [] Len(e.results) = 1 -> Value(e.results[1])
                              [] OTHER -> X("value", "tuple", e.results, "")

RECURSIVE Texts(_, _)
\* e is evaluated: the names in it are used.
RECURSIVE Look(_, _)
Look(env, e) ==
    LET args == All([n \in DOMAIN e.args |-> Look(env, e.args[n])])
        inner == All(<<args, If(Meaning(env, e).mode # "invalid")>>)
        name == IF e.name \in DOMAIN env.names THEN {Id(env.names[e.name])} ELSE {}
    IN CASE e.k = "Name" -> M(name, {}, Meaning(env, e).mode # "invalid")
         [] e.k = "FuncLit" -> Texts([Inner(env) EXCEPT !.results = e.results, !.named = <<>>], e.body)
         [] e.k = "Index" -> And(inner, If(Fits(Meaning(env, e.args[2]), "int")))
         [] e.k = "Call" -> And(inner, If(\A n \in DOMAIN e.args : Fits(Meaning(env, e.args[n]), "any")))
         [] OTHER -> inner
Looks(env, list) == All([n \in DOMAIN list |-> Look(env, list[n])])

\* e is assigned to: its own name is not used.
Target(env, e) ==
    LET x == Meaning(env, e)
        type == IF x.mode \in {"variable", "mapindex"} THEN x.typ ELSE "invalid"
    IN CASE IsBlank(e) -> [m |-> Nothing, typ |-> "none"]
         [] ~IsBlank(e) /\ IsName(e) -> [m |-> If(type # "invalid"), typ |-> type]
         [] OTHER -> [m |-> And(Look(env, e), If(type # "invalid")), typ |-> type]
Targets(env, lhs) == All([n \in DOMAIN lhs |-> Target(env, lhs[n]).m])

\* The values of rhs for l operands; there are none if there are not that many.
Values(env, rhs, l, commaOk) ==
    LET x == Meaning(env, rhs[1])
    IN CASE Len(rhs) = l /\ (\A n \in 1 .. l : Meaning(env, rhs[n]).typ # "tuple") -> [n \in 1 .. l |-> Meaning(env, rhs[n])]
         [] Len(rhs) = 1 /\ x.typ = "tuple" -> IF Len(x.typs) = l THEN [n \in 1 .. l |-> Value(x.typs[n])] ELSE <<>>
         [] OTHER -> IF commaOk /\ Len(rhs) = 1 /\ l = 2 /\ x.mode \in {"mapindex", "commaok"}
                     THEN <<x, Value("untyped bool")>> ELSE <<>>
Match(env, rhs, types, commaOk) ==
    LET values == Values(env, rhs, Len(types), commaOk)
    IN Len(values) = Len(types) /\ (types = <<>> => rhs = <<>>) /\ \A n \in DOMAIN types : types[n] # "invalid" /\ Fits(values[n], types[n])

\* x op y, which is assigned to the operand.
Operation(env, lhs, rhs) ==
    LET x == Meaning(env, lhs)
        y == Meaning(env, rhs)
        T == Target(env, lhs).typ
    IN IsSingle(x) /\ IsSingle(y) /\ ~IsBlank(lhs) /\ T # "invalid" /\ (IsNumeric(T) \/ T = "string") /\ Fits(y, T)

\* The declarations of names with values, in a new environment.
Declared(env, names, values, types) ==
    FoldLeftDomain(LAMBDA acc, n : Bind(acc, Decl(names[n].name, names[n].pos, "var",
                       IF n \in DOMAIN values THEN Given(values[n], types[n]) ELSE IF types[n] = "none" THEN "invalid" ELSE types[n], "")),
                   env, names)
Ids(names) == {Id(names[n]) : n \in {n \in DOMAIN names : names[n].name # "_"}}
Env(env, m) == [env |-> env, m |-> m]

Short(env, st) ==
    LET e(n) == st.lhs[n]
        named == {n \in DOMAIN st.lhs : e(n).k = "Name"}
        repeated(n) == e(n).name # "_" /\ \E k \in named : k < n /\ e(k).name = e(n).name
        old(n) == e(n).name \in env.block /\ e(n).name # "_"
        new == SelectSeq([n \in DOMAIN st.lhs |-> n], LAMBDA n : n \in named /\ ~repeated(n) /\ ~old(n) /\ e(n).name # "_")
        values == Values(env, st.rhs, Len(st.lhs), TRUE)
        types == [n \in DOMAIN st.lhs |-> IF n \in named /\ old(n) THEN Target(env, e(n)).typ ELSE "none"]
        names == [n \in DOMAIN new |-> e(new[n])]
        given == [n \in DOMAIN new |-> IF new[n] \in DOMAIN values THEN values[new[n]] ELSE Bad]
        others == SelectSeq(st.lhs, LAMBDA x : x.k # "Name" /\ ~IsName(x))
        ok == /\ named = DOMAIN st.lhs /\ new # <<>>
              /\ \A n \in named : ~repeated(n)
              /\ Match(env, st.rhs, types, TRUE)
    IN Env(Declared(env, names, given, [n \in DOMAIN new |-> "none"]),
           All(<<Looks(env, st.rhs), [Looks(env, others) EXCEPT !.ok = TRUE], M({}, Ids(names), ok)>>))

VarSpec(env, st) ==
    LET types == [n \in DOMAIN st.lhs |-> st.typ]
        values == Values(env, st.rhs, Len(st.lhs), TRUE)
        alone == [n \in 1 .. (IF Len(st.rhs) = 1 THEN 0 ELSE IF Len(st.rhs) < Len(st.lhs) THEN Len(st.rhs) ELSE Len(st.lhs)) |->
                     Meaning(env, st.rhs[n])]
        evaluated == IF Len(st.rhs) > Len(st.lhs) /\ Len(st.rhs) # 1 THEN SubSeq(st.rhs, 1, Len(st.lhs)) ELSE st.rhs
        new == SelectSeq([n \in DOMAIN st.lhs |-> n],
                         LAMBDA n : st.lhs[n].name \notin env.block /\ \A k \in 1 .. n - 1 : st.lhs[k].name # st.lhs[n].name)
        names == [n \in DOMAIN new |-> st.lhs[new[n]]]
        given == IF values # <<>> THEN values ELSE alone
        ok == /\ Len(SelectSeq(st.lhs, LAMBDA e : e.name # "_")) = Len(SelectSeq(names, LAMBDA e : e.name # "_"))
              /\ IF st.rhs = <<>> THEN st.typ # "none" ELSE Match(env, st.rhs, types, TRUE)
    IN Env(Declared(env, names, [n \in DOMAIN new |-> IF new[n] \in DOMAIN given THEN given[new[n]]
                                                      ELSE IF st.rhs = <<>> /\ st.typ # "none" THEN Value(st.typ) ELSE Bad],
                    [n \in DOMAIN new |-> st.typ]),
           All(<<Looks(env, evaluated), M({}, Ids(names), ok)>>))

\* "In clauses with a case listing exactly one type, the variable has that type; otherwise ... of the expression."
TypeSwitch(env, st) ==
    LET x == Meaning(env, st.rhs[1])
        any == IF x.mode # "invalid" /\ x.typ = "any" THEN "any" ELSE "invalid"
        kind(e) == IF Unparen(e).name \in DOMAIN env.names THEN env.names[Unparen(e).name].kind ELSE "no"
        T(c) == IF Len(c.list) = 1 /\ kind(c.list[1]) = "type" THEN env.names[Unparen(c.list[1]).name].typ
                ELSE IF Len(c.list) = 1 /\ kind(c.list[1]) # "nil" THEN "invalid" ELSE any
        named == st.lhs # <<>> /\ ~IsBlank(st.lhs[1])
        inner(c) == IF named THEN Bind(Inner(env), Decl(st.lhs[1].name, st.lhs[1].pos, "var", T(c), "")) ELSE Inner(env)
        clause(c) == And(Texts(inner(c), c.body), [Looks(env, c.list) EXCEPT !.ok = \A n \in DOMAIN c.list : kind(c.list[n]) \in {"type", "nil"}])
        lists == FlattenSeq([n \in DOMAIN st.clauses |-> st.clauses[n].list])
    IN All([n \in DOMAIN st.clauses |-> clause(st.clauses[n])] \o
           <<Look(env, st.rhs[1]),
             M({}, IF named THEN Ids(st.lhs) ELSE {},
               /\ st.lhs = <<>> \/ named
               /\ any = "any" /\ Defaults(st) <= 1
               /\ \A m, n \in DOMAIN lists : m # n => Unparen(lists[m]).name # Unparen(lists[n]).name)>>)

RangeOver(env, st) ==
    LET x == Meaning(env, st.rhs[1])
        kv == rangeKeyVal(x.typ)
        types == IF IsSingle(x) /\ kv.ok THEN <<kv.key, kv.val>> ELSE <<"none", "none">>
        typed == {n \in DOMAIN st.lhs : types[n] # "none"}
        value(n) == IF IsInteger(x.typ) THEN x ELSE Value(types[n])
        named == SelectSeq([n \in DOMAIN st.lhs |-> n], LAMBDA n : st.lhs[n].k = "Name" /\ st.lhs[n].name # "_")
        names == [n \in DOMAIN named |-> st.lhs[named[n]]]
        defined == Declared(Inner(env), names, [n \in DOMAIN named |-> IF named[n] \in typed THEN value(named[n]) ELSE Bad],
                            [n \in DOMAIN named |-> "none"])
        distinct == \A m, n \in DOMAIN names : m # n => names[m].name # names[n].name
        ok == /\ IsSingle(x) /\ kv.ok /\ typed = DOMAIN st.lhs
              /\ IF st.tok = ":=" THEN names # <<>> /\ distinct
                 ELSE \A n \in typed : LET T == Target(env, st.lhs[n]).typ
                                       IN T # "invalid" /\ Fits(value(n), T) /\ (x.typ = "untyped int" /\ T # "none" => IsInteger(ImplicitType(x.typ, T)))
        assigned == All([n \in DOMAIN st.lhs |-> IF n \in typed THEN Target(env, st.lhs[n]).m ELSE Nothing])
        complaints == {Id(names[n]) : n \in {n \in DOMAIN names : named[n] \in typed}}
        first == IF Len(names) = 2 /\ ~distinct THEN {Id(names[1])} ELSE Ids(names)
    IN All(<<Look(env, st.rhs[1]), M({}, IF st.tok = ":=" THEN complaints \cap first ELSE {}, ok),
             IF st.tok = ":=" THEN Nothing ELSE assigned,
             Texts(Inner(IF st.tok = ":=" THEN defined ELSE env), st.clauses[1].body)>>)

\* What the language says of a statement, and the environment after it.
RECURSIVE Says(_, _)
Text(env, st) ==
    LET body(n) == Texts(Inner(env), st.clauses[n].body)
        init == IF st.clauses[1].body = <<>> THEN Env(Inner(env), Nothing) ELSE Says(Inner(env), st.clauses[1].body[1])
        rest == All([n \in DOMAIN Tail(st.clauses) |-> Texts(Inner(init.env), st.clauses[n + 1].body)])
        post == IF st.clauses[2].body = <<>> THEN Env(init.env, Nothing) ELSE Says(init.env, st.clauses[2].body[1])
        cond == And(Looks(init.env, st.rhs),
                    If(\A n \in DOMAIN st.rhs : Meaning(init.env, st.rhs[n]).typ \in {"bool", "untyped bool"}))
        tag == Meaning(env, st.rhs[1])
        tagType == IF st.rhs = <<>> THEN "bool" ELSE Given(tag, "none")
        lists == FlattenSeq([n \in DOMAIN st.clauses |-> st.clauses[n].list])
        val(n) == Meaning(env, lists[n])
        typ(n) == IF IsUntyped(val(n).typ) THEN ImplicitType(val(n).typ, tagType) ELSE val(n).typ
        bodies == All([n \in DOMAIN st.clauses |-> And(body(n), Looks(env, st.clauses[n].list))])
        comm(c) == c.comm = <<>> \/ c.comm[1].k = "Send" \/ (Len(c.comm[1].rhs) = 1 /\ Unparen(c.comm[1].rhs[1]).k = "Recv")
    IN CASE st.k = "Assign" /\ st.tok = "=" ->
                All(<<Looks(env, st.rhs), Targets(env, st.lhs),
                      If(Match(env, st.rhs, [n \in DOMAIN st.lhs |-> Target(env, st.lhs[n]).typ], TRUE))>>)
         \* "Assignment operations require single-valued expressions"; others are not looked at.
         [] st.k = "Assign" /\ st.tok = "op=" ->
                IF Len(st.lhs) # 1 \/ Len(st.rhs) # 1 THEN If(FALSE)
                ELSE All(<<Looks(env, st.lhs), Looks(env, st.rhs), If(Operation(env, st.lhs[1], st.rhs[1]))>>)
         [] st.k = "IncDec" -> And(Looks(env, st.lhs), If(Operation(env, st.lhs[1], IntLit("1"))))
         [] st.k = "Return" ->
                And(Looks(env, st.rhs),
                    If(IF st.rhs = <<>> /\ env.named # <<>>
                       THEN \A n \in DOMAIN env.named : env.names[env.named[n]].kind = "param"
                       ELSE Match(env, st.rhs, env.results, FALSE)))
         [] st.k = "Expr" -> And(Looks(env, st.rhs), If(IsStatement(st.rhs[1])))
         [] st.k = "Send" -> And(Looks(env, st.rhs), If(/\ Meaning(env, st.rhs[1]).typ = "chan"
                                                        /\ Fits(Meaning(env, st.rhs[2]), "int")))
         [] st.k = "If" -> All(<<init.m, cond, rest>>)
         \* A declaration is wrong in a post statement; "we want to use the lhs in this erroneous statement".
         [] st.k = "For" -> All(<<init.m, cond, post.m, M(post.m.decls, {}, post.m.decls = {}), Texts(Inner(post.env), st.clauses[3].body)>>)
         [] st.k = "Range" -> RangeOver(env, st)
         [] st.k = "TypeSwitch" -> TypeSwitch(env, st)
         [] st.k = "Switch" ->
                All(<<Looks(env, st.rhs), bodies,
                      If(/\ Defaults(st) <= 1 /\ tagType # "invalid" /\ (Comparable(tagType) \/ HasNil(tagType))
                         /\ \A n \in DOMAIN lists : /\ IsSingle(val(n)) /\ typ(n) # "invalid"
                                                    /\ AssignableTo(typ(n), tagType) \/ AssignableTo(tagType, typ(n))
                                                    /\ typ(n) = "untyped nil" \/ (Comparable(typ(n)) /\ Comparable(tagType))
                         /\ \A m, n \in DOMAIN lists : m # n /\ val(m).mode = "constant" /\ val(n).mode = "constant"
                                                       => val(m).val # val(n).val \/ typ(m) # typ(n) \/ typ(n) = "bool")>>)
         [] st.k = "Select" ->
                All([n \in DOMAIN st.clauses |-> IF comm(st.clauses[n]) THEN Texts(Inner(env), st.clauses[n].comm \o st.clauses[n].body)
                                                 ELSE If(FALSE)] \o <<If(Defaults(st) <= 1)>>)
         [] st.k = "Block" -> All([n \in DOMAIN st.clauses |-> body(n)])
Says(env, st) ==
    CASE st.k = "Assign" /\ st.tok = ":=" -> Short(env, st)
      [] st.k = "Var" -> VarSpec(env, st)
      [] OTHER -> Env(env, Text(env, st))
Texts(env, list) ==
    FoldLeft(LAMBDA acc, st : LET r == Says(acc.env, st) IN Env(r.env, And(acc.m, r.m)), Env(env, Nothing), list).m

-----------------------------------------------------------------------------
(* What is promised.                                                         *)

\* The environment of a call: the universe, and a function with results and variables.
Universe == <<Decl("int", 0, "type", "int", ""), Decl("string", 0, "type", "string", ""), Decl("nil", 0, "nil", "untyped nil", "")>>
AllNames(call) == Universe \o call.params \o call.vars
EnvOf(call) ==
    LET outer == FoldLeft(Bind, [names |-> <<>>, block |-> {}, results |-> call.results,
                                 named |-> [n \in DOMAIN call.params |-> call.params[n].name]], Universe \o call.params \o call.vars)
    IN FoldLeft(Bind, Inner(outer), call.inner)

\* The checker comes to the list of statements of a block in a function.
Checked(call) ==
    LET obj(d) == Obj(d.name, d.pos, d.kind, d.typ, d.val)
        add(s, d) == declare(NewObj(s, obj(d)), Len(s.objs) + 1)
        empty == [scopes |-> <<>>, scope |-> 0, objs |-> <<>>, errs |-> <<>>, unused |-> <<>>, delayed |-> <<>>, sig |-> <<>>, fn |-> 0]
        universe == FoldLeft(add, openScope(empty), Universe)
        results == IF call.params # <<>> THEN FoldLeft(add, openScope(universe), call.params)
                   ELSE FoldLeft(LAMBDA s, T : NewObj(s, Obj("", 0, "param", T, "")), openScope(universe), call.results)
        fn == [results EXCEPT !.fn = 2, !.sig = [n \in 1 .. Len(results.objs) - Len(Universe) |-> Len(Universe) + n]]
        inner == FoldLeft(add, openScope(FoldLeft(add, fn, call.vars)), call.inner)
    IN usage(stmtList(inner, call.list))

\* "Only report a mismatch error if there are no other errors on the rhs"; the
\* errors of the only statement of a call, where e are its operands on the right.
MismatchesAreAlone(call, s) ==
    LET st == call.list[1]
    IN (Len(call.list) = 1 /\ st.k \in {"Assign", "Return"} /\ \E n \in DOMAIN s.errs : s.errs[n] \in {"WrongAssignCount", "WrongResultCount"})
       => /\ Cardinality({n \in DOMAIN s.errs : s.errs[n] \in {"WrongAssignCount", "WrongResultCount"}}) = 1
          /\ Looks(EnvOf(call), st.rhs).ok

\* Statements are accepted if the language does; the variables that are
\* reported as declared and not used are those; and "LHS variables have a
\* type", a valid one unless there is an error.
VariablesAreUsed(call) ==
    LET s == Checked(call)
        says == Texts(EnvOf(call), call.list)
        ids == {Id(d) : d \in {d \in ToSet(call.vars \o call.inner) : d.kind = "var"}}
    IN /\ s.errs = <<>> <=> says.ok
       /\ ToSet(s.unused) = (says.decls \cup ids) \ says.used
       /\ \A n \in DOMAIN s.objs : s.objs[n].typ # "none" /\ (s.objs[n].typ = "invalid" => s.errs # <<>>)
       /\ MismatchesAreAlone(call, s)
==============================================================================
