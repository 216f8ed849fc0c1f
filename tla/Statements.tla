------------------------------ MODULE Statements ------------------------------
(***************************************************************************)
(* The checker of statements: assignments and declarations, the scopes     *)
(* they open and fill, and the variables that are declared and not used    *)
(* (types/assignments.go, types/stmt.go, parts of decl.go and call.go).    *)
(*                                                                         *)
(* The body of a function literal is checked later, in the scope of the    *)
(* literal as it is then. Evaluating a name marks its variable as used;    *)
(* where that is no use, the mark is taken back. Where statements are      *)
(* allowed, and whether they terminate, is the subject of TgoStmt.         *)
(***************************************************************************)
EXTENDS Naturals, Sequences, FiniteSets, SequencesExt, TLC

\* Expressions; pos tells declarations of one name apart, val is that of a literal.
Expr(k, name, typ, args, results, body) ==
    [k |-> k, name |-> name, typ |-> typ, args |-> args, results |-> results, body |-> body, pos |-> 0]
Name(name) == Expr("Name", name, "", <<>>, <<>>, <<>>)
Unparen(e) == IF e.k = "Paren" THEN e.args[1] ELSE e
IsName(e) == Unparen(e).k = "Name"
IsBlank(e) == IsName(e) /\ Unparen(e).name = "_"
IsCall(e) == Unparen(e).k = "Call"
\* Calls and receive operations may be statements.
IsStatement(e) == Unparen(e).k \in {"Call", "Recv"}

Default(typ) ==
    CASE typ = "untyped int" -> "int"
      [] typ = "untyped string" -> "string"
      [] OTHER -> typ
IsUntyped(typ) == typ \in {"untyped int", "untyped string", "untyped bool", "untyped nil"}
IsInteger(typ) == typ \in {"int", "rune", "untyped int"}
IsNumeric(typ) == IsInteger(typ) \/ typ = "float64"
HasNil(typ) == typ \in {"map", "structs", "chan", "func", "iter0", "iter1", "any"}
IsMap(typ) == typ \in {"map", "structs"}
Elem(typ) == IF typ = "structs" THEN "struct" ELSE "int"
Comparable(typ) == ~IsMap(typ) /\ typ \notin {"func", "iter0", "iter1"}

\* The type that an untyped value takes as a value of type T, or "invalid".
ImplicitType(typ, T) ==
    CASE T = "any" -> IF typ = "untyped bool" THEN "bool" ELSE Default(typ)
      [] typ = "untyped int" -> IF IsNumeric(T) THEN T ELSE "invalid"
      [] typ = "untyped nil" -> IF HasNil(T) THEN "untyped nil" ELSE "invalid"
      [] typ = "untyped string" -> IF T = "string" THEN T ELSE "invalid"
      [] typ = "untyped bool" -> IF T = "bool" THEN T ELSE "invalid"
AssignableTo(typ, T) == typ = T \/ T = "any" \/ (typ = "untyped nil" /\ HasNil(T))

X(mode, typ, typs, val) == [mode |-> mode, typ |-> typ, typs |-> typs, val |-> val]
Value(typ) == X("value", typ, <<>>, "")
Bad == X("invalid", "invalid", <<>>, "")
Failed(x) == [x EXCEPT !.mode = "invalid"]
R(s, x) == [s |-> s, x |-> x]

\* An object of a scope; typ is "none" until it is known.
Obj(name, pos, kind, typ, val) ==
    [name |-> name, pos |-> pos, kind |-> kind, typ |-> typ, val |-> val, used |-> FALSE, fn |-> 0]
NoScope == [parent |-> 0, elems |-> <<>>]

error(s, code) == [s EXCEPT !.errs = Append(@, code)]

-----------------------------------------------------------------------------
(* Scopes.                                                                   *)

openScope(s) ==
    [s EXCEPT !.scopes = Append(@, [NoScope EXCEPT !.parent = s.scope]), !.scope = Len(s.scopes) + 1]
closeScope(s) == [s EXCEPT !.scope = s.scopes[@].parent]

Lookup(s, scope, name) == IF name \in DOMAIN s.scopes[scope].elems THEN s.scopes[scope].elems[name] ELSE 0
RECURSIVE LookupParent(_, _, _)
LookupParent(s, scope, name) ==
    IF scope = 0 THEN 0
    ELSE IF Lookup(s, scope, name) # 0 THEN Lookup(s, scope, name) ELSE LookupParent(s, s.scopes[scope].parent, name)
lookup(s, name) == LookupParent(s, s.scope, name)

NewObj(s, obj) == [s EXCEPT !.objs = Append(@, obj)]
declare(s, id) ==
    LET name == s.objs[id].name
    IN IF name = "_" THEN s
       ELSE IF Lookup(s, s.scope, name) # 0 THEN error(s, "DuplicateDecl")
       ELSE [s EXCEPT !.scopes[s.scope].elems = (name :> id) @@ @, !.objs[id].fn = s.fn]
declareAll(s, ids) == FoldLeft(LAMBDA acc, id : declare(acc, id), s, ids)

\* The variables of the scopes of this function that are not used.
usage(s) ==
    LET unused == SelectSeq(s.objs, LAMBDA obj : obj.fn = s.fn /\ obj.kind = "var" /\ ~obj.used)
    IN [s EXCEPT !.unused = @ \o [n \in DOMAIN unused |-> <<unused[n].name, unused[n].pos>>]]

-----------------------------------------------------------------------------
(* Expressions, as far as they use variables and have values.                *)

ident(s, name) ==
    LET id == lookup(s, name)
        obj == s.objs[id]
    IN IF id = 0 THEN R(error(s, IF name = "_" THEN "InvalidBlank" ELSE "UndeclaredName"), Bad)
       ELSE CASE obj.kind = "var" -> R([s EXCEPT !.objs[id].used = TRUE],
                                       IF obj.typ = "invalid" THEN Bad ELSE X("variable", obj.typ, <<>>, ""))
              [] obj.kind = "const" -> R(s, X("constant", obj.typ, <<>>, obj.val))
              [] obj.kind = "type" -> R(s, X("typexpr", obj.typ, <<>>, ""))
              [] obj.kind = "nil" -> R(s, Value("untyped nil"))

exclude(r) ==
    CASE r.x.mode = "novalue" -> R(error(r.s, "TooManyValues"), Bad)
      [] r.x.mode = "typexpr" -> R(error(r.s, "NotAnExpr"), Bad)
      [] OTHER -> r
singleValue(r) == IF r.x.typ = "tuple" /\ r.x.mode = "value" THEN R(error(r.s, "TooManyValues"), Bad) ELSE r

\* x as a value of type T, or of any type ("none").
assignment(s0, x0, T) ==
    LET single == singleValue(R(s0, x0))
        s == single.s  x == single.x
        want == CASE T # "none" -> T
                  [] x.typ = "untyped bool" -> "bool"
                  [] OTHER -> Default(x.typ)
        typ == IF IsUntyped(x.typ) THEN ImplicitType(x.typ, want) ELSE x.typ
    IN CASE x.mode = "invalid" -> single
         [] x.mode # "invalid" /\ T = "none" /\ x.typ = "untyped nil" -> R(error(s, "UntypedNilUse"), Failed(x))
         [] x.mode # "invalid" /\ ~(T = "none" /\ x.typ = "untyped nil") ->
                IF typ = "invalid" \/ (T # "none" /\ ~AssignableTo(typ, T)) THEN R(error(s, "IncompatibleAssign"), Failed(x))
                ELSE R(s, [x EXCEPT !.typ = typ])

RECURSIVE rawExpr(_, _)
expr(s, e) == singleValue(exclude(rawExpr(s, e)))

\* "A lhs identifier is not a use": the mark of its variable is restored.
Restored(s, before, e) ==
    LET id == IF IsName(e) THEN lookup(before, Unparen(e).name) ELSE 0
    IN IF id = 0 THEN s ELSE [s EXCEPT !.objs[id].used = before.objs[id].used]

use1(s, e, lhs) ==
    LET r == rawExpr(s, e)
    IN IF IsBlank(e) THEN R(s, Value("none")) ELSE IF lhs THEN R(Restored(r.s, s, e), r.x) ELSE r
useN(s, list, lhs) ==
    FoldLeft(LAMBDA acc, e : LET r == use1(acc.s, e, lhs) IN [s |-> r.s, ok |-> acc.ok /\ r.x.mode # "invalid"],
             [s |-> s, ok |-> TRUE], list)
use(s, list) == useN(s, list, FALSE)
useLHS(s, list) == useN(s, list, TRUE)

indexExpr(s, e) ==
    LET m == rawExpr(s, e.args[1])
        k == expr(m.s, e.args[2])
        key == assignment(k.s, k.x, "int")
    IN CASE m.x.mode = "invalid" -> R(use(m.s, <<e.args[2]>>).s, Bad)
         [] m.x.mode # "invalid" /\ ~IsMap(m.x.typ) -> R(use(error(m.s, "NonIndexableOperand"), <<e.args[2]>>).s, Bad)
         [] OTHER -> R(key.s, X("mapindex", Elem(m.x.typ), <<>>, ""))
callExpr(s, e) ==
    LET args == FoldLeft(LAMBDA acc, a : LET r == expr(acc, a) IN assignment(r.s, r.x, "any").s, s, e.args)
    IN R(args, CASE e.results = <<>> -> X("novalue", "none", <<>>, "")
                 [] Len(e.results) = 1 -> Value(e.results[1])
                 [] OTHER -> X("value", "tuple", e.results, ""))
rawExpr(s, e) ==
    LET x == rawExpr(s, e.args[1])
        v == expr(s, e.args[1])
    IN CASE e.k = "Name" -> ident(s, e.name)
         [] e.k = "Lit" -> R(s, X("constant", e.typ, <<>>, e.name))
         [] e.k = "Paren" -> x
         [] e.k = "Index" -> indexExpr(s, e)
         [] e.k = "Call" -> callExpr(s, e)
         [] e.k = "Recv" -> IF v.x.mode = "invalid" THEN v
                            ELSE IF v.x.typ = "chan" THEN R(v.s, X("commaok", "int", <<>>, ""))
                            ELSE R(error(v.s, "InvalidReceive"), Bad)
         [] e.k = "Field" -> IF x.x.mode = "invalid" THEN x
                             ELSE IF x.x.typ # "struct" THEN R(error(x.s, "MissingFieldOrMethod"), Bad)
                             ELSE R(x.s, IF x.x.mode = "variable" THEN [x.x EXCEPT !.typ = "int"] ELSE Value("int"))
         [] e.k = "FuncLit" -> R([s EXCEPT !.delayed = Append(@, [scope |-> s.scope, lit |-> e])], Value("func"))

\* The operands that e is the list of; ok is FALSE if the first is not valid.
multiExpr(s, e, allowCommaOk) ==
    LET r == exclude(rawExpr(s, e))
    IN CASE r.x.mode # "invalid" /\ r.x.typ = "tuple" ->
                [s |-> r.s, list |-> [n \in DOMAIN r.x.typs |-> Value(r.x.typs[n])], commaOk |-> FALSE]
         [] allowCommaOk /\ r.x.mode \in {"mapindex", "commaok"} ->
                [s |-> r.s, list |-> <<r.x, Value("untyped bool")>>, commaOk |-> TRUE]
         [] OTHER -> [s |-> r.s, list |-> <<r.x>>, commaOk |-> FALSE]

binary(s, lhs, rhs) ==
    LET l == expr(s, lhs)
        r == expr(l.s, rhs)
        lt == IF IsUntyped(l.x.typ) /\ ~IsUntyped(r.x.typ) THEN ImplicitType(l.x.typ, r.x.typ) ELSE l.x.typ
        rt == IF IsUntyped(r.x.typ) /\ ~IsUntyped(l.x.typ) THEN ImplicitType(r.x.typ, l.x.typ) ELSE r.x.typ
    IN CASE l.x.mode = "invalid" \/ r.x.mode = "invalid" -> R(r.s, Bad)
         [] OTHER -> IF lt # rt \/ lt = "invalid" THEN R(error(r.s, "MismatchedTypes"), Bad)
                     ELSE IF IsNumeric(lt) \/ Default(lt) = "string" THEN R(r.s, [Value(lt) EXCEPT !.mode =
                         IF l.x.mode = "constant" /\ r.x.mode = "constant" THEN "constant" ELSE "value"])
                     ELSE R(error(r.s, "UndefinedOp"), Bad)

-----------------------------------------------------------------------------
(* Assignments.                                                              *)

\* The type of what e stands for: "none" for the blank identifier, or "invalid".
lhsVar(s, e) ==
    LET r == expr(s, e)
        after == Restored(r.s, s, e)
        again == expr(after, e.args[1])
    IN CASE IsBlank(e) -> [s |-> s, typ |-> "none"]
         [] ~IsBlank(e) /\ r.x.mode \in {"invalid", "variable", "mapindex"} -> [s |-> after, typ |-> r.x.typ]
         [] OTHER -> [s |-> IF e.k = "Field" THEN error(again.s, IF again.x.mode = "mapindex" THEN "UnaddressableFieldAssign"
                                                                 ELSE "UnassignableOperand")
                            ELSE error(after, "UnassignableOperand"), typ |-> "invalid"]

assignTo(s, e, x) ==
    LET T == lhsVar(s, e)
    IN IF T.typ = "invalid" THEN R(T.s, Failed(x)) ELSE assignment(T.s, x, T.typ)
assignVar(s, e, rhs) ==
    LET T == lhsVar(s, e)
        r == expr(T.s, rhs)
    IN IF T.typ = "invalid" THEN use(T.s, <<rhs>>).s ELSE assignment(r.s, r.x, T.typ).s

initVar(s, id, x) ==
    LET typ == s.objs[id].typ
        given(t) == [s EXCEPT !.objs[id].typ = IF @ = "none" THEN t ELSE @]
        found == IF x.typ = "untyped bool" THEN "bool" ELSE Default(x.typ)
    IN CASE x.mode = "invalid" \/ x.typ = "invalid" \/ typ = "invalid" -> R(given("invalid"), Failed(x))
         [] OTHER -> IF typ = "none" /\ x.typ = "untyped nil" THEN R(error(given("invalid"), "UntypedNilUse"), Failed(x))
                     ELSE assignment(given(found), x, IF typ = "none" THEN found ELSE typ)

\* "ensure that LHS variables have a type"
Ensured(s, ids) == FoldLeft(LAMBDA acc, id : [acc EXCEPT !.objs[id].typ = IF @ = "none" THEN "invalid" ELSE @], s, ids)

\* The results of giving the n-th value to what comes n-th, in order.
Each(acc, r) == [s |-> r.s, xs |-> Append(acc.xs, r.x)]
\* "Only record comma-ok expression if both initializations succeeded."
recordCommaOkTypes(r, commaOk) ==
    IF ~commaOk \/ r.xs[1].mode = "invalid" \/ r.xs[2].mode = "invalid" THEN r.s
    ELSE IF IsUntyped(r.xs[1].typ) \/ r.xs[2].typ # "bool" THEN error(r.s, "panic") ELSE r.s

initVars(s, ids, rhs, return) ==
    LET l == Len(ids)
        mismatch == IF return THEN "WrongResultCount" ELSE "WrongAssignCount"
        each == FoldLeftDomain(LAMBDA acc, n : LET r == expr(acc, rhs[n]) IN initVar(r.s, ids[n], r.x).s, s, rhs)
        all == use(s, rhs)
        listed == IF return THEN FoldLeft(LAMBDA acc, e : expr(acc, e).s, all.s, rhs) ELSE all.s
        m == multiExpr(s, rhs[1], l = 2 /\ ~return)
        given == FoldLeftDomain(LAMBDA acc, n : Each(acc, initVar(acc.s, ids[n], m.list[n])), [s |-> m.s, xs |-> <<>>], m.list)
    IN CASE l = Len(rhs) /\ ~(l = 1 /\ IsCall(rhs[1])) -> each
         [] l # Len(rhs) /\ Len(rhs) # 1 -> Ensured(IF all.ok THEN error(listed, mismatch) ELSE all.s, ids)
         [] OTHER -> IF l = Len(m.list) THEN recordCommaOkTypes(given, m.commaOk)
                     ELSE Ensured(IF m.list[1].mode # "invalid" THEN error(m.s, mismatch) ELSE m.s, ids)

assignVars(s, lhs, rhs) ==
    LET l == Len(lhs)
        each == FoldLeftDomain(LAMBDA acc, n : assignVar(acc, lhs[n], rhs[n]), s, rhs)
        left == useLHS(s, lhs)
        right == use(left.s, rhs)
        m == multiExpr(s, rhs[1], l = 2)
        given == FoldLeftDomain(LAMBDA acc, n : Each(acc, assignTo(acc.s, lhs[n], m.list[n])), [s |-> m.s, xs |-> <<>>], m.list)
    IN CASE l = Len(rhs) /\ ~(l = 1 /\ IsCall(rhs[1])) -> each
         [] l # Len(rhs) /\ Len(rhs) # 1 -> IF left.ok /\ right.ok THEN error(right.s, "WrongAssignCount") ELSE right.s
         [] OTHER -> IF l = Len(m.list) THEN recordCommaOkTypes(given, m.commaOk)
                     ELSE useLHS(IF m.list[1].mode # "invalid" THEN error(m.s, "WrongAssignCount") ELSE m.s, lhs).s

\* Gives the n-th variable on the left of := to st.vars, and whether it is new to st.new.
LeftOf(st, e) ==
    LET s == st.s
        alt == Lookup(s, s.scope, e.name)
        dummy(t) == [st EXCEPT !.s = NewObj(t, Obj("_", 0, "var", "none", "")), !.vars = Append(@, Len(t.objs) + 1), !.bad = TRUE]
        added == NewObj(s, Obj(e.name, e.pos, "var", "none", ""))
        id == Len(s.objs) + 1
    IN CASE e.k # "Name" -> dummy(error(use1(s, e, TRUE).s, "BadDecl"))
         [] e.k = "Name" /\ e.name # "_" /\ e.name \in st.seen -> dummy(error(s, "RepeatedDecl"))
         [] OTHER -> IF alt = 0 THEN [st EXCEPT !.s = added, !.vars = Append(@, id), !.seen = @ \cup {e.name},
                                                !.new = IF e.name = "_" THEN @ ELSE Append(@, id)]
                     ELSE IF s.objs[alt].kind = "var" THEN [st EXCEPT !.vars = Append(@, alt), !.seen = @ \cup {e.name}]
                     ELSE [dummy(error(s, "UnassignableOperand")) EXCEPT !.seen = @ \cup {e.name}]

\* The declarations of a block are mutually recursive with the function literals in them.
RECURSIVE processDelayed(_, _)
\* Mutant: function literals are checked after the scope has changed.
Delayed(s, top) == s
BeforeScopeChanges(s, top) == processDelayed(s, top)

shortVarDecl(s, lhs, rhs) ==
    LET left == FoldLeft(LeftOf, [s |-> s, vars |-> <<>>, new |-> <<>>, seen |-> {}, bad |-> FALSE], lhs)
        done == BeforeScopeChanges(initVars(left.s, left.vars, rhs, FALSE), Len(s.delayed))
    IN IF left.new = <<>> /\ ~left.bad THEN error(done, "NoNewVar") ELSE declareAll(done, left.new)

arityMatch(s, names, typ, values) ==
    CASE values = <<>> -> IF typ = "none" THEN error(s, "WrongAssignCount") ELSE s
      [] Len(names) < Len(values) \/ (Len(names) > Len(values) /\ values # <<>> /\ Len(values) # 1) -> error(s, "WrongAssignCount")
      [] OTHER -> s
\* The n-th variable of a specification, ids of which there are.
varDecl(s, ids, n, typ, values) ==
    LET typed(i) == [s EXCEPT !.objs[i].typ = typ]
        r == expr(typed(ids[n]), values[n])
        spread == FoldLeft(LAMBDA acc, i : [acc EXCEPT !.objs[i].typ = typ], s, ids)
    IN CASE Len(values) < n /\ Len(values) # 1 -> IF typ = "none" THEN Ensured(s, <<ids[n]>>) ELSE typed(ids[n])
         [] Len(values) = 1 /\ Len(ids) # 1 -> IF n = 1 THEN initVars(spread, ids, values, FALSE) ELSE s
         [] OTHER -> initVar(r.s, ids[n], r.x).s
declStmt(s0, names, typ, values) ==
    LET s == arityMatch(s0, names, typ, values)
        ids == [n \in DOMAIN names |-> Len(s.objs) + n]
        objs == FoldLeft(LAMBDA acc, e : NewObj(acc, Obj(e.name, e.pos, "var", "none", "")), s, names)
        init == FoldLeftDomain(LAMBDA acc, n : varDecl(acc, ids, n, typ, values), objs, names)
    IN declareAll(BeforeScopeChanges(init, Len(s.delayed)), ids)

returnStmt(s, results) ==
    LET named == s.sig # <<>> /\ s.objs[s.sig[1]].name # ""
    IN IF results = <<>> /\ named
       THEN FoldLeft(LAMBDA acc, id : IF lookup(acc, acc.objs[id].name) # id THEN error(acc, "OutOfScopeResult") ELSE acc, s, s.sig)
       ELSE initVars(s, s.sig, results, TRUE)

-----------------------------------------------------------------------------
(* Statements: their lists are clauses, with what a case lists, what it      *)
(* communicates, and a body.                                                 *)

Stmt(k, tok, typ, lhs, rhs, clauses) == [k |-> k, tok |-> tok, typ |-> typ, lhs |-> lhs, rhs |-> rhs, clauses |-> clauses]
Clause(list, comm, body) == [list |-> list, comm |-> comm, body |-> body]

RECURSIVE stmt(_, _)
stmtList(s, list) == FoldLeft(LAMBDA acc, st : stmt(acc, st), s, list)
block(s, list) == closeScope(stmtList(openScope(s), list))

assignStmt(s, st) ==
    LET x == binary(s, st.lhs[1], st.rhs[1])
    IN CASE st.tok = "=" -> assignVars(s, st.lhs, st.rhs)
         [] st.tok = ":=" -> shortVarDecl(s, st.lhs, st.rhs)
         [] OTHER -> IF Len(st.lhs) # 1 \/ Len(st.rhs) # 1 THEN error(s, "MultiValAssignOp")
                     ELSE IF x.x.mode = "invalid" THEN x.s ELSE assignTo(x.s, st.lhs[1], x.x).s
IntLit(val) == [Name(val) EXCEPT !.k = "Lit", !.typ = "untyped int"]
incDec(s, st) ==
    LET v == expr(s, st.lhs[1])
        x == binary(v.s, st.lhs[1], IntLit("1"))
    IN CASE v.x.mode = "invalid" -> v.s
         [] v.x.mode # "invalid" /\ ~IsNumeric(v.x.typ) -> error(v.s, "NonNumericIncDec")
         [] OTHER -> IF x.x.mode = "invalid" THEN x.s ELSE assignTo(x.s, st.lhs[1], x.x).s
exprStmt(s, e) ==
    LET r == rawExpr(s, e)
    IN IF IsStatement(e) THEN r.s ELSE error(r.s, IF r.x.mode = "typexpr" THEN "NotAnExpr" ELSE "UnusedExpr")
sendStmt(s, st) ==
    LET ch == expr(s, st.rhs[1])
        val == expr(ch.s, st.rhs[2])
    IN IF ch.x.mode = "invalid" \/ val.x.mode = "invalid" THEN val.s
       ELSE IF ch.x.typ # "chan" THEN error(val.s, "InvalidSend") ELSE assignment(val.s, val.x, "int").s

condition(s, conds) ==
    FoldLeft(LAMBDA acc, e : LET r == expr(acc, e)
                             IN IF r.x.mode = "invalid" \/ r.x.typ \in {"bool", "untyped bool"} THEN r.s
                                ELSE error(r.s, "InvalidCond"), s, conds)
ifStmt(s, st) ==
    LET cond == condition(stmtList(openScope(s), st.clauses[1].body), st.rhs)
    IN closeScope(FoldLeft(LAMBDA acc, c : block(acc, c.body), cond, Tail(st.clauses)))
forStmt(s, st) ==
    LET cond == condition(stmtList(openScope(s), st.clauses[1].body), st.rhs)
        post == stmtList(cond, st.clauses[2].body)
        checked == FoldLeft(LAMBDA acc, p : IF p.tok = ":=" THEN use(error(acc, "InvalidPostDecl"), p.lhs).s ELSE acc,
                            post, st.clauses[2].body)
    IN closeScope(block(checked, st.clauses[3].body))

multipleDefaults(s, n) == FoldLeft(LAMBDA acc, i : IF i = 1 THEN acc ELSE error(acc, "DuplicateDefault"), s, [i \in 1 .. n |-> i])
Defaults(st) == Cardinality({n \in DOMAIN st.clauses : st.clauses[n].list = <<>> /\ st.clauses[n].comm = <<>>})

\* One value of a case of a switch on x; st.seen are the constants that there were.
caseValue(st, x, e) ==
    LET v == expr(st.s, e)
        typ == IF IsUntyped(v.x.typ) THEN ImplicitType(v.x.typ, x.typ) ELSE v.x.typ
        wrong == typ = "invalid" \/ ~(AssignableTo(typ, x.typ) \/ AssignableTo(x.typ, typ))
                 \/ ((~Comparable(typ) \/ ~Comparable(x.typ)) /\ typ # "untyped nil")
    IN CASE x.mode = "invalid" \/ v.x.mode = "invalid" -> [st EXCEPT !.s = v.s]
         [] x.mode # "invalid" /\ v.x.mode # "invalid" /\ wrong -> [st EXCEPT !.s = error(v.s, "MismatchedTypes")]
         [] OTHER -> IF v.x.mode # "constant" \/ typ = "bool" THEN [st EXCEPT !.s = v.s]
                     ELSE IF <<v.x.val, typ>> \in st.seen THEN [st EXCEPT !.s = error(v.s, "DuplicateCase")]
                     ELSE [st EXCEPT !.s = v.s, !.seen = @ \cup {<<v.x.val, typ>>}]
switchTag(s, tag) ==
    LET r == expr(s, tag[1])
        x == assignment(r.s, r.x, "none")
    IN IF tag = <<>> THEN R(s, X("constant", "bool", <<>>, "true"))
       ELSE IF x.x.mode # "invalid" /\ ~Comparable(x.x.typ) /\ ~HasNil(x.x.typ) THEN R(error(x.s, "InvalidExprSwitch"), Failed(x.x))
       ELSE x
switchStmt(s, st) ==
    LET x == switchTag(openScope(s), st.rhs)
        clause(acc, c) == LET values == FoldLeft(LAMBDA a, e : caseValue(a, x.x, e), acc, c.list)
                          IN [values EXCEPT !.s = block(@, c.body)]
    IN closeScope(FoldLeft(clause, [s |-> multipleDefaults(x.s, Defaults(st)), seen |-> {}], st.clauses).s)

\* One type of a case; st.T is the last type, "nil" for nil, or "none" if it is not one.
caseType(st, e) ==
    LET id == IF IsName(e) THEN lookup(st.s, Unparen(e).name) ELSE 0
        obj == st.s.objs[id]
        T == IF obj.kind = "nil" THEN "nil" ELSE obj.typ
        marked == IF obj.kind = "var" THEN [st.s EXCEPT !.objs[id].used = TRUE] ELSE st.s
    IN CASE id = 0 -> [st EXCEPT !.s = error(@, IF IsName(e) THEN "UndeclaredName" ELSE "NotAType"), !.T = "none"]
         [] id # 0 /\ obj.kind \in {"var", "const"} -> [st EXCEPT !.s = error(marked, "NotAType"), !.T = "none"]
         [] OTHER -> IF T \in st.seen THEN [st EXCEPT !.s = error(@, "DuplicateCase"), !.T = T]
                     ELSE [st EXCEPT !.T = T, !.seen = @ \cup {T}]
\* The variable of a type switch is another one in each clause.
typeClause(st, name, c, X0) ==
    LET types == FoldLeft(caseType, [st EXCEPT !.T = "none"], c.list)
        T == IF Len(c.list) = 1 /\ types.T \notin {"none", "nil"} THEN types.T
             ELSE IF Len(c.list) = 1 /\ types.T = "none" THEN "invalid" ELSE X0
        opened == openScope(types.s)
        id == Len(opened.objs) + 1
        declared == IF name = <<>> THEN opened ELSE declare(NewObj(opened, Obj(name[1].name, name[1].pos, "var", T, "")), id)
    IN [types EXCEPT !.s = closeScope(stmtList(declared, c.body)), !.vars = IF name = <<>> THEN @ ELSE @ \cup {id}]
\* "All lhs variables act as one; i.e., if any one of them is used, all of them are used."
AsOne(s, vars, name) ==
    LET marked == [s EXCEPT !.objs = [id \in DOMAIN @ |-> [@[id] EXCEPT !.used = @ \/ id \in vars]]]
    IN IF \E id \in vars : s.objs[id].used THEN marked ELSE [marked EXCEPT !.unused = Append(@, <<name.name, name.pos>>)]
typeSwitchStmt(s, st) ==
    LET opened == openScope(s)
        blank == st.lhs # <<>> /\ IsBlank(st.lhs[1])
        name == IF blank THEN <<>> ELSE st.lhs
        x == expr(IF blank THEN error(opened, "NoNewVar") ELSE opened, st.rhs[1])
        sx == x.x.mode # "invalid" /\ x.x.typ = "any"
        start == multipleDefaults(IF x.x.mode # "invalid" /\ ~sx THEN error(x.s, "InvalidTypeSwitch") ELSE x.s, Defaults(st))
        done == FoldLeft(LAMBDA acc, c : typeClause(acc, name, c, IF sx THEN "any" ELSE "invalid"),
                         [s |-> start, seen |-> {}, T |-> "none", vars |-> {}], st.clauses)
    IN closeScope(IF name = <<>> THEN done.s ELSE AsOne(done.s, done.vars, name[1]))

selectStmt(s, st) ==
    LET ofReceive(e) == Unparen(e).k = "Recv"
        valid(c) == \A n \in DOMAIN c.comm : CASE c.comm[n].k = "Send" -> TRUE
                                              [] c.comm[n].k \in {"Assign", "Expr"} -> Len(c.comm[n].rhs) = 1 /\ ofReceive(c.comm[n].rhs[1])
                                              [] OTHER -> FALSE
    IN FoldLeft(LAMBDA acc, c : IF valid(c) THEN block(acc, c.comm \o c.body) ELSE error(acc, "InvalidSelectCase"),
                multipleDefaults(s, Defaults(st)), st.clauses)

\* What a range clause over a value of the type yields; "none" if there is no such value.
rangeKeyVal(typ) ==
    LET yields(key, val) == [ok |-> TRUE, key |-> key, val |-> val]
    IN CASE Default(typ) = "string" -> yields("int", "rune")
         [] IsInteger(typ) -> yields(typ, "none")
         [] IsMap(typ) -> yields("int", Elem(typ))
         [] typ \in {"chan", "iter1"} -> yields("int", "none")
         [] typ = "iter0" -> yields("none", "none")
         [] OTHER -> [ok |-> FALSE, key |-> "invalid", val |-> "invalid"]

\* An iteration variable that is declared; without a type "don't complain about unused variable".
iterationVar(st, x, e, typ) ==
    LET s == NewObj(st.s, Obj(IF e.k = "Name" THEN e.name ELSE "_", e.pos, "var", "none", ""))
        id == Len(s.objs)
        named == [st EXCEPT !.vars = IF e.k = "Name" /\ e.name # "_" THEN Append(@, id) ELSE @]
    IN IF typ \in {"none", "invalid"} THEN [named EXCEPT !.s = [s EXCEPT !.objs[id].typ = "invalid", !.objs[id].used = TRUE]]
       ELSE [named EXCEPT !.s = initVar(s, id, IF IsInteger(x.typ) THEN x ELSE Value(typ)).s]
iterationAssign(s, x, e, typ) ==
    LET r == assignTo(s, e, IF IsInteger(x.typ) THEN x ELSE Value(typ))
    IN IF typ \in {"none", "invalid"} THEN s
       ELSE IF IsInteger(x.typ) /\ r.x.mode # "invalid" /\ ~IsInteger(r.x.typ) THEN error(r.s, "InvalidRangeExpr")
       ELSE r.s
rangeStmt(s, st) ==
    LET x == expr(s, st.rhs[1])
        kv == rangeKeyVal(x.x.typ)
        want == IF x.x.mode = "invalid" THEN <<"none", "none">> ELSE <<kv.key, kv.val>>
        checked == CASE x.x.mode = "invalid" -> x.s
                     [] x.x.mode # "invalid" /\ ~kv.ok -> error(x.s, "InvalidRangeExpr")
                     [] OTHER -> IF (kv.key = "none" /\ st.lhs # <<>>) \/ (kv.val = "none" /\ Len(st.lhs) = 2)
                                 THEN error(x.s, "InvalidIterVar") ELSE x.s
        opened == openScope(checked)
        defined == FoldLeftDomain(LAMBDA acc, n : iterationVar(acc, x.x, st.lhs[n], want[n]), [s |-> opened, vars |-> <<>>], st.lhs)
        vars == CASE st.tok = ":=" -> IF defined.vars = <<>> THEN error(defined.s, "NoNewVar")
                                      ELSE declareAll(defined.s, defined.vars)
                  [] st.tok # ":=" /\ st.lhs # <<>> ->
                         FoldLeftDomain(LAMBDA acc, n : iterationAssign(acc, x.x, st.lhs[n], want[n]), opened, st.lhs)
                  [] OTHER -> IF IsInteger(x.x.typ) THEN assignment(opened, x.x, "none").s ELSE opened
    IN closeScope(block(vars, st.clauses[1].body))

simple(s, st) ==
    CASE st.k = "Assign" -> assignStmt(s, st)
      [] st.k = "IncDec" -> incDec(s, st)
      [] st.k = "Var" -> declStmt(s, st.lhs, st.typ, st.rhs)
      [] st.k = "Return" -> returnStmt(s, st.rhs)
      [] st.k = "Expr" -> exprStmt(s, st.rhs[1])
      [] st.k = "Send" -> sendStmt(s, st)
stmtInner(s, st) ==
    CASE st.k = "If" -> ifStmt(s, st)
      [] st.k = "For" -> forStmt(s, st)
      [] st.k = "Range" -> rangeStmt(s, st)
      [] st.k = "Switch" -> switchStmt(s, st)
      [] st.k = "TypeSwitch" -> typeSwitchStmt(s, st)
      [] st.k = "Select" -> selectStmt(s, st)
      \* A block, or an open tag and the body of its element.
      [] st.k = "Block" -> FoldLeft(LAMBDA acc, c : block(acc, c.body), s, st.clauses)
      [] OTHER -> simple(s, st)
stmt(s, st) == processDelayed(stmtInner(s, st), Len(s.delayed))

\* The body of a function, with its results; s.fn is the scope of the function.
funcBody(s, scope, results, list) ==
    LET opened == openScope([s EXCEPT !.scope = scope])
        objs == FoldLeft(LAMBDA acc, T : NewObj(acc, Obj("", 0, "param", T, "")), opened, results)
        body == [objs EXCEPT !.sig = [n \in DOMAIN results |-> Len(s.objs) + n], !.fn = opened.scope]
    IN [usage(stmtList(body, list)) EXCEPT !.scope = s.scope, !.sig = s.sig, !.fn = s.fn]
RECURSIVE DelayedFrom(_, _)
DelayedFrom(s, n) ==
    IF n > Len(s.delayed) THEN s
    ELSE DelayedFrom(funcBody(s, s.delayed[n].scope, s.delayed[n].lit.results, s.delayed[n].lit.body), n + 1)
processDelayed(s, top) == [DelayedFrom(s, top + 1) EXCEPT !.delayed = SubSeq(@, 1, top)]
===============================================================================
