------------------------------- MODULE Resolver -------------------------------
(***************************************************************************)
(* Identifier resolution (parser/resolver.go): a walk over the tree of a   *)
(* file that gives identifiers their objects.                              *)
(*                                                                         *)
(* An object is the position of the identifier that declares it, 0 is nil. *)
(* A resolver r has the scopes that are open, the first of which is that   *)
(* of the package, the scopes of labels with the labels that have been     *)
(* used in them, and the objects of the identifiers met so far. A scope is *)
(* a function from names to [obj, silent]; uses of a silent object (a type *)
(* parameter of a receiver) get no object. Tracing and the limit of the    *)
(* depth of scopes are left out.                                           *)
(***************************************************************************)
EXTENDS Integers, FiniteSets, FiniteSetsExt, TLC, Ast

NewResolver == [scopes |-> <<<<>>>>, labels |-> <<>>, targets |-> <<>>, objs |-> <<>>,
                unresolved |-> <<>>, errors |-> <<>>, panic |-> FALSE]

Top(r) == Len(r.scopes)
openScope(r) == [r EXCEPT !.scopes = Append(@, <<>>)]
closeScope(r) == [r EXCEPT !.scopes = Front(@)]
openLabelScope(r) == [r EXCEPT !.labels = Append(@, <<>>), !.targets = Append(@, <<>>)]

ObjIn(scope, name) == IF name \in DOMAIN scope THEN scope[name].obj ELSE 0
SetObj(r, ident, obj) ==
    IF ident.pos \in DOMAIN r.objs THEN [r EXCEPT !.panic = TRUE] ELSE [r EXCEPT !.objs = @ @@ ident.pos :> obj]
Report(r, pos) == [r EXCEPT !.errors = Append(@, pos)]

\* The labels that were used in a function body are looked up at its end.
closeLabelScope(r) ==
    LET Label(q, ident) ==
            LET obj == ObjIn(Last(r.labels), ident.name)
                s == SetObj(q, ident, obj)
            IN  IF obj = 0 THEN Report(s, ident.pos) ELSE s
    IN  [FoldLeft(Label, r, Last(r.targets)) EXCEPT !.labels = Front(@), !.targets = Front(@)]

\* Inserts ident into the scope stack[level]; the first of several declarations stays.
Insert(r, stack, level, ident, silent) ==
    [r EXCEPT ![stack][level] = @ @@ ident.name :> [obj |-> ident.pos, silent |-> silent]]
DeclareOne(r, stack, level, ident, silent) ==
    LET q == IF silent THEN r ELSE SetObj(r, ident, ident.pos)
    IN  IF ident.name = "_" THEN r
        ELSE Insert(IF ident.name \in DOMAIN q[stack][level] THEN Report(q, ident.pos) ELSE q,
                    stack, level, ident, silent)
declare(r, level, idents) ==
    FoldLeft(LAMBDA q, ident : DeclareOne(q, "scopes", level, ident, FALSE), r, idents)
declareTop(r, idents) == declare(r, Top(r), idents)

\* The identifiers on the left that are new in this scope are declared; the others get their objects.
shortVarDecl(r, lhs) ==
    LET idents == SelectSeq(lhs, LAMBDA x : x.k = "Ident" /\ x.name # "_")
        One(q, ident) ==
            LET obj == ObjIn(Last(q.scopes), ident.name)
            IN  IF obj # 0 THEN SetObj(q, ident, obj) ELSE declareTop(q, <<ident>>)
        q == FoldLeft(One, r, idents)
    IN  IF q.scopes = r.scopes THEN Report(q, Pos(lhs[1])) ELSE q

\* Mutant: the search begins at the outermost scope.
OutermostScope(r, name) == Min({i \in DOMAIN r.scopes : name \in DOMAIN r.scopes[i]})

\* The scope in which the name is found.
ScopeOf(r, name) == Max({i \in DOMAIN r.scopes : name \in DOMAIN r.scopes[i]})

resolve(r, ident, collect) ==
    IF ident.name = "_" THEN r
    ELSE IF \E i \in DOMAIN r.scopes : ident.name \in DOMAIN r.scopes[i]
    THEN LET found == r.scopes[ScopeOf(r, ident.name)][ident.name]
         IN  IF found.silent THEN r ELSE SetObj(r, ident, found.obj)
    ELSE IF collect THEN [r EXCEPT !.unresolved = Append(@, ident)] ELSE r

-----------------------------------------------------------------------------
(* The walk.                                                                 *)

RECURSIVE Visit(_, _)

WalkAll(r, nodes) == FoldLeft(LAMBDA q, n : IF n = Nil THEN q ELSE Visit(q, n), r, nodes)
ListOf(fields) == IF fields = Nil THEN <<>> ELSE fields.list
Names(fields) == FlattenSeq([i \in DOMAIN ListOf(fields) |-> fields.list[i].names])
Types(fields) == [i \in DOMAIN ListOf(fields) |-> fields.list[i].typ]

walkFuncType(r, typ) ==
    declareTop(WalkAll(r, Types(typ.params) \o Types(typ.results)), Names(typ.params) \o Names(typ.results))
walkFieldList(r, fields) == declareTop(WalkAll(r, Types(fields)), Names(fields))
walkTParams(r, fields) == WalkAll(declareTop(r, Names(fields)), Types(fields))
walkBody(r, body) == IF body = Nil THEN r ELSE closeLabelScope(WalkAll(openLabelScope(r), body.list))

\* The receiver's type parameters are declared, silently, before the rest is resolved.
ReceiverType(recv) == LET t == recv.list[1].typ IN IF t.k = "StarExpr" THEN t.x ELSE t
ReceiverArgs(recv) ==
    LET t == ReceiverType(recv)
    IN  IF ListOf(recv) # <<>> /\ t.k \in {"IndexExpr", "IndexListExpr"} THEN t.list ELSE <<>>
walkRecv(r, recv) ==
    LET args == ReceiverArgs(recv)
        declared == SelectSeq(args, LAMBDA x : x.k = "Ident")
        resolved == SelectSeq(args, LAMBDA x : x.k # "Ident")
        base == IF args = <<>> THEN ReceiverType(recv) ELSE ReceiverType(recv).x
        q == FoldLeft(LAMBDA s, x : DeclareOne(s, "scopes", Top(s), x, TRUE), r, declared)
    IN  IF ListOf(recv) = <<>> THEN r ELSE WalkAll(q, <<base>> \o resolved \o Tail(Types(recv)))

\* Keys that are names may be those of fields: they are looked up but not collected.
VisitElement(r, e) ==
    IF e.k # "KeyValueExpr" THEN Visit(r, e)
    ELSE Visit(IF e.x.k = "Ident" THEN resolve(r, e.x, FALSE) ELSE Visit(r, e.x), e.y)

InScope(r, nodes) == closeScope(WalkAll(openScope(r), nodes))

VisitExpr(r, n) ==
    CASE n.k = "Ident" -> resolve(r, n, TRUE)
      [] n.k = "FuncLit" -> closeScope(walkBody(walkFuncType(openScope(r), n.typ), n.body))
      [] n.k = "SelectorExpr" -> Visit(r, n.x)
      [] n.k \in {"StructType", "InterfaceType"} -> closeScope(walkFieldList(openScope(r), n.fields))
      [] n.k = "FuncType" -> closeScope(walkFuncType(openScope(r), n))
      [] n.k = "CompositeLit" -> FoldLeft(VisitElement, WalkAll(r, <<n.typ>>), n.list)
      [] n.k = "NilName" -> [r EXCEPT !.panic = TRUE]
      [] OTHER -> WalkAll(r, Children(n))

VisitRange(r, n) ==
    LET q == Visit(openScope(r), n.x)
        lhs == SelectSeq(<<n.key, n.value>>, LAMBDA x : x # Nil)
        others == SelectSeq([i \in DOMAIN lhs |-> Unparen(lhs[i])], LAMBDA x : x.k # "Ident")
        s == IF lhs = <<>> \/ n.op # ":=" THEN WalkAll(q, lhs) ELSE shortVarDecl(WalkAll(q, others), lhs)
    IN  closeScope(Visit(s, n.body))

VisitSwitch(r, n) ==
    LET q == WalkAll(openScope(r), <<n.init>>)
        Body(s) == closeScope(WalkAll(s, <<n.tag>> \o n.body.list))
    IN  IF n.tag # Nil /\ n.init # Nil THEN closeScope(Body(openScope(q))) ELSE Body(q)

VisitTypeSwitch(r, n) ==
    LET Body(s) == closeScope(WalkAll(openScope(s), <<n.tag>> \o n.body.list))
    IN  IF n.init = Nil THEN Body(r) ELSE closeScope(Body(Visit(openScope(r), n.init)))

VisitStmt(r, n) ==
    CASE n.k = "LabeledStmt" -> Visit(DeclareOne(r, "labels", Len(r.labels), n.x, FALSE), n.y)
      [] n.k = "AssignStmt" ->
            LET q == WalkAll(r, n.rhs) IN IF n.op = ":=" THEN shortVarDecl(q, n.lhs) ELSE WalkAll(q, n.lhs)
      [] n.k = "BranchStmt" ->
            IF n.op = "fallthrough" \/ n.label = Nil THEN r
            ELSE [r EXCEPT !.targets[Len(r.targets)] = Append(@, n.label)]
      [] n.k = "BlockStmt" -> InScope(r, n.list)
      [] n.k \in {"IfStmt", "ForStmt", "CommClause"} -> InScope(r, Children(n))
      [] n.k = "CaseClause" -> InScope(WalkAll(r, n.list), n.stmts)
      [] n.k = "SwitchStmt" -> VisitSwitch(r, n)
      [] n.k = "TypeSwitchStmt" -> VisitTypeSwitch(r, n)
      [] n.k = "SelectStmt" -> WalkAll(r, n.body.list)
      [] n.k = "RangeStmt" -> VisitRange(r, n)
      [] OTHER -> WalkAll(r, Children(n))

VisitValueSpec(r, spec) == declareTop(WalkAll(r, spec.values \o <<spec.typ>>), spec.names)

\* The scopes of type parameters stay open until the end of the declaration.
VisitTypeSpec(r, spec) ==
    LET q == declareTop(r, <<spec.name>>)
    IN  Visit(IF spec.tparams = Nil THEN q ELSE walkTParams(openScope(q), spec.tparams), spec.typ)

VisitGenDecl(r, n) ==
    CASE n.op \in {"const", "var"} -> FoldLeft(VisitValueSpec, r, n.specs)
      [] n.op = "type" -> LET q == FoldLeft(VisitTypeSpec, r, n.specs)
                          IN  [q EXCEPT !.scopes = SubSeq(@, 1, Top(r))]
      [] OTHER -> r

VisitFuncDecl(r, n) ==
    LET q == walkRecv(openScope(r), n.recv)
        s == IF n.typ.tparams = Nil THEN q ELSE walkTParams(q, n.typ.tparams)
        t == WalkAll(s, Types(n.typ.params) \o Types(n.typ.results))
        u == declareTop(t, Names(n.recv) \o Names(n.typ.params) \o Names(n.typ.results))
        v == closeScope(walkBody(u, n.body))
    IN  IF n.recv = Nil /\ n.name.name # "init" THEN declare(v, 1, <<n.name>>) ELSE v

Visit(r, n) ==
    CASE n.k = "GenDecl" -> VisitGenDecl(r, n)
      [] n.k = "FuncDecl" -> VisitFuncDecl(r, n)
      [] n.k \in StmtKinds -> VisitStmt(r, n)
      [] OTHER -> VisitExpr(r, n)

\* What is still unresolved is looked up in the package once more.
resolveFile(file) ==
    LET r == WalkAll(NewResolver, file.decls)
        Late(q, ident) ==
            LET obj == ObjIn(r.scopes[1], ident.name)
            IN  IF obj # 0 THEN SetObj(q, ident, obj) ELSE [q EXCEPT !.unresolved = Append(@, ident)]
    IN  FoldLeft(Late, [r EXCEPT !.unresolved = <<>>], r.unresolved)
==============================================================================
