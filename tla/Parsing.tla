-------------------------------- MODULE Parsing --------------------------------
(***************************************************************************)
(* Calls of ParseFile and ParseExpr, and what is true of their results.    *)
(***************************************************************************)
EXTENDS Grammar, Resolver

CONSTANT Inputs   \* sets of inputs [entry, toks]

VARIABLES
    input,
    returned      \* has the call returned? Its result is a function of the input

vars == <<input, returned>>

Parsed(in) == IF in.entry = "file" THEN ParseFile(in.toks) ELSE ParseExprFrom(in.toks)

Init ==
    /\ \E family \in Inputs : input \in family
    /\ returned = FALSE

Next ==
    /\ ~returned
    /\ returned' = TRUE
    /\ UNCHANGED input

Spec == Init /\ [][Next]_vars

-----------------------------------------------------------------------------
(* The scopes of the language, by positions: a declaration is visible from   *)
(* some position on to the end of the innermost block around it. This is     *)
(* what identifier resolution (module Resolver) is compared with.            *)

NodesOf(file) == LET all == Preorder(file) IN {all[i] : i \in DOMAIN all}
FuncsOf(nodes) == {n \in nodes : n.k \in {"FuncDecl", "FuncLit"}}
Interval(n) == <<Pos(n), End(n)>>
Within(pos, block) == block[1] <= pos /\ pos < block[2]
IdentsIn(list) == {n \in UNION {NodesOf(list[i]) : i \in DOMAIN list} : n.k = "Ident"}

\* The body and the signature of a function share the block of the function. The body of an
\* element is not a block here, though it is one for the type checker.
BlocksOf(nodes) ==
    LET shared == {f.body : f \in FuncsOf(nodes)} \cup {f.typ : f \in FuncsOf(nodes)}
    IN  {<<0, 1000>>}
        \cup {Interval(n) : n \in {m \in nodes \ shared : m.k \in {"FuncDecl", "FuncLit", "FuncType", "BlockStmt",
                "StructType", "InterfaceType", "IfStmt", "SwitchStmt", "TypeSwitchStmt", "CommClause", "ForStmt", "RangeStmt"}}}
        \cup {<<n.colon, End(n)>> : n \in {m \in nodes : m.k = "CaseClause"}}
        \cup {<<Pos(n.tag), End(n)>> : n \in {m \in nodes : m.k \in {"SwitchStmt", "TypeSwitchStmt"} /\ m.tag # Nil}}
        \cup {Interval(n) : n \in {m \in nodes : m.k = "TypeSpec" /\ m.tparams # Nil}}

\* Blocks nest: the one that begins last, and then ends first, is the innermost.
Inner(b, c) == b[1] > c[1] \/ (b[1] = c[1] /\ b[2] <= c[2])
BlockAt(blocks, pos) ==
    LET around == {b \in blocks : Within(pos, b)} IN CHOOSE b \in around : \A c \in around : Inner(b, c)

\* Identifiers that a list declares in a block, visible from a position on.
Decl(idents, block, from, silent) ==
    {[name |-> d.name, pos |-> d.pos, block |-> block, from |-> from, silent |-> silent] :
        d \in {e \in idents : e.k = "Ident" /\ e.name # "_"}}
ElementsOf(list) == {list[i] : i \in DOMAIN list}
NamesOf(fields) == ElementsOf(Names(fields))

FuncDecls(f) ==
    LET block == Interval(f)
    IN  Decl(NamesOf(f.typ.params) \cup NamesOf(f.typ.results), block, End(f.typ), FALSE)
        \cup (IF f.k = "FuncLit" THEN {} ELSE
              Decl(NamesOf(f.typ.tparams), block, Pos(f), FALSE)
              \cup (IF f.recv = Nil THEN Decl({f.name}, <<0, 1000>>, End(f), FALSE)
                    ELSE Decl(NamesOf(f.recv), block, End(f.typ), FALSE)
                         \cup Decl(ElementsOf(ReceiverArgs(f.recv)), block, Pos(f), TRUE)))
GenDecls(d, block) ==
    UNION {CASE s.k = "ValueSpec" -> Decl(ElementsOf(s.names), block, End(s), FALSE)
             [] s.k = "TypeSpec" -> Decl({s.name}, block, Pos(s.name), FALSE)
                                    \cup Decl(NamesOf(s.tparams), Interval(s), Pos(s), FALSE)
             [] OTHER -> {} : s \in ElementsOf(d.specs)}

\* All identifiers that may be declarations: on the left of := they are if they are new.
DeclsOf(nodes) ==
    LET blocks == BlocksOf(nodes)
        At(n) == BlockAt(blocks, Pos(n))
    IN  UNION {CASE n.k \in {"FuncDecl", "FuncLit"} -> FuncDecls(n)
                 [] n.k = "GenDecl" -> GenDecls(n, At(n))
                 [] n.k = "AssignStmt" /\ n.op = ":=" -> Decl(ElementsOf(n.lhs), At(n), End(n), FALSE)
                 [] n.k = "RangeStmt" /\ n.op = ":=" ->
                        Decl({n.key, n.value} \ {Nil}, Interval(n), End(n.x), FALSE)
                 [] OTHER -> {} : n \in nodes}

\* The declaration of a name that is visible at a position, in the whole package if late: of
\* those in the innermost block, the first.
Visible(decls, name, pos, late) ==
    LET all == {d \in decls : d.name = name /\ Within(pos, d.block) /\ (d.from <= pos \/ (late /\ d.block[1] = 0))}
        inner == {d \in all : \A e \in all : Inner(d.block, e.block)}
    IN  {d \in inner : \A e \in inner : d.from < e.from \/ (d.from = e.from /\ d.pos <= e.pos)}

\* Names that are declared, or are not those of objects, are no uses; nor is what is on the
\* left of := but not a name, which is an error that the parser lets pass.
NotUses(nodes) ==
    UNION {CASE n.k = "SelectorExpr" -> {n.sel}
             [] n.k = "LabeledStmt" -> {n.x}
             [] n.k = "BranchStmt" -> {n.label}
             [] n.k \in {"Field", "ValueSpec"} -> ElementsOf(n.names)
             [] n.k = "ImportSpec" -> {n.name}
             [] n.k = "TypeSpec" -> {n.name}
             [] n.k = "File" -> {n.name}
             [] n.k = "FuncDecl" -> {n.name} \cup (IF n.recv = Nil THEN {} ELSE ElementsOf(ReceiverArgs(n.recv)))
             [] n.k = "AssignStmt" /\ n.op = ":=" -> IdentsIn(n.lhs)
             [] n.k = "RangeStmt" /\ n.op = ":=" -> {n.key, n.value}
             [] OTHER -> {} : n \in nodes}
KeysOf(nodes) ==
    UNION {{e.x : e \in {x \in ElementsOf(n.list) : x.k = "KeyValueExpr"}} : n \in {m \in nodes : m.k = "CompositeLit"}}

\* The object of an identifier, 0 if it has none.
ObjOf(r, ident) == IF ident.pos \in DOMAIN r.objs THEN r.objs[ident.pos] ELSE 0
Agrees(r, ident, found) ==
    ObjOf(r, ident) = (IF found = {} \/ \E d \in found : d.silent THEN 0 ELSE (CHOOSE d \in found : TRUE).pos)

\* Uses have the objects that are visible, and only names that nothing declares stay unresolved.
UsesAreResolved(r, nodes) ==
    LET decls == DeclsOf(nodes)
        keys == KeysOf(nodes)
        uses == {n \in nodes : n.k = "Ident" /\ n.name \notin {"_", "."}} \ NotUses(nodes)
        Found(u) == Visible(decls, u.name, u.pos, u \notin keys)
    IN  /\ \A u \in uses : Agrees(r, u, Found(u))
        /\ {r.unresolved[i] : i \in DOMAIN r.unresolved} = {u \in uses \ keys : Found(u) = {}}

\* The identifiers on the left of := have the first object of their name in their block.
AssignedAreFirst(r, nodes) ==
    LET decls == DeclsOf(nodes)
    IN  \A d \in decls : ~d.silent =>
            LET same == {e \in decls : e.name = d.name /\ e.block = d.block}
                first == {e \in same : \A o \in same : e.from < o.from \/ (e.from = o.from /\ e.pos <= o.pos)}
                short == \E n \in nodes : (n.k = "AssignStmt" /\ \E i \in DOMAIN n.lhs : n.lhs[i].k = "Ident" /\ n.lhs[i].pos = d.pos)
                            \/ (n.k = "RangeStmt" /\ \E x \in {n.key, n.value} \ {Nil} : x.k = "Ident" /\ x.pos = d.pos)
            IN  r.objs[d.pos] = (IF short THEN (CHOOSE e \in first : TRUE).pos ELSE d.pos)

\* A label is one of the same function, whether it comes before or after its use.
LabelsAreResolved(r, nodes) ==
    LET funcs == {Interval(f) : f \in FuncsOf(nodes)}
        labels == {n.x : n \in {m \in nodes : m.k = "LabeledStmt"}}
    IN  \A b \in {n \in nodes : n.k = "BranchStmt" /\ n.op # "fallthrough" /\ n.label # Nil} :
            LET same == {x \in labels : x.name = b.label.name /\ BlockAt(funcs, x.pos) = BlockAt(funcs, b.label.pos)}
            IN  ObjOf(r, b.label) = (IF same = {} THEN 0 ELSE Min({x.pos : x \in same}))

\* A declaration of several types leaves the scopes of their type parameters open until its end,
\* so that the types that follow are declared in, and see, the scope of another.
GenericInGroup(nodes) ==
    \E n \in nodes : n.k = "GenDecl" /\ Len(n.specs) > 1
                     /\ \E i \in DOMAIN n.specs : n.specs[i].k = "TypeSpec" /\ n.specs[i].tparams # Nil

-----------------------------------------------------------------------------
(* Properties of a call that returns.                                        *)

IsName(toks, i) == toks[i] \in Idents \cup Literals \cup {"t{"}
IsLeaf(n) == n.k \in {"BasicLit", "TemplateLiteralExpr"} \/ (n.k = "Ident" /\ n.name # ".")

\* No part of an accepted input is lost or met twice: the names and literals of the tree,
\* as Walk visits them, are those of the input, in order.
LeavesAreTokens(toks, nodes) ==
    LET leaves == SelectSeq(nodes, IsLeaf)
    IN  [j \in DOMAIN leaves |-> leaves[j].pos] = SelectSeq([i \in DOMAIN toks |-> i], LAMBDA i : IsName(toks, i))

\* A node lies within its parent, behind the node before it.
PositionsNest(nodes) ==
    \A i \in DOMAIN nodes :
        LET n == nodes[i]
            kids == Children(n)
        IN  \A j \in DOMAIN kids : Pos(n) <= Pos(kids[j]) /\ Pos(kids[j]) <= End(kids[j]) /\ End(kids[j]) <= End(n)

\* Operators bind by precedence, those of the same precedence from the left.
BindsByPrecedence(nodes) ==
    \A i \in DOMAIN nodes : nodes[i].k = "BinaryExpr" =>
        LET prec(x) == IF x.k = "BinaryExpr" THEN Precedence(x.op) ELSE 6
        IN  prec(nodes[i].x) >= prec(nodes[i]) /\ prec(nodes[i].y) > prec(nodes[i])

\* The tree of an accepted input is the whole input, and says where in it each node is.
TreeIsInput(in) ==
    LET p == Parsed(in)
        nodes == Preorder(p.r)
    IN  p.errors = <<>> =>
            /\ \A i \in DOMAIN nodes : ~IsBad(nodes[i]) /\ nodes[i] # NilName
            /\ LeavesAreTokens(p.toks, nodes)
            /\ PositionsNest(nodes)
            /\ BindsByPrecedence(nodes)

\* After errors the parser goes on to the end of the file, but not forever: calls that consume
\* nothing are counted, and levels are left as they were entered. It resolves the identifiers of
\* whatever tree it has. A tag without a name, which it leaves in the tree after an error, is an
\* exception: the resolver panics (ResolverEnds).
RecoveryEnds(in) ==
    LET p == Parsed(in)
        isFile == in.entry = "file" /\ ~p.bailout /\ p.r # Nil
    IN  /\ p.syncs <= 11 * (Len(p.toks) + 1)
        /\ Len(p.errors) <= 11
        /\ ~p.bailout => p.exprLev = 0 /\ p.nestLev = 0 /\ ~p.inRhs
        /\ isFile => p.i > Len(p.toks)
        /\ isFile /\ NilName \notin NodesOf(p.r) => ~resolveFile(p.r).panic

ResolverEnds(in) ==
    LET p == Parsed(in) IN in.entry = "file" /\ ~p.bailout /\ p.r # Nil => ~resolveFile(p.r).panic

\* In accepted files, a name has the object of the innermost declaration that is visible.
NamesAreResolved(in) ==
    LET p == Parsed(in)
        nodes == NodesOf(p.r)
        r == resolveFile(p.r)
    IN  in.entry = "file" /\ p.errors = <<>> =>
            /\ ~r.panic
            /\ ~GenericInGroup(nodes) =>
                UsesAreResolved(r, nodes) /\ AssignedAreFirst(r, nodes) /\ LabelsAreResolved(r, nodes)
==============================================================================
