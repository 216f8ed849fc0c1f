---------------------------------- MODULE Ast ----------------------------------
(***************************************************************************)
(* Syntax trees (ast/ast.go, ast/tgo.go), their positions and their        *)
(* traversal (ast/walk.go).                                                *)
(*                                                                         *)
(* A node is a record whose field k is the name of its Go type.  pos is    *)
(* the position of its first token, rp that of the token that closes it.   *)
(* The tokens of a file are at the positions 1, 2, ... and have the        *)
(* length 1; 0 is token.NoPos.  Nodes have no comments.                    *)
(***************************************************************************)
EXTENDS Naturals, Sequences, SequencesExt

NoPos == 0
Nil == [k |-> "nil"]

Ident(pos, name) == [k |-> "Ident", pos |-> pos, name |-> name]
BasicLit(pos, tok) == [k |-> "BasicLit", pos |-> pos, tok |-> tok]
Bad(kind, from, to) == [k |-> kind, pos |-> from, end |-> to]
FieldList(open, list, close) == [k |-> "FieldList", pos |-> open, list |-> list, rp |-> close]
Field(names, typ, tag) == [k |-> "Field", names |-> names, typ |-> typ, tag |-> tag]

IsBad(n) == n.k \in {"BadExpr", "BadStmt", "BadDecl"}

RECURSIVE Unparen(_)
Unparen(x) == IF x.k = "ParenExpr" THEN Unparen(x.x) ELSE x

-----------------------------------------------------------------------------
(* Positions.                                                                *)

RECURSIVE Pos(_)
RECURSIVE End(_)

PosOfFieldList(l) == IF l.pos # NoPos \/ l.list = <<>> THEN l.pos ELSE Pos(l.list[1])
EndOfFieldList(l) == IF l.rp # NoPos THEN l.rp + 1 ELSE IF l.list # <<>> THEN End(Last(l.list)) ELSE NoPos

PosOfField(f) == IF f.names # <<>> THEN Pos(f.names[1]) ELSE IF f.typ # Nil THEN Pos(f.typ) ELSE NoPos
EndOfField(f) == IF f.tag # Nil THEN End(f.tag) ELSE IF f.typ # Nil THEN End(f.typ)
                 ELSE IF f.names # <<>> THEN End(Last(f.names)) ELSE NoPos

PosOfExpr(x) ==
    CASE x.k = "CompositeLit" -> IF x.typ # Nil THEN Pos(x.typ) ELSE x.lp
      [] x.k = "FuncType" -> IF x.pos # NoPos THEN x.pos ELSE Pos(x.params)
      [] x.k = "FuncLit" -> Pos(x.typ)
      [] x.k \in {"SelectorExpr", "IndexExpr", "IndexListExpr", "SliceExpr", "TypeAssertExpr",
                  "CallExpr", "BinaryExpr", "KeyValueExpr"} -> Pos(x.x)
      [] OTHER -> x.pos

EndOfExpr(x) ==
    CASE x.k = "BadExpr" -> x.end
      [] x.k \in {"Ident", "BasicLit", "TemplateLiteralExpr"} -> x.pos + 1
      [] x.k = "Ellipsis" -> IF x.elt # Nil THEN End(x.elt) ELSE x.pos + 1
      [] x.k = "FuncType" -> IF x.results # Nil THEN End(x.results) ELSE End(x.params)
      [] x.k = "FuncLit" -> End(x.body)
      [] x.k = "SelectorExpr" -> End(x.sel)
      [] x.k \in {"StarExpr", "UnaryExpr"} -> End(x.x)
      [] x.k \in {"BinaryExpr", "KeyValueExpr", "MapType"} -> End(x.y)
      [] x.k \in {"ArrayType", "ChanType"} -> End(x.elt)
      [] x.k \in {"StructType", "InterfaceType"} -> End(x.fields)
      [] OTHER -> x.rp + 1

PosOfStmt(s) ==
    CASE s.k = "AssignStmt" -> Pos(s.lhs[1])
      [] s.k \in {"DeclStmt", "LabeledStmt", "ExprStmt", "SendStmt", "IncDecStmt", "ElementBlockStmt"} -> Pos(s.x)
      [] OTHER -> s.pos

EndOfStmt(s) ==
    CASE s.k = "BadStmt" -> s.end
      [] s.k = "AttributeStmt" -> s.endPos + 1
      [] s.k \in {"DeclStmt", "ExprStmt", "GoStmt", "DeferStmt"} -> End(s.x)
      [] s.k = "EmptyStmt" -> IF s.implicit THEN s.pos ELSE s.pos + 1
      [] s.k \in {"LabeledStmt", "SendStmt", "ElementBlockStmt"} -> End(s.y)
      [] s.k = "IncDecStmt" -> s.at + 1
      [] s.k = "AssignStmt" -> End(Last(s.rhs))
      [] s.k = "ReturnStmt" -> IF s.list # <<>> THEN End(Last(s.list)) ELSE s.pos + 1
      [] s.k = "BranchStmt" -> IF s.label # Nil THEN End(s.label) ELSE s.pos + 1
      [] s.k = "BlockStmt" -> IF s.rp # NoPos THEN s.rp + 1
                              ELSE IF s.list # <<>> THEN End(Last(s.list)) ELSE s.pos + 1
      [] s.k = "IfStmt" -> IF s.els # Nil THEN End(s.els) ELSE End(s.body)
      [] s.k \in {"CaseClause", "CommClause"} -> IF s.stmts # <<>> THEN End(Last(s.stmts)) ELSE s.colon + 1
      [] s.k \in {"OpenTag", "EndTag"} -> s.rp + 1
      [] OTHER -> End(s.body)

PosOfDecl(d) ==
    CASE d.k = "ImportSpec" -> IF d.name # Nil THEN Pos(d.name) ELSE Pos(d.path)
      [] d.k = "ValueSpec" -> Pos(d.names[1])
      [] d.k = "TypeSpec" -> Pos(d.name)
      [] d.k = "FuncDecl" -> Pos(d.typ)
      [] OTHER -> d.pos

EndOfDecl(d) ==
    CASE d.k = "BadDecl" -> d.end
      [] d.k = "ImportSpec" -> End(d.path)
      [] d.k = "ValueSpec" -> IF d.values # <<>> THEN End(Last(d.values))
                              ELSE IF d.typ # Nil THEN End(d.typ) ELSE End(Last(d.names))
      [] d.k = "TypeSpec" -> End(d.typ)
      [] d.k = "GenDecl" -> IF d.rp # NoPos THEN d.rp + 1 ELSE End(d.specs[1])
      [] d.k = "FuncDecl" -> IF d.body # Nil THEN End(d.body) ELSE End(d.typ)
      [] OTHER -> IF d.decls # <<>> THEN End(Last(d.decls)) ELSE End(d.name)

DeclKinds == {"ImportSpec", "ValueSpec", "TypeSpec", "BadDecl", "GenDecl", "FuncDecl", "File"}
StmtKinds == {"BadStmt", "DeclStmt", "EmptyStmt", "LabeledStmt", "ExprStmt", "SendStmt", "IncDecStmt",
    "AssignStmt", "GoStmt", "DeferStmt", "ReturnStmt", "BranchStmt", "BlockStmt", "IfStmt", "CaseClause",
    "SwitchStmt", "TypeSwitchStmt", "CommClause", "SelectStmt", "ForStmt", "RangeStmt",
    "OpenTag", "EndTag", "ElementBlockStmt", "AttributeStmt"}

Pos(n) == CASE n.k = "FieldList" -> PosOfFieldList(n) [] n.k = "Field" -> PosOfField(n)
            [] n.k \in DeclKinds -> PosOfDecl(n) [] n.k \in StmtKinds -> PosOfStmt(n) [] OTHER -> PosOfExpr(n)
End(n) == CASE n.k = "FieldList" -> EndOfFieldList(n) [] n.k = "Field" -> EndOfField(n)
            [] n.k \in DeclKinds -> EndOfDecl(n) [] n.k \in StmtKinds -> EndOfStmt(n) [] OTHER -> EndOfExpr(n)

-----------------------------------------------------------------------------
(* The children that Walk visits, in its order; Nil where there is none.     *)

PartsOfExpr(x) ==
    CASE x.k \in {"BadExpr", "Ident", "BasicLit", "TemplateLiteralExpr"} -> <<>>
      [] x.k \in {"Ellipsis", "ChanType"} -> <<x.elt>>
      [] x.k = "FuncLit" -> <<x.typ, x.body>>
      [] x.k = "CompositeLit" -> <<x.typ>> \o x.list
      [] x.k \in {"ParenExpr", "StarExpr", "UnaryExpr"} -> <<x.x>>
      [] x.k = "SelectorExpr" -> <<x.x, x.sel>>
      [] x.k \in {"IndexExpr", "IndexListExpr", "CallExpr"} -> <<x.x>> \o x.list
      [] x.k = "SliceExpr" -> <<x.x, x.low, x.high, x.max>>
      [] x.k = "TypeAssertExpr" -> <<x.x, x.typ>>
      [] x.k \in {"BinaryExpr", "KeyValueExpr", "MapType"} -> <<x.x, x.y>>
      [] x.k = "ArrayType" -> <<x.len, x.elt>>
      [] x.k \in {"StructType", "InterfaceType"} -> <<x.fields>>
      [] x.k = "FuncType" -> <<x.tparams, x.params, x.results>>

PartsOfStmt(s) ==
    CASE s.k \in {"BadStmt", "EmptyStmt"} -> <<>>
      [] s.k \in {"DeclStmt", "ExprStmt", "IncDecStmt", "GoStmt", "DeferStmt"} -> <<s.x>>
      [] s.k \in {"LabeledStmt", "SendStmt"} -> <<s.x, s.y>>
      [] s.k = "AssignStmt" -> s.lhs \o s.rhs
      [] s.k \in {"ReturnStmt", "BlockStmt"} -> s.list
      [] s.k = "BranchStmt" -> <<s.label>>
      [] s.k = "IfStmt" -> <<s.init, s.cond, s.body, s.els>>
      [] s.k = "CaseClause" -> s.list \o s.stmts
      [] s.k = "CommClause" -> <<s.comm>> \o s.stmts
      [] s.k \in {"SwitchStmt", "TypeSwitchStmt"} -> <<s.init, s.tag, s.body>>
      [] s.k = "SelectStmt" -> <<s.body>>
      [] s.k = "ForStmt" -> <<s.init, s.cond, s.post, s.body>>
      [] s.k = "RangeStmt" -> <<s.key, s.value, s.x, s.body>>

\* walkTgo: the name of a tag may be missing, and is then visited as the nil pointer NilName.
NilName == [k |-> "NilName"]
PartsOfTgo(s) ==
    CASE s.k = "ElementBlockStmt" -> <<s.x>> \o s.list \o <<s.y>>
      [] s.k = "OpenTag" -> <<s.name>> \o s.list
      [] s.k = "EndTag" -> <<s.name>>
      [] s.k = "AttributeStmt" -> <<s.name, s.value>>

PartsOfDecl(d) ==
    CASE d.k = "ImportSpec" -> <<d.name, d.path>>
      [] d.k = "ValueSpec" -> d.names \o <<d.typ>> \o d.values
      [] d.k = "TypeSpec" -> <<d.name, d.tparams, d.typ>>
      [] d.k = "BadDecl" -> <<>>
      [] d.k = "GenDecl" -> d.specs
      [] d.k = "FuncDecl" -> <<d.recv, d.name, d.typ, d.body>>
      [] d.k = "File" -> <<d.name>> \o d.decls

Parts(n) ==
    CASE n.k = "FieldList" -> n.list
      [] n.k = "Field" -> n.names \o <<n.typ, n.tag>>
      [] n.k \in DeclKinds -> PartsOfDecl(n)
      [] n.k \in {"OpenTag", "EndTag", "ElementBlockStmt", "AttributeStmt"} -> PartsOfTgo(n)
      [] n.k \in StmtKinds -> PartsOfStmt(n)
      [] n.k = "NilName" -> <<>>
      [] OTHER -> PartsOfExpr(n)

Children(n) == SelectSeq(Parts(n), LAMBDA c : c # Nil)

\* The nodes in the order in which Walk visits them.
RECURSIVE Preorder(_)
Preorder(n) == <<n>> \o FlattenSeq([i \in DOMAIN Children(n) |-> Preorder(Children(n)[i])])
==============================================================================
