-------------------------------- MODULE Grammar --------------------------------
(***************************************************************************)
(* The parser (parser/parser.go, parser/tgo.go): a recursive descent over  *)
(* tokens that builds a syntax tree and goes on after errors.              *)
(*                                                                         *)
(* A token is a string: an identifier is its name, 1 an integer, s a       *)
(* string, t{ a template literal with its parts (module Lexer), \n a       *)
(* semicolon that the scanner inserted. Comments, resolution (module       *)
(* Resolver), wording and the modes of the parser are left out.            *)
(*                                                                         *)
(* A parser p is a record: i is the position of the current token, errors  *)
(* are the positions of the errors reported so far, syncs counts the calls *)
(* of advance, r is the result of the operation that returned p. bailout   *)
(* is a panic whose results are dropped, so the parser may as well be at   *)
(* the end of the file.                                                    *)
(***************************************************************************)
EXTENDS Integers, FiniteSetsExt, Ast

CONSTANT MaxNestLev   \* how deep the parser recurses

Idents == {"x", "y", "T", "P", "br", "_"}
Literals == {"1", "s"}

Tok(p) == IF p.i <= Len(p.toks) THEN p.toks[p.i] ELSE "EOF"
next(p) == IF p.i <= Len(p.toks) THEN [p EXCEPT !.i = @ + 1] ELSE p
IsIdent(p) == Tok(p) \in Idents
IsSemi(p) == Tok(p) \in {";", "\n"}
Return(p, result) == [p EXCEPT !.r = result]

NewParser(toks) ==
    [toks |-> toks, i |-> 1, errors |-> <<>>, syncPos |-> 0, syncCnt |-> 0, syncs |-> 0,
     exprLev |-> 0, inRhs |-> FALSE, nestLev |-> 0, bailout |-> FALSE, r |-> Nil]

bailout(p) == [p EXCEPT !.bailout = TRUE, !.i = Len(p.toks) + 1]

Line(p, pos) == Cardinality({i \in 1 .. pos - 1 : p.toks[i] = "\n"})

\* One error for each line; after more than ten, the parser gives up.
error(p, pos) ==
    LET n == Len(p.errors)
        spurious == n > 0 /\ Line(p, p.errors[n]) = Line(p, pos)
    IN  CASE p.bailout \/ spurious -> p
          [] ~p.bailout /\ ~spurious /\ n > 10 -> bailout(p)
          [] OTHER -> [p EXCEPT !.errors = Append(@, pos)]

expect(p, tok) == next(IF Tok(p) = tok THEN p ELSE error(p, p.i))
expectClosing(p, tok) == expect(IF Tok(p) = "\n" THEN next(error(p, p.i)) ELSE p, tok)

stmtStart == {"break", "const", "continue", "defer", "fallthrough", "for", "go", "goto", "if",
              "return", "select", "switch", "type", "var"}
declStart == {"import", "const", "type", "var"}
exprEnd == {",", ":", ";", "\n", ")", "]", "}"}

RECURSIVE Skip(_, _)
Skip(p, to) ==
    CASE Tok(p) = "EOF" -> p
      [] Tok(p) \in to /\ p.i = p.syncPos /\ p.syncCnt < 10 -> [p EXCEPT !.syncCnt = @ + 1]
      [] Tok(p) \in to /\ p.i > p.syncPos -> [p EXCEPT !.syncPos = p.i, !.syncCnt = 0]
      [] OTHER -> Skip(next(p), to)

\* Mutant: nothing counts the calls that consume no token; stopped when it has gone on for long.
AdvanceUnlimited(p, to) ==
    IF p.syncs > 200 THEN bailout(p)
    ELSE Skip([p EXCEPT !.syncs = @ + 1, !.syncCnt = 0], to)

\* Consumes tokens until the current one is in the set to, after an error.
advance(p, to) == Skip([p EXCEPT !.syncs = @ + 1], to)

BadUpTo(p, kind, from, to) == LET a == advance(error(p, from), to) IN Return(a, Bad(kind, from, a.i))

expectSemi(p) ==
    CASE Tok(p) \in {")", "}"} -> p
      [] Tok(p) = "," -> next(error(p, p.i))
      [] IsSemi(p) -> next(p)
      [] OTHER -> advance(error(p, p.i), stmtStart)
expectSemiAllowEndTag(p) == IF Tok(p) = "</" THEN p ELSE expectSemi(p)

\* atComma complains and goes on as if there were a comma, unless the list ends here.
Comma(p) == IF Tok(p) = "," THEN p ELSE error(p, p.i)

incNestLev(p) ==
    IF p.nestLev >= MaxNestLev /\ ~p.bailout THEN bailout(error(p, p.i)) ELSE [p EXCEPT !.nestLev = @ + 1]
decNestLev(p) == [p EXCEPT !.nestLev = @ - 1]
incExprLev(p) == [p EXCEPT !.exprLev = @ + 1]
decExprLev(p) == [p EXCEPT !.exprLev = @ - 1]

safePos(p, pos) == IF pos > Len(p.toks) + 1 THEN Len(p.toks) + 1 ELSE pos

RECURSIVE parseType(_)
RECURSIVE tryIdentOrType(_)
RECURSIVE parseExpr(_)
RECURSIVE parseUnaryExpr(_)
RECURSIVE parseStmt(_)
RECURSIVE parseElement(_)
RECURSIVE parseGenDecl(_)
RECURSIVE embeddedElem(_, _)

-----------------------------------------------------------------------------
(* Identifiers and lists.                                                    *)

parseIdent(p) ==
    IF IsIdent(p) THEN Return(next(p), Ident(p.i, Tok(p)))
    ELSE Return(expect(p, "IDENT"), Ident(p.i, "_"))

Item(p, what) ==
    CASE what = "ident" -> parseIdent(p) [] what = "expr" -> parseExpr(p)
      [] what = "type" -> parseType(p)   [] what = "element" -> parseElement(p)

\* One item, and one after each comma.
RECURSIVE CommaList(_, _, _)
CommaList(p, what, list) ==
    LET a == Item(p, what)
    IN  IF Tok(a) = "," THEN CommaList(next(a), what, Append(list, a.r))
        ELSE Return(a, Append(list, a.r))

\* Items up to the token closing, with an optional comma at the end.
RECURSIVE ClosedList(_, _, _, _)
ClosedList(p, what, closing, list) ==
    LET a == Item(p, what)
    IN  IF Tok(p) \in {closing, "EOF"} THEN Return(p, list)
        ELSE IF Tok(a) = closing THEN Return(a, Append(list, a.r))
        ELSE ClosedList(next(Comma(a)), what, closing, Append(list, a.r))

parseIdentList(p) == CommaList(p, "ident", <<>>)
parseList(p, inRhs) == [CommaList([p EXCEPT !.inRhs = inRhs], "expr", <<>>) EXCEPT !.inRhs = p.inRhs]
parseRhs(p) == [parseExpr([p EXCEPT !.inRhs = TRUE]) EXCEPT !.inRhs = p.inRhs]

-----------------------------------------------------------------------------
(* Types.                                                                    *)

Index(x, lbrack, list, rbrack) ==
    [k |-> IF Len(list) = 1 THEN "IndexExpr" ELSE "IndexListExpr",
     x |-> x, lp |-> lbrack, list |-> list, rp |-> rbrack]
Selector(x, sel) == [k |-> "SelectorExpr", x |-> x, sel |-> sel]
Star(pos, x) == [k |-> "StarExpr", pos |-> pos, x |-> x]
Paren(pos, x, rp) == [k |-> "ParenExpr", pos |-> pos, x |-> x, rp |-> rp]
Ellipsis(pos, elt) == [k |-> "Ellipsis", pos |-> pos, elt |-> elt]
ArrayType(pos, len, elt) == [k |-> "ArrayType", pos |-> pos, len |-> len, elt |-> elt]
FuncType(pos, tparams, params, results) ==
    [k |-> "FuncType", pos |-> pos, tparams |-> tparams, params |-> params, results |-> results]
Unary(pos, op, x) == [k |-> "UnaryExpr", pos |-> pos, op |-> op, x |-> x]
Binary(x, op, at, y) == [k |-> "BinaryExpr", x |-> x, op |-> op, at |-> at, y |-> y]

parseType(p) ==
    LET a == tryIdentOrType(p) IN IF a.r # Nil THEN a ELSE BadUpTo(a, "BadExpr", a.i, exprEnd)

parseTypeInstance(p, typ) ==
    LET list == decExprLev(ClosedList(incExprLev(expect(p, "[")), "type", "]", <<>>))
        c == IF Tok(list) = "\n" THEN next(error(list, list.i)) ELSE list
        closing == expect(c, "]")
    IN  IF list.r = <<>> THEN Return(error(closing, c.i), Index(typ, p.i, <<Bad("BadExpr", p.i + 1, c.i)>>, c.i))
        ELSE Return(closing, Index(typ, p.i, list.r, c.i))

parseTypeName(p, ident) ==
    LET a == IF ident = Nil THEN parseIdent(p) ELSE Return(p, ident)
        sel == parseIdent(next(a))
    IN  IF Tok(a) = "." THEN Return(sel, Selector(a.r, sel.r)) ELSE a

parseQualifiedIdent(p, ident) ==
    LET a == parseTypeName(p, ident) IN IF Tok(a) = "[" THEN parseTypeInstance(a, a.r) ELSE a

\* "[" has been consumed at lbrack; len is the length, if it has been.
parseArrayType(p, lbrack, len) ==
    LET a == CASE len # Nil -> Return(p, len)
               [] len = Nil /\ Tok(p) = "..." -> Return(next(p), Ellipsis(p.i, Nil))
               [] len = Nil /\ Tok(p) = "]" -> Return(p, Nil)
               [] OTHER -> decExprLev(parseRhs(incExprLev(p)))
        b == IF Tok(a) = "," THEN next(error(a, a.i)) ELSE a
        elt == parseType(expect(b, "]"))
    IN  Return(elt, ArrayType(lbrack, a.r, elt.r))

RECURSIVE ArgsWithComma(_, _)
ArgsWithComma(p, list) ==
    LET a == parseRhs(p)
        args == Append(list, a.r)
    IN  CASE Tok(a) = "," /\ Tok(next(a)) = "]" -> Return(next(a), [list |-> args, comma |-> a.i])
          [] Tok(a) = "," /\ Tok(next(a)) # "]" -> ArgsWithComma(next(a), args)
          [] OTHER -> Return(a, [list |-> args, comma |-> NoPos])

\* x []E, x [P]E or x[P, ...]: a name with an array type, or a type.
parseArrayFieldOrTypeInstance(p, x) ==
    LET open == expect(p, "[")
        args == IF Tok(open) = "]" THEN Return(open, [list |-> <<>>, comma |-> NoPos])
                ELSE decExprLev(ArgsWithComma(incExprLev(open), <<>>))
        list == args.r.list
        close == expect(args, "]")
        elt == IF list = <<>> THEN parseType(close) ELSE tryIdentOrType(close)
        array == [name |-> x, typ |-> ArrayType(p.i, IF list = <<>> THEN Nil ELSE list[1], elt.r)]
    IN  CASE list = <<>> -> Return(elt, array)
          [] Len(list) = 1 /\ elt.r # Nil ->
                Return(IF args.r.comma # NoPos THEN error(elt, args.r.comma) ELSE elt, array)
          [] OTHER -> Return(close, [name |-> Nil, typ |-> Index(x, p.i, list, args.i)])

\* (T), (*T) and *(T) are errors, but accepted; the current token is the parenthesis.
ParenthesizedEmbedded(p) ==
    LET a == next(error(p, p.i))
        t == IF Tok(a) = "*" THEN LET u == parseQualifiedIdent(next(a), Nil) IN Return(u, Star(a.i, u.r))
             ELSE parseQualifiedIdent(a, Nil)
    IN  IF Tok(t) = ")" THEN next(t) ELSE t

\* The names and the type of a field that begins with an identifier.
NamedField(p) ==
    LET a == parseIdent(p)
        names == parseIdentList(p)
        f == parseArrayFieldOrTypeInstance(names, a.r)
        t == parseType(names)
    IN  CASE Tok(a) = "." -> LET q == parseQualifiedIdent(a, a.r) IN Return(q, Field(<<>>, q.r, Nil))
          [] Tok(a) \in {"s", ";", "\n", "}"} -> Return(a, Field(<<>>, a.r, Nil))
          [] Tok(a) \notin {".", "s", ";", "\n", "}"} /\ Len(names.r) = 1 /\ Tok(names) = "[" ->
                Return(f, Field(IF f.r.name = Nil THEN <<>> ELSE names.r, f.r.typ, Nil))
          [] OTHER -> Return(t, Field(names.r, t.r, Nil))

\* parseStructType calls it with an identifier, a star or a parenthesis.
parseFieldDecl(p) ==
    LET star == next(p)
        starred == IF Tok(star) = "(" THEN LET a == next(error(star, star.i))
                                               t == parseQualifiedIdent(a, Nil)
                                           IN  IF Tok(t) = ")" THEN next(t) ELSE t
                   ELSE parseQualifiedIdent(star, Nil)
        f == CASE IsIdent(p) -> NamedField(p)
               [] Tok(p) = "*" -> Return(starred, Field(<<>>, Star(p.i, starred.r), Nil))
               [] OTHER -> LET t == ParenthesizedEmbedded(p) IN Return(t, Field(<<>>, t.r, Nil))
    IN  expectSemi(IF Tok(f) = "s" THEN Return(next(f), [f.r EXCEPT !.tag = BasicLit(f.i, "s")]) ELSE f)

RECURSIVE Fields(_, _)
Fields(p, list) ==
    LET f == parseFieldDecl(p)
    IN  IF IsIdent(p) \/ Tok(p) \in {"*", "("} THEN Fields(f, Append(list, f.r)) ELSE Return(p, list)

parseStructType(p) ==
    LET open == expect(p, "struct")
        list == Fields(expect(open, "{"), <<>>)
    IN  Return(expect(list, "}"), [k |-> "StructType", pos |-> p.i, fields |-> FieldList(open.i, list.r, list.i)])

-----------------------------------------------------------------------------
(* Parameters.                                                               *)

TypeStart == {"*", "<-", "func", "[", "chan", "map", "struct", "interface", "("}

parseDotsType(p) == LET t == parseType(expect(p, "...")) IN Return(t, Ellipsis(p.i, t.r))

\* A parameter [name, typ], one of which may be missing; name has been consumed if it is given.
parseParamDecl(p, name, typeSetsOK) ==
    LET a == IF name # Nil THEN Return(p, name) ELSE parseIdent(p)
        Pair(n, t) == Return(t, [name |-> n, typ |-> t.r])
        none == Return(a, Nil)
        f == CASE ~(name # Nil \/ IsIdent(p)) ->
                    CASE Tok(p) \in TypeStart -> Pair(Nil, parseType(p))
                      [] Tok(p) = "..." -> Pair(Nil, parseDotsType(p))
                      [] OTHER -> Pair(Nil, Return(advance(error(p, p.i), exprEnd), Nil))
               [] IsIdent(a) \/ Tok(a) \in TypeStart \ {"["} -> Pair(a.r, parseType(a))
               [] Tok(a) = "[" -> parseArrayFieldOrTypeInstance(a, a.r)
               [] Tok(a) = "..." -> Pair(a.r, parseDotsType(a))
               [] Tok(a) = "." -> Pair(Nil, parseQualifiedIdent(a, a.r))
               [] Tok(a) = "~" /\ typeSetsOK -> Pair(a.r, embeddedElem(a, Nil))
               [] Tok(a) = "|" /\ typeSetsOK -> Pair(Nil, embeddedElem(a, a.r))
               [] OTHER -> Pair(a.r, none)
    IN  IF name = Nil /\ typeSetsOK /\ Tok(p) = "~" THEN Pair(Nil, embeddedElem(p, Nil))
        ELSE IF typeSetsOK /\ Tok(f) = "|" /\ f.r.typ # Nil /\ f.r.typ.k # "Ellipsis"
        THEN Pair(f.r.name, embeddedElem(f, f.r.typ))
        ELSE f

\* The parameters up to closing, of which the name and the type of the first may be known.
RECURSIVE Params(_, _, _, _, _)
Params(p, name0, typ0, closing, list) ==
    LET t == IF closing = "]" THEN embeddedElem(p, typ0) ELSE Return(p, typ0)
        par == IF typ0 # Nil THEN Return(t, [name |-> name0, typ |-> t.r])
               ELSE parseParamDecl(p, name0, closing = "]")
        longer == IF par.r.name = Nil /\ par.r.typ = Nil THEN list ELSE Append(list, par.r)
    IN  IF name0 = Nil /\ Tok(p) \in {closing, "EOF"} THEN Return(p, list)
        ELSE IF Tok(par) = closing THEN Return(par, longer)
        ELSE Params(next(Comma(par)), Nil, Nil, closing, longer)

\* Some parameters have a name and a type: each gets the type that follows it, and types are
\* parameters without a name. The result has the position of the leftmost error.
Distribute(list, end) ==
    LET Typed(i) == {j \in i .. Len(list) : list[j].typ # Nil}
        Wrong(i) == list[i].name = Nil \/ Typed(i) = {}
        At(i) == IF list[i].name = Nil THEN Pos(list[i].typ) ELSE Pos(list[i].name)
        wrong == {i \in DOMAIN list : Wrong(i)}
    IN  [list |-> [i \in DOMAIN list |->
            [name |-> IF list[i].name = Nil THEN Ident(At(i), "_") ELSE list[i].name,
             typ |-> IF Typed(i) = {} THEN Bad("BadExpr", At(i), end) ELSE list[Min(Typed(i))].typ]],
         errPos |-> IF wrong = {} THEN NoPos ELSE At(Min(wrong))]

\* Mutant: names are not collected under their type, but each gets its own field with it.
GroupSingly(list) == [i \in DOMAIN list |-> Field(<<list[i].name>>, list[i].typ, Nil)]

\* Neighbours with the same type share a field.
Group(list) ==
    LET Add(fields, par) ==
            IF fields # <<>> /\ Last(fields).typ = par.typ
            THEN [fields EXCEPT ![Len(fields)].names = Append(@, par.name)]
            ELSE Append(fields, Field(<<par.name>>, par.typ, Nil))
    IN  FoldLeft(Add, <<>>, list)

parseParameterList(p, name0, typ0, closing) ==
    LET a == Params(p, name0, typ0, closing, <<>>)
        list == a.r
        tparams == closing = "]"
        pos0 == IF name0 # Nil THEN Pos(name0) ELSE IF typ0 # Nil THEN Pos(typ0) ELSE p.i
        named == Cardinality({i \in DOMAIN list : list[i].name # Nil /\ list[i].typ # Nil})
        typed == Cardinality({i \in DOMAIN list : list[i].typ # Nil})
        d == Distribute(list, a.i)
        unnamed == [i \in DOMAIN list |-> Field(<<>>, IF list[i].name # Nil THEN list[i].name ELSE list[i].typ, Nil)]
    IN  CASE list = <<>> -> Return(a, <<>>)
          [] list # <<>> /\ named = 0 ->
                Return(IF ~tparams THEN a ELSE error(a, IF typed = 0 THEN a.i ELSE pos0), unnamed)
          [] named > 0 /\ named = Len(list) -> Return(a, Group(list))
          [] OTHER -> Return(IF d.errPos = NoPos THEN a
                             ELSE error(a, IF tparams /\ named = typed THEN a.i ELSE d.errPos),
                             Group(d.list))

\* The type parameters, if they are accepted, and the parameters.
parseParameters(p, acceptTParams) ==
    LET list == parseParameterList(next(p), Nil, Nil, "]")
        brack == expect(list, "]")
        t == IF ~(acceptTParams /\ Tok(p) = "[") THEN Return(p, Nil)
             ELSE IF list.r = <<>> THEN Return(error(brack, list.i), Nil)
             ELSE Return(brack, FieldList(p.i, list.r, list.i))
        open == expect(t, "(")
        fields == IF Tok(open) = ")" THEN Return(open, <<>>) ELSE parseParameterList(open, Nil, Nil, ")")
    IN  Return(expect(fields, ")"), [tparams |-> t.r, params |-> FieldList(t.i, fields.r, fields.i)])

parseResult(p) ==
    LET ps == parseParameters(p, FALSE)
        t == tryIdentOrType(p)
    IN  CASE Tok(p) = "(" -> Return(ps, ps.r.params)
          [] Tok(p) # "(" /\ t.r # Nil -> Return(t, FieldList(NoPos, <<Field(<<>>, t.r, Nil)>>, NoPos))
          [] OTHER -> Return(p, Nil)

\* The parameters and results of a function type whose keyword is at pos.
Signature(p, pos) ==
    LET ps == parseParameters(p, TRUE)
        a == IF ps.r.tparams # Nil THEN error(ps, Pos(ps.r.tparams)) ELSE ps
        results == parseResult(a)
    IN  Return(results, FuncType(pos, Nil, ps.r.params, results.r))

parseFuncType(p) == Signature(expect(p, "func"), p.i)

-----------------------------------------------------------------------------
(* Interfaces, and the other types.                                          *)

\* A method of an interface, after its name.
Method(p, ident) ==
    LET ps == parseParameters(p, FALSE)
        results == parseResult(ps)
    IN  Return(results, Field(<<ident>>, FuncType(NoPos, Nil, ps.r.params, results.r), Nil))

\* m[T any](), which is an error, or the embedded type m[T]; the current token is "[".
GenericMethod(p, ident) ==
    LET x == decExprLev(parseExpr(incExprLev(next(p))))
        tparams == parseParameterList(x, x.r, Nil, "]")
        args == IF Tok(x) = "]" THEN Return(x, <<x.r>>)
                ELSE decExprLev(ClosedList(next(incExprLev(Comma(x))), "type", "]", <<x.r>>))
        c == IF Tok(args) = "\n" THEN next(error(args, args.i)) ELSE args
    IN  IF x.r.k = "Ident" /\ Tok(x) \notin {",", "]"}
        THEN Method(error(expect(tparams, "]"), p.i), ident)
        ELSE Return(expect(c, "]"), Field(<<>>, Index(ident, p.i, args.r, c.i), Nil))

parseMethodSpec(p) ==
    LET x == parseTypeName(p, Nil)
        typ == IF Tok(x) = "[" THEN parseTypeInstance(x, x.r) ELSE x
    IN  CASE x.r.k = "Ident" /\ Tok(x) = "[" -> GenericMethod(x, x.r)
          [] x.r.k = "Ident" /\ Tok(x) = "(" -> Method(x, x.r)
          [] OTHER -> Return(typ, Field(<<>>, typ.r, Nil))

embeddedTerm(p) ==
    LET t == parseType(next(p))
        u == tryIdentOrType(p)
    IN  CASE Tok(p) = "~" -> Return(t, Unary(p.i, "~", t.r))
          [] Tok(p) # "~" /\ u.r # Nil -> u
          [] OTHER -> BadUpTo(p, "BadExpr", p.i, exprEnd)

embeddedElem(p, x) ==
    LET a == IF x = Nil THEN embeddedTerm(p) ELSE Return(p, x)
        y == embeddedTerm(next(a))
    IN  IF Tok(a) = "|" THEN embeddedElem(y, Binary(a.r, "|", a.i, y.r)) ELSE a

RECURSIVE InterfaceElems(_, _)
InterfaceElems(p, list) ==
    LET m == parseMethodSpec(p)
        t == tryIdentOrType(p)
        Embedded(e) == Return(e, Field(<<>>, e.r, Nil))
        f == CASE IsIdent(p) -> IF m.r.names = <<>> THEN Embedded(embeddedElem(m, m.r.typ)) ELSE m
               [] Tok(p) = "~" -> Embedded(embeddedElem(p, Nil))
               [] OTHER -> Embedded(embeddedElem(t, t.r))
    IN  IF ~IsIdent(p) /\ Tok(p) # "~" /\ t.r = Nil THEN Return(t, list)
        ELSE InterfaceElems(expectSemi(f), Append(list, f.r))

parseInterfaceType(p) ==
    LET open == expect(p, "interface")
        list == InterfaceElems(expect(open, "{"), <<>>)
    IN  Return(expect(list, "}"), [k |-> "InterfaceType", pos |-> p.i, fields |-> FieldList(open.i, list.r, list.i)])

parseMapType(p) ==
    LET key == parseType(expect(expect(p, "map"), "["))
        value == parseType(expect(key, "]"))
    IN  Return(value, [k |-> "MapType", pos |-> p.i, x |-> key.r, y |-> value.r])

parseChanType(p) ==
    LET a == next(p)
        send == Tok(p) = "chan" /\ Tok(a) = "<-"
        recv == Tok(p) # "chan"
        value == parseType(IF recv THEN expect(expect(p, "<-"), "chan") ELSE IF send THEN next(a) ELSE a)
    IN  Return(value, [k |-> "ChanType", pos |-> p.i,
                       arrow |-> IF recv THEN p.i ELSE IF send THEN a.i ELSE NoPos,
                       dir |-> IF recv THEN "RECV" ELSE IF send THEN "SEND" ELSE "BOTH", elt |-> value.r])

tryIdentOrType(p) ==
    LET q == incNestLev(p)
        paren == parseType(next(q))
    IN  decNestLev(CASE IsIdent(q) -> parseQualifiedIdent(q, Nil)
          [] Tok(q) = "[" -> parseArrayType(expect(q, "["), q.i, Nil)
          [] Tok(q) = "struct" -> parseStructType(q)
          [] Tok(q) = "*" -> LET base == parseType(expect(q, "*")) IN Return(base, Star(q.i, base.r))
          [] Tok(q) = "func" -> parseFuncType(q)
          [] Tok(q) = "interface" -> parseInterfaceType(q)
          [] Tok(q) = "map" -> parseMapType(q)
          [] Tok(q) \in {"chan", "<-"} -> parseChanType(q)
          [] Tok(q) = "(" -> Return(expect(paren, ")"), Paren(q.i, paren.r, paren.i))
          [] OTHER -> Return(q, Nil))

-----------------------------------------------------------------------------
(* Expressions.                                                              *)

\* Statements up to one of the tokens that may follow a list of statements.
RECURSIVE Stmts(_, _, _)
Stmts(p, ends, list) ==
    LET s == parseStmt(p)
    IN  IF Tok(p) \in ends \cup {"EOF"} THEN Return(p, list) ELSE Stmts(s, ends, Append(list, s.r))

RECURSIVE Unlabel(_)
Unlabel(s) == IF s.k = "LabeledStmt" THEN Unlabel(s.y) ELSE s

RECURSIVE Relabel(_, _)
Relabel(s, inner) == IF s.k = "LabeledStmt" THEN [s EXCEPT !.y = Relabel(s.y, inner)] ELSE inner

\* The statements between an open tag and its end tag become an element (module ElementBlocks).
combineElemmentBlocks(p, list) ==
    LET NameOf(s) == Unlabel(s).name.name
        AppendTo(st, s) ==
            IF st.open = <<>> THEN [st EXCEPT !.out = Append(@, s)]
            ELSE [st EXCEPT !.open[Len(st.open)].body = Append(@, s)]
        Unclosed(open) == FlattenSeq([i \in DOMAIN open |-> <<open[i].tag>> \o open[i].body])
        ReportUnclosed(q, open) ==
            FoldLeft(LAMBDA e, o : IF NameOf(o.tag) = "br" THEN e ELSE error(e, Unlabel(o.tag).pos), q, open)
        Close(st, s, j) ==
            LET end == Unlabel(s)
                inner == SubSeq(st.open, j + 1, Len(st.open))
                last == IF s = end THEN <<>>
                        ELSE <<Relabel(s, [k |-> "EmptyStmt", pos |-> end.pos, implicit |-> TRUE])>>
                tag == st.open[j].tag
                element == [k |-> "ElementBlockStmt", x |-> Unlabel(tag),
                            list |-> st.open[j].body \o Unclosed(inner) \o last, y |-> end]
            IN  AppendTo([st EXCEPT !.p = ReportUnclosed(st.p, inner), !.open = SubSeq(@, 1, j - 1)],
                         Relabel(tag, element))
        Step(st, s) ==
            LET u == Unlabel(s)
                matches == {j \in DOMAIN st.open : NameOf(st.open[j].tag) = u.name.name}
            IN  CASE u.k = "OpenTag" /\ u.rp # NoPos -> [st EXCEPT !.open = Append(@, [tag |-> s, body |-> <<>>])]
                  [] u.k = "EndTag" /\ u.rp # NoPos ->
                        IF matches # {} THEN Close(st, s, Max(matches))
                        ELSE AppendTo([st EXCEPT !.p = error(@, u.pos)], s)
                  [] OTHER -> AppendTo(st, s)
        st == FoldLeft(Step, [p |-> p, open |-> <<>>, out |-> <<>>], list)
    IN  Return(ReportUnclosed(st.p, st.open), st.out \o Unclosed(st.open))

parseStmtList(p) ==
    LET list == Stmts(p, {"case", "default", "}"}, <<>>) IN combineElemmentBlocks(list, list.r)

BlockStmt(pos, list, rbrace) == [k |-> "BlockStmt", pos |-> pos, list |-> list, rp |-> rbrace]
parseBlockStmt(p) ==
    LET list == parseStmtList(expect(p, "{"))
    IN  Return(expect(list, "}"), BlockStmt(p.i, list.r, IF Tok(list) = "}" THEN list.i ELSE NoPos))

parseFuncTypeOrLit(p) ==
    LET typ == parseFuncType(p)
        body == decExprLev(parseBlockStmt(incExprLev(typ)))
    IN  IF Tok(typ) # "{" THEN typ ELSE Return(body, [k |-> "FuncLit", typ |-> typ.r, body |-> body.r])

parseOperand(p) ==
    LET paren == decExprLev(parseRhs(incExprLev(next(p))))
        typ == tryIdentOrType(p)
    IN  CASE IsIdent(p) -> parseIdent(p)
          [] Tok(p) \in Literals -> Return(next(p), BasicLit(p.i, Tok(p)))
          [] Tok(p) = "(" -> Return(expect(paren, ")"), Paren(p.i, paren.r, paren.i))
          [] Tok(p) = "func" -> parseFuncTypeOrLit(p)
          [] OTHER -> IF typ.r # Nil THEN typ ELSE BadUpTo(typ, "BadExpr", typ.i, stmtStart)

\* After the period, which has been consumed.
parseSelectorOrAssertion(p, x) ==
    LET sel == parseIdent(p)
        open == next(p)
        typ == IF Tok(open) = "type" THEN Return(next(open), Nil) ELSE parseType(open)
        bad == error(p, p.i)
    IN  CASE IsIdent(p) -> Return(sel, Selector(x, sel.r))
          [] Tok(p) = "(" -> Return(expect(typ, ")"), [k |-> "TypeAssertExpr", x |-> x, typ |-> typ.r, rp |-> typ.i])
          [] OTHER -> Return(IF Tok(bad) = "}" THEN bad ELSE next(bad), Selector(x, Ident(p.i, "_")))

\* The index after the colon of a slice expression, if there is one.
AfterColon(p) == IF Tok(p) \in {":", "]", "EOF"} THEN Return(p, Nil) ELSE parseRhs(p)

SliceIndices(p, x, lbrack, low) ==
    LET high == AfterColon(next(p))
        three == Tok(high) = ":"
        max == IF three THEN AfterColon(next(high)) ELSE Return(high, Nil)
        close == expect(decExprLev(max), "]")
        a == IF three /\ high.r = Nil THEN error(close, p.i) ELSE close
        b == IF three /\ max.r = Nil THEN error(a, high.i) ELSE a
        Need(y, from, to) == IF three /\ y = Nil THEN Bad("BadExpr", from + 1, to) ELSE y
    IN  Return(b, [k |-> "SliceExpr", x |-> x, lp |-> lbrack, low |-> low,
                   high |-> Need(high.r, p.i, high.i), max |-> Need(max.r, high.i, max.i), rp |-> max.i])

RECURSIVE InstanceArgs(_, _)
InstanceArgs(p, list) ==
    LET a == next(p)
        t == parseType(a)
    IN  IF Tok(p) # "," THEN Return(p, list)
        ELSE IF Tok(a) \in {"]", "EOF"} THEN InstanceArgs(a, list) ELSE InstanceArgs(t, Append(list, t.r))

parseIndexOrSliceOrInstance(p, x) ==
    LET a == next(p)
        b == incExprLev(a)
        index == IF Tok(b) = ":" THEN Return(b, Nil) ELSE parseRhs(b)
        args == decExprLev(InstanceArgs(index, <<index.r>>))
    IN  CASE Tok(a) = "]" -> Return(next(error(a, a.i)), Index(x, p.i, <<Bad("BadExpr", a.i, a.i)>>, a.i))
          [] Tok(a) # "]" /\ Tok(index) = ":" -> SliceIndices(index, x, p.i, index.r)
          [] OTHER -> Return(expect(args, "]"), Index(x, p.i, args.r, args.i))

RECURSIVE CallArgs(_, _)
CallArgs(p, list) ==
    LET a == parseRhs(p)
        ell == IF Tok(a) = "..." THEN a.i ELSE NoPos
        b == IF Tok(a) = "..." THEN next(a) ELSE a
        c == IF Tok(b) = ")" THEN b ELSE next(Comma(b))
        args == Append(list, a.r)
    IN  IF Tok(p) \in {")", "EOF"} THEN Return(p, [list |-> list, ell |-> NoPos])
        ELSE IF Tok(b) = ")" \/ ell # NoPos THEN Return(c, [list |-> args, ell |-> ell])
        ELSE CallArgs(c, args)

parseCallOrConversion(p, fun) ==
    LET a == decExprLev(CallArgs(incExprLev(expect(p, "(")), <<>>))
        c == IF Tok(a) = "\n" THEN next(error(a, a.i)) ELSE a
    IN  Return(expect(c, ")"), [k |-> "CallExpr", x |-> fun, lp |-> p.i, list |-> a.r.list, ell |-> a.r.ell, rp |-> c.i])

parseLiteralValue(p, typ) ==
    LET open == incExprLev(expect(incNestLev(p), "{"))
        elts == decExprLev(ClosedList(open, "element", "}", <<>>))
        c == IF Tok(elts) = "\n" THEN next(error(elts, elts.i)) ELSE elts
    IN  decNestLev(Return(expect(c, "}"), [k |-> "CompositeLit", typ |-> typ, lp |-> p.i, list |-> elts.r, rp |-> c.i]))

parseValue(p) == IF Tok(p) = "{" THEN parseLiteralValue(p, Nil) ELSE parseExpr(p)

parseElement(p) ==
    LET x == parseValue(p)
        y == parseValue(next(x))
    IN  IF Tok(x) = ":" THEN Return(y, [k |-> "KeyValueExpr", x |-> x.r, y |-> y.r]) ELSE x

\* Mutant: a brace in a control clause belongs to the expression before it.
BraceIsLiteral(p, t) ==
    t.k \in {"BadExpr", "Ident", "SelectorExpr", "IndexExpr", "IndexListExpr", "ArrayType", "StructType", "MapType"}

\* Does "{" after t begin a composite literal, or a block?
IsLiteralType(p, t) ==
    \/ p.exprLev >= 0 /\ t.k \in {"BadExpr", "Ident", "SelectorExpr", "IndexExpr", "IndexListExpr"}
    \/ t.k \in {"ArrayType", "StructType", "MapType"}

RECURSIVE PrimarySuffixes(_, _)
PrimarySuffixes(p, x) ==
    LET q == incNestLev(p)
        t == Unparen(x)
        y == CASE Tok(q) = "." -> parseSelectorOrAssertion(next(q), x)
               [] Tok(q) = "[" -> parseIndexOrSliceOrInstance(q, x)
               [] Tok(q) = "(" -> parseCallOrConversion(q, x)
               [] OTHER -> parseLiteralValue(IF t # x THEN error(q, Pos(t)) ELSE q, x)
    IN  decNestLev(IF Tok(q) \in {".", "[", "("} \/ (Tok(q) = "{" /\ IsLiteralType(q, t))
                   THEN PrimarySuffixes(y, y.r) ELSE Return(q, x))

parsePrimaryExpr(p, x) ==
    LET a == IF x = Nil THEN parseOperand(p) ELSE Return(p, x) IN PrimarySuffixes(a, a.r)

\* An arrow before the channel type typ, at the position arrow, belongs to it.
RECURSIVE ReassociateArrow(_, _, _)
ReassociateArrow(p, typ, arrow) ==
    LET q == IF typ.dir = "RECV" THEN error(p, typ.arrow) ELSE p
        recv == [typ EXCEPT !.pos = arrow, !.arrow = arrow, !.dir = "RECV"]
        elt == ReassociateArrow(q, typ.elt, typ.arrow)
    IN  CASE typ.dir # "SEND" -> Return(q, recv)
          [] typ.dir = "SEND" /\ typ.elt.k = "ChanType" -> Return(elt, [recv EXCEPT !.elt = elt.r])
          [] OTHER -> Return(error(q, typ.arrow), recv)

parseUnaryExpr(p) ==
    LET q == incNestLev(p)
        x == parseUnaryExpr(next(q))
    IN  decNestLev(CASE Tok(q) \in {"+", "-", "!", "^", "&", "~"} -> Return(x, Unary(q.i, Tok(q), x.r))
          [] Tok(q) = "<-" -> IF x.r.k = "ChanType" THEN ReassociateArrow(x, x.r, q.i)
                              ELSE Return(x, Unary(q.i, "<-", x.r))
          [] Tok(q) = "*" -> Return(x, Star(q.i, x.r))
          [] OTHER -> parsePrimaryExpr(q, Nil))

Precedence(op) ==
    CASE op = "||" -> 1 [] op = "&&" -> 2 [] op \in {"==", "<", ">"} -> 3
      [] op \in {"+", "-", "|", "^"} -> 4 [] op \in {"*", "/", "&"} -> 5 [] OTHER -> 0

\* In the right-hand side of an assignment, "=" is taken for "==".
tokPrec(p) == IF p.inRhs /\ Tok(p) = "=" THEN "==" ELSE Tok(p)

\* Mutant: operators of the same precedence associate to the right.
RightPrec(op) == Precedence(op)

\* The least precedence of the operators in the right operand of op.
OperandPrec(op) == Precedence(op) + 1

RECURSIVE parseBinaryExpr(_, _, _)
parseBinaryExpr(p, x0, prec1) ==
    LET x == IF x0 = Nil THEN parseUnaryExpr(p) ELSE Return(p, x0)
        q == incNestLev(x)
        op == tokPrec(q)
        y == parseBinaryExpr(expect(q, op), Nil, OperandPrec(op))
    IN  decNestLev(IF Precedence(op) < prec1 THEN Return(q, x.r)
                   ELSE parseBinaryExpr(y, Binary(x.r, op, q.i, y.r), prec1))

parseExpr(p) == parseBinaryExpr(p, Nil, 1)

-----------------------------------------------------------------------------
(* Statements.                                                               *)

AssignStmt(lhs, op, rhs) == [k |-> "AssignStmt", lhs |-> lhs, op |-> op, rhs |-> rhs]
ExprStmt(x) == [k |-> "ExprStmt", x |-> x]
SendStmt(x, y) == [k |-> "SendStmt", x |-> x, y |-> y]

\* Only a range clause has "range" as an operator.
IsRange(s) == s.k = "AssignStmt" /\ s.rhs[1].k = "UnaryExpr" /\ s.rhs[1].op = "range"
RangeClause(p, lhs, op) == LET x == parseRhs(next(p)) IN Return(x, AssignStmt(lhs, op, <<Unary(p.i, "range", x.r)>>))

parseSimpleStmt(p, mode) ==
    LET x == parseList(p, FALSE)
        lhs == x.r
        a == next(x)
        y == parseList(a, TRUE)
        q == IF Len(lhs) > 1 THEN error(x, Pos(lhs[1])) ELSE x
        b == next(q)
        labeled == parseStmt(b)
        sent == parseRhs(b)
    IN  CASE Tok(x) \in {":=", "=", "+="} ->
                IF mode = "rangeOk" /\ Tok(a) = "range" /\ Tok(x) # "+=" THEN RangeClause(a, lhs, Tok(x))
                ELSE Return(y, AssignStmt(lhs, Tok(x), y.r))
          [] Tok(x) = ":" ->
                IF mode = "labelOk" /\ lhs[1].k = "Ident"
                THEN Return(labeled, [k |-> "LabeledStmt", x |-> lhs[1], y |-> labeled.r])
                ELSE Return(error(b, q.i), Bad("BadStmt", Pos(lhs[1]), q.i + 1))
          [] Tok(x) = "<-" -> Return(sent, SendStmt(lhs[1], sent.r))
          [] Tok(x) \in {"++", "--"} -> Return(b, [k |-> "IncDecStmt", x |-> lhs[1], op |-> Tok(x), at |-> q.i])
          [] OTHER -> Return(q, ExprStmt(lhs[1]))

\* The call of a go or defer statement, Nil if there is none.
parseCallExpr(p) ==
    LET x == parseRhs(p)
        t == Unparen(x.r)
        a == IF t # x.r THEN error(x, Pos(x.r)) ELSE x
    IN  CASE t.k = "CallExpr" -> Return(a, t)
          [] t.k = "BadExpr" -> Return(a, Nil)
          [] OTHER -> Return(error(a, safePos(a, End(t))), Nil)

parseGoOrDeferStmt(p) ==
    LET call == parseCallExpr(next(p))
    IN  Return(expectSemi(call), IF call.r = Nil THEN Bad("BadStmt", p.i, p.i + 1)
               ELSE [k |-> IF Tok(p) = "go" THEN "GoStmt" ELSE "DeferStmt", pos |-> p.i, x |-> call.r])

parseReturnStmt(p) ==
    LET a == next(p)
        x == IF IsSemi(a) \/ Tok(a) = "}" THEN Return(a, <<>>) ELSE parseList(a, TRUE)
    IN  Return(expectSemi(x), [k |-> "ReturnStmt", pos |-> p.i, list |-> x.r])

parseBranchStmt(p) ==
    LET a == next(p)
        label == IF Tok(p) # "fallthrough" /\ IsIdent(a) THEN parseIdent(a) ELSE Return(a, Nil)
    IN  Return(expectSemi(label), [k |-> "BranchStmt", pos |-> p.i, op |-> Tok(p), label |-> label.r])

makeExpr(p, s) ==
    CASE s = Nil -> Return(p, Nil)
      [] s.k = "ExprStmt" -> Return(p, s.x)
      [] OTHER -> Return(error(p, Pos(s)), Bad("BadExpr", Pos(s), safePos(p, End(s))))

\* Mutant: the level is not set back after the header.
HeaderKeepsLevel(p, a) == a

\* After the header of a control clause, expressions are as they were before it.
LeaveHeader(p, a) == [a EXCEPT !.exprLev = p.exprLev]
EnterHeader(p) == [p EXCEPT !.exprLev = -1]

parseIfHeader(p) ==
    LET q == EnterHeader(p)
        v == IF Tok(q) = "var" THEN error(next(q), q.i + 1) ELSE q
        first == IF IsSemi(q) THEN Return(q, Nil) ELSE parseSimpleStmt(v, "basic")
        two == Tok(first) # "{"
        semi == IF IsSemi(first) THEN next(first) ELSE expect(first, ";")
        second == IF Tok(semi) = "{" THEN Return(semi, Nil) ELSE parseSimpleStmt(semi, "basic")
        last == IF two THEN second ELSE first
        cond == IF last.r # Nil THEN makeExpr(last, last.r)
                ELSE Return(IF two /\ IsSemi(first) THEN error(last, first.i) ELSE last, Nil)
        Header(a, s, x) == Return(a, [init |-> s, cond |-> IF x # Nil THEN x ELSE Bad("BadExpr", a.i, a.i)])
    IN  IF Tok(p) = "{" THEN Header(error(p, p.i), Nil, Nil)
        ELSE LeaveHeader(p, Header(cond, IF two THEN first.r ELSE Nil, cond.r))

RECURSIVE parseIfStmt(_)
parseIfStmt(p) ==
    LET q == incNestLev(p)
        header == parseIfHeader(expect(q, "if"))
        body == parseBlockStmt(header)
        e == next(body)
        els == CASE Tok(body) # "else" -> Return(expectSemi(body), Nil)
                 [] Tok(body) = "else" /\ Tok(e) = "if" -> parseIfStmt(e)
                 [] Tok(body) = "else" /\ Tok(e) = "{" -> expectSemi(parseBlockStmt(e))
                 [] OTHER -> Return(error(e, e.i), Bad("BadStmt", e.i, e.i))
    IN  decNestLev(Return(els, [k |-> "IfStmt", pos |-> q.i, init |-> header.r.init, cond |-> header.r.cond,
                                body |-> body.r, els |-> els.r]))

parseCaseClause(p) ==
    LET list == IF Tok(p) = "case" THEN parseList(next(p), TRUE) ELSE Return(expect(p, "default"), <<>>)
        body == parseStmtList(expect(list, ":"))
    IN  Return(body, [k |-> "CaseClause", pos |-> p.i, list |-> list.r, colon |-> list.i, stmts |-> body.r])

parseCommClause(p) ==
    LET lhs == parseList(next(p), FALSE)
        most == IF Tok(lhs) \in {"=", ":="} THEN 2 ELSE 1
        q == IF Len(lhs.r) > most THEN error(lhs, Pos(lhs.r[1])) ELSE lhs
        y == parseRhs(next(q))
        comm == CASE Tok(p) # "case" -> Return(expect(p, "default"), Nil)
                  [] Tok(p) = "case" /\ Tok(q) = "<-" -> Return(y, SendStmt(lhs.r[1], y.r))
                  [] Tok(p) = "case" /\ Tok(q) \in {"=", ":="} ->
                        Return(y, AssignStmt(IF Len(lhs.r) > 2 THEN SubSeq(lhs.r, 1, 2) ELSE lhs.r, Tok(q), <<y.r>>))
                  [] OTHER -> Return(q, ExprStmt(lhs.r[1]))
        body == parseStmtList(expect(comm, ":"))
    IN  Return(body, [k |-> "CommClause", pos |-> p.i, comm |-> comm.r, colon |-> comm.i, stmts |-> body.r])

RECURSIVE Clauses(_, _, _)
Clauses(p, comm, list) ==
    LET c == IF comm THEN parseCommClause(p) ELSE parseCaseClause(p)
    IN  IF Tok(p) \in {"case", "default"} THEN Clauses(c, comm, Append(list, c.r)) ELSE Return(p, list)

\* A block of clauses, and the semicolon after it.
ClauseBlock(p, comm) ==
    LET list == Clauses(expect(p, "{"), comm, <<>>)
    IN  Return(expectSemi(expect(list, "}")), BlockStmt(p.i, list.r, list.i))

IsTypeSwitchAssert(x) == x.k = "TypeAssertExpr" /\ x.typ = Nil
IsTypeSwitchGuard(s) ==
    \/ s.k = "ExprStmt" /\ IsTypeSwitchAssert(s.x)
    \/ s.k = "AssignStmt" /\ s.op \in {"=", ":="} /\ Len(s.lhs) = 1 /\ Len(s.rhs) = 1 /\ IsTypeSwitchAssert(s.rhs[1])

parseSwitchStmt(p) ==
    LET a == next(p)
        q == EnterHeader(a)
        first == IF IsSemi(q) THEN Return(q, Nil) ELSE parseSimpleStmt(q, "basic")
        two == IsSemi(first)
        b == next(first)
        second == IF Tok(b) = "{" THEN Return(b, Nil) ELSE parseSimpleStmt(b, "basic")
        header == IF Tok(a) = "{" THEN Return(a, Nil) ELSE LeaveHeader(a, IF two THEN second ELSE first)
        s == header.r
        guard == IsTypeSwitchGuard(s)
        c == IF guard /\ s.k = "AssignStmt" /\ s.op = "=" THEN error(header, s.rhs[1].x.pos - 1) ELSE header
        body == ClauseBlock(c, FALSE)
        tag == makeExpr(body, s)
        Switch(kind, t) == [k |-> kind, pos |-> p.i,
                            init |-> IF Tok(a) # "{" /\ two THEN first.r ELSE Nil, tag |-> t, body |-> body.r]
    IN  IF guard THEN Return(body, Switch("TypeSwitchStmt", s)) ELSE Return(tag, Switch("SwitchStmt", tag.r))

parseSelectStmt(p) ==
    LET body == ClauseBlock(next(p), TRUE) IN Return(body, [k |-> "SelectStmt", pos |-> p.i, body |-> body.r])

\* The clauses of a for statement that is not a range clause, after the first.
ForClauses(p, first) ==
    LET a == next(p)
        second == IF IsSemi(a) THEN Return(a, Nil) ELSE parseSimpleStmt(a, "basic")
        b == expectSemi(second)
        third == IF Tok(b) = "{" THEN Return(b, Nil) ELSE parseSimpleStmt(b, "basic")
    IN  Return(third, [init |-> first, cond |-> second.r, post |-> third.r])

parseForStmt(p) ==
    LET a == next(p)
        q == EnterHeader(a)
        first == CASE Tok(a) = "{" \/ IsSemi(q) -> Return(q, Nil)
                   [] Tok(a) = "range" -> RangeClause(q, <<>>, "")
                   [] OTHER -> parseSimpleStmt(q, "rangeOk")
        range == IsRange(first.r)
        header == LeaveHeader(a, IF ~range /\ Tok(a) # "{" /\ IsSemi(first) THEN ForClauses(first, first.r)
                                 ELSE Return(first, [init |-> Nil, cond |-> first.r, post |-> Nil]))
        block == parseBlockStmt(header)
        body == expectSemi(block)
        s == first.r
        cond == makeExpr(body, header.r.cond)
        Lhs(n) == IF Len(s.lhs) >= n THEN s.lhs[n] ELSE Nil
    IN  CASE range /\ Len(s.lhs) > 2 ->
                Return(error(body, Pos(Last(s.lhs))), Bad("BadStmt", p.i, safePos(body, End(body.r))))
          [] range /\ Len(s.lhs) <= 2 ->
                Return(body, [k |-> "RangeStmt", pos |-> p.i, key |-> Lhs(1), value |-> Lhs(2), op |-> s.op,
                              x |-> s.rhs[1].x, body |-> body.r])
          [] OTHER -> Return(cond, [k |-> "ForStmt", pos |-> p.i, init |-> header.r.init, cond |-> cond.r,
                                    post |-> header.r.post, body |-> body.r])

-----------------------------------------------------------------------------
(* Tags (parser/tgo.go).                                                     *)

\* What cannot be in a tag, whose name or closing token is then missing.
TagEnds == {"}", "</", "<"}
expectSemiInTag(p) == IF Tok(p) \in {"@", ">"} THEN p ELSE expectSemi(p)
TagName(p) == expectSemiInTag(parseIdent(p))

OpenTag(pos, name, list, rp) == [k |-> "OpenTag", pos |-> pos, name |-> name, list |-> list, rp |-> rp]
EndTag(pos, name, rp) == [k |-> "EndTag", pos |-> pos, name |-> name, rp |-> rp]

parseTgoOpenTag(p) ==
    LET a == next(p)
        name == LET n == parseIdent(a) IN Return(expectSemiInTag(n), n.r)
        body == Stmts(name, {"case", "default", ">", "}"}, <<>>)
        closed == Tok(body) = ">"
        unclosed == error(body, body.i)
        c == IF closed THEN next(body) ELSE IF Tok(body) = "}" THEN unclosed ELSE next(unclosed)
    IN  CASE Tok(a) \in TagEnds \cup {"case", "default"} -> Return(error(a, a.i), OpenTag(p.i, NilName, <<>>, NoPos))
          [] Tok(a) \notin TagEnds \cup {"case", "default"} /\ Tok(name) \in TagEnds ->
                Return(error(name, name.i), OpenTag(p.i, name.r, <<>>, NoPos))
          [] OTHER -> Return(IF Tok(c) \in {"s", "t{", "</", "<"} THEN c ELSE expectSemi(c),
                             OpenTag(p.i, name.r, body.r, IF closed THEN body.i ELSE NoPos))

parseTgoCloseTag(p) ==
    LET a == next(p)
        name == LET n == parseIdent(a) IN Return(expectSemiInTag(n), n.r)
        c == expect(name, ">")
    IN  CASE Tok(a) \in TagEnds \cup {"case", "default"} -> Return(error(a, a.i), EndTag(p.i, NilName, NoPos))
          [] Tok(a) \notin TagEnds \cup {"case", "default"} /\ Tok(name) \in TagEnds ->
                Return(error(name, name.i), EndTag(p.i, name.r, NoPos))
          [] OTHER -> Return(IF Tok(c) \in {"</", "<"} THEN c ELSE expectSemi(c),
                             EndTag(p.i, name.r, IF Tok(name) = ">" THEN name.i ELSE NoPos))

TemplateLiteralExpr(pos) == [k |-> "TemplateLiteralExpr", pos |-> pos]

parseAttribute(p) ==
    LET name == parseIdent(next(p))
        a == next(name)
        value == CASE Tok(a) = "s" -> Return(next(a), BasicLit(a.i, "s"))
                   [] Tok(a) = "t{" -> Return(next(a), TemplateLiteralExpr(a.i))
                   [] OTHER -> Return(expect(a, "STRING"), Nil)
        endPos == IF value.r = Nil THEN name.i ELSE End(value.r) - 1
        Attribute(v, end) == [k |-> "AttributeStmt", pos |-> p.i, name |-> name.r, value |-> v, endPos |-> end]
    IN  IF Tok(name) = "=" THEN Return(expectSemiInTag(value), Attribute(value.r, endPos))
        ELSE Return(expectSemiInTag(name), Attribute(Nil, End(name.r) - 1))

parseTgoStmt(p) ==
    CASE Tok(p) = "<" -> parseTgoOpenTag(p)
      [] Tok(p) = "</" -> parseTgoCloseTag(p)
      [] Tok(p) = "t{" -> Return(expectSemiAllowEndTag(next(p)), ExprStmt(TemplateLiteralExpr(p.i)))
      [] Tok(p) = "@" -> parseAttribute(p)

\* A simple statement and the semicolon after it; a label has none, a string may be before an end tag.
SimpleStmt(p) ==
    LET s == parseSimpleStmt(p, "labelOk")
    IN  CASE s.r.k = "LabeledStmt" -> s
          [] s.r.k = "ExprStmt" /\ s.r.x.k = "BasicLit" /\ s.r.x.tok = "s" -> expectSemiAllowEndTag(s)
          [] OTHER -> expectSemi(s)

ExprStart == Idents \cup Literals \cup
    {"func", "(", "[", "struct", "map", "chan", "interface", "+", "-", "*", "&", "^", "<-", "!"}

parseStmt(p) ==
    LET q == incNestLev(p)
        tok == Tok(q)
    IN  decNestLev(CASE tok \in {"<", "</", "t{", "@"} -> parseTgoStmt(q)
          [] tok \in {"const", "type", "var"} ->
                LET d == parseGenDecl(q) IN Return(d, [k |-> "DeclStmt", x |-> d.r])
          [] tok \in ExprStart -> SimpleStmt(q)
          [] tok \in {"go", "defer"} -> parseGoOrDeferStmt(q)
          [] tok = "return" -> parseReturnStmt(q)
          [] tok \in {"break", "continue", "goto", "fallthrough"} -> parseBranchStmt(q)
          [] tok = "{" -> expectSemi(parseBlockStmt(q))
          [] tok = "if" -> parseIfStmt(q)
          [] tok = "switch" -> parseSwitchStmt(q)
          [] tok = "select" -> parseSelectStmt(q)
          [] tok = "for" -> parseForStmt(q)
          [] IsSemi(q) -> Return(next(q), [k |-> "EmptyStmt", pos |-> q.i, implicit |-> tok = "\n"])
          [] tok = "}" -> Return(q, [k |-> "EmptyStmt", pos |-> q.i, implicit |-> TRUE])
          [] OTHER -> BadUpTo(q, "BadStmt", q.i, stmtStart))

-----------------------------------------------------------------------------
(* Declarations.                                                             *)

parseImportSpec(p) ==
    LET name == CASE IsIdent(p) -> parseIdent(p)
                  [] Tok(p) = "." -> Return(next(p), Ident(p.i, "."))
                  [] OTHER -> Return(p, Nil)
        bad == error(name, name.i)
        path == CASE Tok(name) = "s" -> next(name)
                  [] IsIdent(name) \/ Tok(name) \in Literals \ {"s"} -> next(bad)
                  [] OTHER -> advance(bad, exprEnd)
    IN  Return(expectSemi(path), [k |-> "ImportSpec", name |-> name.r, path |-> BasicLit(name.i, "s")])

parseValueSpec(p, keyword) ==
    LET names == parseIdentList(p)
        typ == CASE keyword = "var" /\ Tok(names) # "=" -> parseType(names)
                 [] keyword = "const" /\ Tok(names) # "EOF" /\ ~IsSemi(names) /\ Tok(names) # ")" -> tryIdentOrType(names)
                 [] OTHER -> Return(names, Nil)
        values == IF Tok(typ) = "=" THEN parseList(next(typ), TRUE) ELSE Return(typ, <<>>)
    IN  Return(expectSemi(values), [k |-> "ValueSpec", names |-> names.r, typ |-> typ.r, values |-> values.r])

TypeSpec(name, tparams, alias, typ) ==
    [k |-> "TypeSpec", name |-> name, tparams |-> tparams, alias |-> alias, typ |-> typ]

\* The type of an alias or of a new type.
AssignAndType(p) == parseType(IF Tok(p) = "=" THEN next(p) ELSE p)

parseGenericType(p, name, lbrack, name0, typ0) ==
    LET list == parseParameterList(p, name0, typ0, "]")
        close == expect(list, "]")
        typ == AssignAndType(close)
    IN  Return(typ, TypeSpec(name, FieldList(lbrack, list.r, list.i), Tok(close) = "=", typ.r))

RECURSIVE isTypeElem(_)
isTypeElem(x) ==
    CASE x.k \in {"ArrayType", "StructType", "FuncType", "InterfaceType", "MapType", "ChanType"} -> TRUE
      [] x.k = "BinaryExpr" -> isTypeElem(x.x) \/ isTypeElem(x.y)
      [] x.k = "UnaryExpr" -> x.op = "~"
      [] x.k = "ParenExpr" -> isTypeElem(x.x)
      [] OTHER -> FALSE

\* Mutant: whatever could be a type parameter with a constraint is taken for one.
ExtractAlways(x, force) ==
    IF x.k = "BinaryExpr" /\ x.op = "*" /\ x.x.k = "Ident" THEN [name |-> x.x, typ |-> Star(x.at, x.y)]
    ELSE [name |-> IF x.k = "Ident" THEN x ELSE Nil, typ |-> IF x.k = "Ident" THEN Nil ELSE x]

\* The name and the type that x may be, as in P *E: [name, typ].
RECURSIVE extractName(_, _)
extractName(x, force) ==
    LET lhs == extractName(x.x, force \/ isTypeElem(x.y))
        whole == [name |-> Nil, typ |-> x]
    IN  CASE x.k = "Ident" -> [name |-> x, typ |-> Nil]
          [] x.k = "BinaryExpr" ->
                IF x.op = "*" /\ x.x.k = "Ident" /\ (force \/ isTypeElem(x.y))
                THEN [name |-> x.x, typ |-> Star(x.at, x.y)]
                ELSE IF x.op = "|" /\ lhs.name # Nil /\ lhs.typ # Nil
                THEN [name |-> lhs.name, typ |-> [x EXCEPT !.x = lhs.typ]] ELSE whole
          [] x.k = "CallExpr" ->
                IF x.x.k = "Ident" /\ Len(x.list) = 1 /\ x.ell = NoPos /\ (force \/ isTypeElem(x.list[1]))
                THEN [name |-> x.x, typ |-> x.list[1]] ELSE whole
          [] OTHER -> whole

parseTypeSpec(p) ==
    LET name == parseIdent(p)
        a == next(name)
        id == parseIdent(a)
        lhs == parsePrimaryExpr(incExprLev(id), id.r)
        x == IF Tok(id) = "[" THEN id ELSE decExprLev(parseBinaryExpr(lhs, lhs.r, 1))
        split == extractName(x.r, Tok(x) = ",")
        generic == split.name # Nil /\ (split.typ # Nil \/ Tok(x) # "]")
        array == IF IsIdent(a) THEN parseArrayType(x, name.i, x.r) ELSE parseArrayType(a, name.i, Nil)
        typ == IF Tok(name) = "[" THEN array ELSE AssignAndType(name)
        spec == IF Tok(name) = "[" /\ IsIdent(a) /\ generic
                THEN parseGenericType(x, name.r, name.i, split.name, split.typ)
                ELSE Return(typ, TypeSpec(name.r, Nil, Tok(name) = "=", typ.r))
    IN  expectSemi(spec)

parseSpec(p, keyword) ==
    CASE keyword = "import" -> parseImportSpec(p)
      [] keyword = "type" -> parseTypeSpec(p)
      [] OTHER -> parseValueSpec(p, keyword)

RECURSIVE Specs(_, _, _)
Specs(p, keyword, list) ==
    LET s == parseSpec(p, keyword)
    IN  IF Tok(p) \in {")", "EOF"} THEN Return(p, list) ELSE Specs(s, keyword, Append(list, s.r))

parseGenDecl(p) ==
    LET keyword == Tok(p)
        a == next(p)
        one == parseSpec(a, keyword)
        list == Specs(next(a), keyword, <<>>)
        GenDecl(lparen, specs, rparen) ==
            [k |-> "GenDecl", pos |-> p.i, op |-> keyword, lp |-> lparen, specs |-> specs, rp |-> rparen]
    IN  IF Tok(a) = "(" THEN Return(expectSemi(expect(list, ")")), GenDecl(a.i, list.r, list.i))
        ELSE Return(one, GenDecl(NoPos, <<one.r>>, NoPos))

parseBody(p) == expectSemi(parseBlockStmt(p))

parseFuncDecl(p) ==
    LET a == next(p)
        recv == IF Tok(a) = "(" THEN LET ps == parseParameters(a, FALSE) IN Return(ps, ps.r.params) ELSE Return(a, Nil)
        name == parseIdent(recv)
        ps == parseParameters(name, TRUE)
        method == recv.r # Nil /\ ps.r.tparams # Nil
        results == parseResult(IF method THEN error(ps, Pos(ps.r.tparams)) ELSE ps)
        b == next(results)
        body == CASE Tok(results) = "{" -> parseBody(results)
                  [] IsSemi(results) -> IF Tok(b) = "{" THEN parseBody(error(b, b.i)) ELSE Return(b, Nil)
                  [] OTHER -> Return(expectSemi(results), Nil)
        typ == FuncType(p.i, IF method THEN Nil ELSE ps.r.tparams, ps.r.params, results.r)
    IN  Return(body, [k |-> "FuncDecl", recv |-> recv.r, name |-> name.r, typ |-> typ, body |-> body.r])

parseDecl(p, sync) ==
    CASE Tok(p) \in {"import", "const", "type", "var"} -> parseGenDecl(p)
      [] Tok(p) = "func" -> parseFuncDecl(p)
      [] OTHER -> BadUpTo(p, "BadDecl", p.i, sync)

RECURSIVE Decls(_, _, _)
Decls(p, prev, list) ==
    LET late == Tok(p) = "import" /\ prev # "import"
        d == parseDecl(IF late THEN error(p, p.i) ELSE p, declStart)
    IN  IF Tok(p) = "EOF" THEN Return(p, list) ELSE Decls(d, Tok(p), Append(list, d.r))

\* The first loop of parseFile, over the imports, is the one with "import" before them.
parseFile(p) ==
    LET name == parseIdent(expect(p, "package"))
        clause == expectSemi(name)
        decls == Decls(clause, "import", <<>>)
    IN  IF clause.errors # <<>> THEN Return(clause, Nil)
        ELSE Return(decls, [k |-> "File", pos |-> p.i, name |-> name.r, decls |-> decls.r])

ParseFile(toks) == parseFile(NewParser(toks))

ParseExprFrom(toks) ==
    LET x == parseRhs(NewParser(toks))
        a == IF Tok(x) = "\n" THEN next(x) ELSE x
    IN  expect(a, "EOF")
==============================================================================
