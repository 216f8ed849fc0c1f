-------------------------------- MODULE Printer --------------------------------
(***************************************************************************)
(* The printer (printer/nodes.go, printer/tgo.go): a syntax tree becomes   *)
(* text again. What it prints, and how that is written among the comments  *)
(* of the source, is in Output.                                            *)
(*                                                                         *)
(* Where a line is broken depends on the lines of the tokens in the        *)
(* source, and a newline is what the scanner turns into a semicolon.       *)
(* Columns of keys and values, and limits on the lengths of what goes on   *)
(* one line are left out.                                                  *)
(***************************************************************************)
EXTENDS Output

EndLine(q, n) == lineFor(q, End(n) - 1)

\* As many newlines as there are up to the line in the source, but at most two, and at least least.
Breaks(q, line, least) == Max({Min({line - q.pos.line, 2}), least})
linebreak(q, line, least, ws) ==
    IF Breaks(q, line, least) > 0 THEN print(q, <<ws>> \o [i \in 1 .. Breaks(q, line, least) |-> "\n"]) ELSE q

RECURSIVE expr1(_, _, _, _)
RECURSIVE stmt(_, _, _)
RECURSIVE genDecl(_, _)
expr0(q, x, depth) == expr1(q, x, 0, depth)
expr(q, x) == expr0(q, x, 1)

-----------------------------------------------------------------------------
(* Lists.                                                                    *)

\* After the last element: a comma if next0 is on a new line, and the indentation taken back.
EndOfList(a, mode, next0) ==
    LET unindents == IF a.ws = "ignore" /\ "noIndent" \notin mode THEN <<"unindent">> ELSE <<>>
        comma == "commaTerm" \in mode /\ next0 # NoPos /\ a.q.pos.line < lineFor(a.q, next0)
    IN  print(a.q, IF comma THEN <<",">> \o unindents \o <<"\n">> ELSE unindents)

\* A list of expressions between the positions prev0 and next0; line breaks stay where they are
\* between expressions, and where one is before next0, a comma goes before it if commaTerm. The
\* first line break indents what follows, unless noIndent; a is the printer and what the next
\* line break does to the indentation.
exprList(q, prev0, list, depth, mode, next0) ==
    LET prev == lineFor(q, prev0)
        Beg(i) == lineFor(q, Pos(list[i]))
        single == prev # 0 /\ prev = Beg(1) /\ Beg(1) = EndLine(q, Last(list))
        OnLine(r, i) == expr0(IF i = 1 THEN r ELSE print(setPos(r, Pos(list[i])), <<",", " ">>), list[i], depth)
        Broken(a, line) == [q |-> linebreak(a.q, line, 0, a.ws), ws |-> "ignore"]
        AfterComma(a, i, breaks) ==
            LET b == [a EXCEPT !.q = print(IF breaks THEN a.q ELSE setPos(a.q, Pos(list[i])), <<",">>)]
            IN  IF breaks /\ Breaks(b.q, Beg(i), 0) > 0 THEN Broken(b, Beg(i)) ELSE [b EXCEPT !.q = print(b.q, <<" ">>)]
        Elem(a, i) ==
            LET prevLine == IF i = 1 THEN prev ELSE Beg(i - 1)
                b == IF i = 1 THEN a ELSE AfterComma(a, i, 0 < prevLine /\ prevLine < Beg(i))
            IN  [b EXCEPT !.q = expr0(b.q, list[i], depth)]
        start == [q |-> q, ws |-> IF "noIndent" \in mode THEN "ignore" ELSE "indent"]
        first == IF prev # 0 /\ prev < Beg(1) /\ Breaks(q, Beg(1), 0) > 0 THEN Broken(start, Beg(1)) ELSE start
        all == FoldLeftDomain(Elem, first, list)
    IN  CASE list = <<>> -> q
          [] list # <<>> /\ single -> FoldLeftDomain(OnLine, q, list)
          [] OTHER -> EndOfList(all, mode, next0)

identList(q, list, indent) == exprList(q, NoPos, list, 1, IF indent THEN {} ELSE {"noIndent"}, NoPos)

\* Does a name before the type x look like an expression?
RECURSIVE combinesWithName(_)
combinesWithName(x) ==
    \/ x.k = "StarExpr" /\ ~isTypeElem(x.x)
    \/ x.k = "BinaryExpr" /\ combinesWithName(x.x) /\ ~isTypeElem(x.y)
RECURSIVE CombinePanics(_)
CombinePanics(x) == x.k = "ParenExpr" \/ (x.k = "BinaryExpr" /\ CombinePanics(x.x))

NumFields(l) == FoldLeft(LAMBDA n, f : n + Max({Len(f.names), 1}), 0, l.list)

TrailingComma(q, l) ==
    LET x == l.list[1].typ
    IN  IF NumFields(l) # 1 THEN q
        ELSE IF CombinePanics(x) THEN [q EXCEPT !.panic = TRUE]
        ELSE IF combinesWithName(x) THEN print(q, <<",">>) ELSE q

parameters(q, l, mode) ==
    LET par(i) == l.list[i]
        Param(a, i) ==
            LET prevLine == IF i = 1 THEN lineFor(q, l.pos) ELSE EndLine(q, par(i - 1))
                beg == lineFor(q, Pos(par(i)))
                needsLinebreak == 0 < prevLine /\ prevLine < beg
                b == IF i = 1 THEN a.q ELSE print(IF needsLinebreak THEN a.q ELSE setPos(a.q, Pos(par(i))), <<",">>)
                breaks == needsLinebreak /\ Breaks(b, beg, 0) > 0
                c == IF breaks THEN linebreak(b, beg, 0, a.ws) ELSE IF i > 1 THEN print(b, <<" ">>) ELSE b
                ws == IF breaks THEN "ignore" ELSE a.ws
                d == IF par(i).names = <<>> THEN c ELSE print(identList(c, par(i).names, ws = "indent"), <<" ">>)
            IN  [q |-> expr(d, Unparen(par(i).typ)), ws |-> ws]
        open == print(setPos(q, l.pos), <<IF mode = "func" THEN "(" ELSE "[">>)
        all == FoldLeftDomain(Param, [q |-> open, ws |-> "indent"], l.list)
        prevLine == EndLine(q, Last(l.list))
        closing == lineFor(q, l.rp)
        ended == CASE 0 < prevLine /\ prevLine < closing -> linebreak(print(all.q, <<",">>), closing, 0, "ignore")
                   [] OTHER -> IF mode = "type" THEN TrailingComma(all.q, l) ELSE all.q
        last == CASE l.list = <<>> -> open
                  [] l.list # <<>> /\ all.ws = "ignore" -> print(ended, <<"unindent">>)
                  [] OTHER -> ended
    IN  print(setPos(last, l.rp), <<IF mode = "func" THEN ")" ELSE "]">>)

signature(q, sig) ==
    LET a == IF sig.tparams # Nil THEN parameters(q, sig.tparams, "tparams") ELSE q
        b == parameters(a, sig.params, "func")
        res == sig.results
    IN  CASE res = Nil \/ (res # Nil /\ res.list = <<>>) -> b
          [] res # Nil /\ res.list # <<>> /\ NumFields(res) = 1 /\ res.list[1].names = <<>> ->
                expr(print(b, <<" ">>), Unparen(res.list[1].typ))
          [] OTHER -> parameters(print(b, <<" ">>), res, "func")

\* The fields of a struct, or the methods and embedded types of an interface.
FieldOf(q, f, isStruct, sep) ==
    LET a == CASE f.names = <<>> -> expr(q, f.typ)
               [] f.names # <<>> /\ isStruct -> expr(print(identList(q, f.names, FALSE), <<sep>>), f.typ)
               [] OTHER -> signature(expr(q, f.names[1]), f.typ)
        tabs == IF f.names # <<>> /\ sep = "vtab" THEN <<sep, sep>> ELSE <<sep>>
    IN  IF f.tag # Nil THEN expr(print(a, tabs), f.tag) ELSE a

isOneLineFieldList(q, list) == Len(list) = 1 /\ list[1].tag = Nil /\ OneLine(expr(Alone(q), list[1].typ))

fieldList(q, l, isStruct) ==
    LET list == l.list
        hasComments == commentBefore(q, q.at[l.rp])
        mayBeOneLine == ~hasComments /\ lineFor(q, l.pos) = lineFor(q, l.rp)
        NameAt(a, i) == expr(IF i = 1 THEN a ELSE print(a, <<",", " ">>), list[1].names[i])
        open == print(setPos(q, l.pos), <<"{", " ">>)
        one == IF isStruct /\ list[1].names # <<>>
               THEN expr(print(FoldLeftDomain(NameAt, open, list[1].names), <<" ">>), list[1].typ)
               ELSE FieldOf(open, list[1], FALSE, " ")
        sep == IF Len(list) = 1 THEN " " ELSE "vtab"
        lines == print(setPos(print(q, <<" ">>), l.pos), <<"{", "indent">> \o IF hasComments \/ list # <<>> THEN <<"\n">> ELSE <<>>)
        Row(a, i) ==
            FieldOf(IF i = 1 THEN a ELSE linebreak(a, lineFor(q, Pos(list[i])), 1, "ignore"), list[i], isStruct, sep)
        Close(a) == print(setPos(a, l.rp), <<"}">>)
    IN  CASE mayBeOneLine /\ list = <<>> -> Close(print(setPos(q, l.pos), <<"{">>))
          [] mayBeOneLine /\ list # <<>> /\ isOneLineFieldList(q, list) -> Close(print(one, <<" ">>))
          [] OTHER -> Close(print(FoldLeftDomain(Row, lines, list), <<"unindent", "\n">>))

-----------------------------------------------------------------------------
(* Expressions.                                                              *)

\* Are there operators of the precedences 4 and 5, and does an operator clash with what follows?
RECURSIVE walkBinary(_)
walkBinary(e) ==
    LET prec == Precedence(e.op)
        None == [has4 |-> FALSE, has5 |-> FALSE, problem |-> 0]
        l == IF e.x.k = "BinaryExpr" /\ Precedence(e.x.op) >= prec THEN walkBinary(e.x) ELSE None
        r == IF e.y.k = "BinaryExpr" /\ Precedence(e.y.op) > prec THEN walkBinary(e.y) ELSE None
        clash == CASE e.y.k = "StarExpr" /\ e.op = "/" -> 5
                   [] e.y.k = "UnaryExpr" /\ <<e.op, e.y.op>> \in {<<"&", "&">>, <<"&", "^">>} -> 5
                   [] e.y.k = "UnaryExpr" /\ <<e.op, e.y.op>> \in {<<"+", "+">>, <<"-", "-">>} -> 4
                   [] OTHER -> 0
    IN  [has4 |-> prec = 4 \/ l.has4 \/ r.has4, has5 |-> prec = 5 \/ l.has5 \/ r.has5,
         problem |-> Max({l.problem, r.problem, clash})]

\* Operators of a precedence below it have blanks around them.
cutoff(e, depth) ==
    LET w == walkBinary(e)
    IN  CASE w.problem > 0 -> w.problem + 1
          [] w.problem = 0 /\ w.has4 /\ w.has5 -> IF depth = 1 THEN 5 ELSE 4
          [] OTHER -> IF depth = 1 THEN 6 ELSE 4

diffPrec(x, prec) == IF x.k = "BinaryExpr" /\ Precedence(x.op) = prec THEN 0 ELSE 1
reduceDepth(depth) == Max({depth - 1, 1})

binaryExpr(q, x, prec1, cut, depth) ==
    LET prec == Precedence(x.op)
        space == IF prec < cut THEN <<" ">> ELSE <<>>
        a == print(expr1(q, x.x, prec, depth + diffPrec(x.x, prec)), space)
        yline == lineFor(q, Pos(x.y))
        breaks == a.pos.line # yline
        b == print(setPos(a, x.at), <<x.op>>)
        c == expr1(IF breaks THEN linebreak(b, yline, 1, "indent") ELSE print(b, space), x.y, prec + 1, depth + 1)
    IN  IF prec < prec1 THEN print(expr0(print(q, <<"(">>), x, reduceDepth(depth)), <<")">>)
        ELSE IF breaks THEN print(c, <<"unindent">>) ELSE c

\* The name behind the dot is indented if it is on a new line; a method's call is indented with it.
selectorExpr(q, x, depth, isMethod) ==
    LET a == print(expr1(q, x.x, 7, depth), <<".">>)
        breaks == a.pos.line < lineFor(q, Pos(x.sel))
        b == IF breaks THEN print(a, <<"indent", "\n">>) ELSE a
        c == print(setPos(b, Pos(x.sel)), <<x.sel.name>>)
    IN  [q |-> IF breaks /\ ~isMethod THEN print(c, <<"unindent">>) ELSE c, indented |-> breaks]

possibleSelectorExpr(q, x, depth) ==
    IF x.k = "SelectorExpr" THEN selectorExpr(q, x, depth, TRUE) ELSE [q |-> expr1(q, x, 7, depth), indented |-> FALSE]

sliceExpr(q, x, depth) ==
    LET indices == <<x.low, x.high>> \o IF x.max # Nil THEN <<x.max>> ELSE <<>>
        given == {i \in DOMAIN indices : indices[i] # Nil}
        needsBlanks == depth <= 1 /\ Cardinality(given) > 1 /\ \E i \in given : indices[i].k = "BinaryExpr"
        Blank(a, i) == IF needsBlanks /\ indices[i] # Nil THEN print(a, <<" ">>) ELSE a
        Colon(a, i) == IF i = 1 THEN a ELSE Blank(print(Blank(a, i - 1), <<":">>), i)
        ItemAt(a, i) == IF indices[i] = Nil THEN Colon(a, i) ELSE expr0(Colon(a, i), indices[i], depth + 1)
        open == print(setPos(expr1(q, x.x, 7, 1), x.lp), <<"[">>)
    IN  print(setPos(FoldLeftDomain(ItemAt, open, indices), x.rp), <<"]">>)

callExpr(q, x, depth0) ==
    LET depth == IF Len(x.list) > 1 THEN depth0 + 1 ELSE depth0
        paren == x.x.k = "FuncType" \/ (x.x.k = "ChanType" /\ x.x.dir = "RECV")
        fun == possibleSelectorExpr(IF paren THEN print(q, <<"(">>) ELSE q, x.x, depth)
        open == print(setPos(IF paren THEN print(fun.q, <<")">>) ELSE fun.q, x.lp), <<"(">>)
        dots == print(setPos(exprList(open, x.lp, x.list, depth, {}, x.ell), x.ell), <<"...">>)
        args == CASE x.ell = NoPos -> exprList(open, x.lp, x.list, depth, {"commaTerm"}, x.rp)
                  [] x.ell # NoPos /\ lineFor(q, x.ell) < lineFor(q, x.rp) -> print(dots, <<",", "\n">>)
                  [] OTHER -> dots
    IN  print(setPos(args, x.rp), <<")">> \o IF fun.indented THEN <<"unindent">> ELSE <<>>)

compositeLit(q, x, depth) ==
    LET typ == [IF x.typ = Nil THEN q ELSE expr1(q, x.typ, 7, depth) EXCEPT !.level = @ + 1]
        elts == exprList(print(setPos(typ, x.lp), <<"{">>), x.lp, x.list, 1, {"commaTerm"}, x.rp)
        mode == <<"noExtraLinebreak">> \o IF x.list # <<>> THEN <<"noExtraBlank">> ELSE <<>>
        close == print(elts, <<"indent", "unindent">> \o mode)
    IN  [print(setPos(close, x.rp), <<"}">> \o mode) EXCEPT !.level = @ - 1]

\* The body of a function, on the line of its header (near says whether that is one line) if it can be.
HasTgoNode(list) ==
    \E i \in DOMAIN list :
        \/ list[i].k \in {"OpenTag", "EndTag", "ElementBlockStmt", "AttributeStmt"}
        \/ list[i].k = "ExprStmt" /\ (list[i].x.k = "TemplateLiteralExpr" \/ (list[i].x.k = "BasicLit" /\ list[i].x.tok = "s"))

FitsBody(q, near, b) ==
    /\ ~HasTgoNode(b.list)
    /\ near
    /\ lineFor(q, b.pos) = lineFor(q, b.rp)
    /\ Len(b.list) <= 5
    /\ \A i \in DOMAIN b.list : OneLine(stmt(Alone(q), b.list[i], FALSE))

RECURSIVE stmtList(_, _, _, _, _)
block(q, b, nindent) ==
    LET a == stmtList(print(setPos(q, b.pos), <<"{">>), b.list, nindent, TRUE, FALSE)
    IN  print(setPos(linebreak(a, lineFor(q, b.rp), 1, "ignore"), b.rp), <<"}">>)

funcBody(q0, start, sep, b) ==
    LET q == [q0 EXCEPT !.level = 0]
        near == lineFor(q, start) = q.pos.line
        open == print(setPos(print(q, <<sep>>), b.pos), <<"{">>)
        Stmt(a, i) == stmt(IF i = 1 THEN print(a, <<" ">>) ELSE print(a, <<";", " ">>), b.list[i], i = Len(b.list))
        stmts == IF b.list = <<>> THEN open ELSE print(FoldLeftDomain(Stmt, open, b.list), <<" ">>)
        one == print(setPos(print(stmts, <<"noExtraLinebreak">>), b.rp), <<"}", "noExtraLinebreak">>)
    IN  IF b = Nil THEN q0
        ELSE [IF FitsBody(q, near, b) THEN one ELSE block(print(q, <<" ">>), b, 1) EXCEPT !.level = q0.level]

typeExpr(q, x) ==
    CASE x.k = "Ellipsis" -> IF x.elt = Nil THEN print(q, <<"...">>) ELSE expr(print(q, <<"...">>), x.elt)
      [] x.k = "ArrayType" ->
            LET open == print(q, <<"[">>)
            IN  expr(print(IF x.len = Nil THEN open ELSE expr(open, x.len), <<"]">>), x.elt)
      [] x.k = "StructType" -> fieldList(print(q, <<"struct">>), x.fields, TRUE)
      [] x.k = "FuncType" -> signature(print(q, <<"func">>), x)
      [] x.k = "InterfaceType" -> fieldList(print(q, <<"interface">>), x.fields, FALSE)
      [] x.k = "MapType" -> expr(print(expr(print(q, <<"map", "[">>), x.x), <<"]">>), x.y)
      [] x.k = "ChanType" ->
            LET a == CASE x.dir = "BOTH" -> print(q, <<"chan">>) [] x.dir = "RECV" -> print(q, <<"<-", "chan">>)
                       [] OTHER -> print(setPos(print(q, <<"chan">>), x.arrow), <<"<-">>)
            IN  expr(print(a, <<" ">>), x.elt)

expr1(q0, x, prec1, depth) ==
    LET q == setPos(q0, Pos(x))
        Brackets(a, list) == print(setPos(list, x.rp), <<"]">>)
        base == print(setPos(expr1(q, x.x, 7, 1), x.lp), <<"[">>)
    IN  CASE x.k = "Ident" -> print(q, <<x.name>>)
          [] x.k = "BasicLit" -> print(q, <<x.tok>>)
          [] x.k = "TemplateLiteralExpr" -> print(q, <<"t{">>)
          [] x.k = "BinaryExpr" -> binaryExpr(q, x, prec1, cutoff(x, depth), depth)
          [] x.k = "KeyValueExpr" ->
                LET key == expr(q, x.x) IN expr(print(setPos(key, End(x.x)), <<":", " ">>), x.y)
          [] x.k \in {"StarExpr", "UnaryExpr"} ->
                LET op == IF x.k = "StarExpr" THEN "*" ELSE x.op
                    a == print(q, <<op>>)
                    inner == IF x.k = "StarExpr" THEN expr(a, x.x) ELSE expr1(a, x.x, 6, depth)
                IN  IF 6 < prec1 THEN print(expr(print(q, <<"(">>), x), <<")">>) ELSE inner
          [] x.k = "FuncLit" ->
                funcBody(signature(print(setPos(q, Pos(x.typ)), <<"func">>), x.typ), Pos(x.typ), " ", x.body)
          [] x.k = "ParenExpr" ->
                IF x.x.k = "ParenExpr" THEN expr0(q, x.x, depth)
                ELSE print(setPos(expr0(print(q, <<"(">>), x.x, reduceDepth(depth)), x.rp), <<")">>)
          [] x.k = "SelectorExpr" -> selectorExpr(q, x, depth, FALSE).q
          [] x.k = "TypeAssertExpr" ->
                LET a == print(setPos(print(expr1(q, x.x, 7, depth), <<".">>), End(x.x) + 1), <<"(">>)
                    b == IF x.typ = Nil THEN print(a, <<"type">>) ELSE expr(a, x.typ)
                IN  print(setPos(b, x.rp), <<")">>)
          [] x.k = "IndexExpr" -> Brackets(q, expr0(base, x.list[1], depth + 1))
          [] x.k = "IndexListExpr" -> Brackets(q, exprList(base, x.lp, x.list, depth + 1, {"commaTerm"}, x.rp))
          [] x.k = "SliceExpr" -> sliceExpr(q, x, depth)
          [] x.k = "CallExpr" -> callExpr(q, x, depth)
          [] x.k = "CompositeLit" -> compositeLit(q, x, depth)
          [] OTHER -> typeExpr(q, x)

-----------------------------------------------------------------------------
(* Statements.                                                               *)

\* Does a composite literal in x that is in no parentheses begin with the name of a type?
RECURSIVE isTypeName(_)
isTypeName(x) == x.k = "Ident" \/ (x.k = "SelectorExpr" /\ isTypeName(x.x))
RECURSIVE OpenLiteral(_)
OpenLiteral(x) ==
    CASE x.k = "ParenExpr" -> FALSE
      [] x.k = "CompositeLit" -> isTypeName(x.typ)
      [] OTHER -> \E i \in DOMAIN Children(x) : OpenLiteral(Children(x)[i])

RECURSIVE stripParens(_)
stripParens(x) == IF x.k = "ParenExpr" /\ ~OpenLiteral(x.x) THEN stripParens(x.x) ELSE x

controlClause(q, isFor, init, x, post) ==
    LET Stmt(a, s) == IF s = Nil THEN a ELSE stmt(a, s, FALSE)
        Expr(a) == IF x = Nil THEN a ELSE print(expr(a, stripParens(x)), <<" ">>)
        clause == Expr(print(Stmt(print(q, <<" ">>), init), <<";", " ">>))
    IN  CASE init = Nil /\ post = Nil -> Expr(print(q, <<" ">>))
          [] ~(init = Nil /\ post = Nil) /\ ~isFor -> clause
          [] OTHER -> print(Stmt(print(clause, <<";", " ">>), post), <<" ">>)

StmtBreak(q, s, oneLineTag) == IF oneLineTag THEN q ELSE linebreak(q, lineFor(q, Pos(s)), 1, "ignore")

\* Empty statements are dropped; the last statement before "}" is recognized by its number.
stmtList(q, list, nindent, nextIsRBrace, oneLineTag) ==
    LET full == SelectSeq(list, LAMBDA s : s.k # "EmptyStmt")
        Stmt(a, i) == stmt(StmtBreak(a, full[i], oneLineTag), full[i], nextIsRBrace /\ i = Len(list))
        Indent(a, ws) == IF nindent > 0 THEN print(a, <<ws>>) ELSE a
    IN  Indent(FoldLeftDomain(Stmt, Indent(q, "indent"), full), "unindent")

assignStmt(q, s) ==
    LET depth == IF Len(s.lhs) > 1 /\ Len(s.rhs) > 1 THEN 2 ELSE 1
        at == End(Last(s.lhs))
        lhs == exprList(q, Pos(s), s.lhs, depth, {}, at)
    IN  exprList(print(setPos(print(lhs, <<" ">>), at), <<s.op, " ">>), at, s.rhs, depth, {}, NoPos)

labeledStmt(q, s, nextIsRBrace) ==
    LET label == print(setPos(expr(print(q, <<"unindent">>), s.x), End(s.x)), <<":", "indent">>)
    IN  CASE s.y.k = "EmptyStmt" /\ ~nextIsRBrace -> print(setPos(print(label, <<"\n">>), s.y.pos), <<";">>)
          [] s.y.k = "EmptyStmt" /\ nextIsRBrace -> stmt(label, s.y, nextIsRBrace)
          [] OTHER -> stmt(linebreak(label, lineFor(q, Pos(s.y)), 1, "ignore"), s.y, nextIsRBrace)

\* Do elements begin on lines of their own, or are there two of several lines?
indentList(q, list) ==
    LET Beg(i) == lineFor(q, Pos(list[i]))
    IN  /\ Len(list) >= 2
        /\ \/ \E i \in 2 .. Len(list) : EndLine(q, list[i - 1]) < Beg(i)
           \/ Cardinality({i \in DOMAIN list : Beg(i) < EndLine(q, list[i])}) > 1

returnStmt(q, list) ==
    CASE list = <<>> -> q
      [] list # <<>> /\ indentList(q, list) ->
            print(exprList(print(q, <<" ", "indent">>), NoPos, list, 1, {"noIndent"}, NoPos), <<"unindent">>)
      [] OTHER -> exprList(print(q, <<" ">>), NoPos, list, 1, {}, NoPos)

selectStmt(q, s) ==
    LET a == print(q, <<"select", " ">>)
    IN  IF s.body.list # <<>> \/ commentBefore(a, q.at[s.body.rp]) THEN block(a, s.body, 0)
        ELSE print(setPos(print(setPos(a, s.body.pos), <<"{">>), s.body.rp), <<"}">>)

forStmt(q, s) == block(controlClause(print(q, <<"for">>), TRUE, s.init, s.cond, s.post), s.body, 1)

rangeStmt(q, s) ==
    LET key == expr(print(q, <<"for", " ">>), s.key)
        both == IF s.value = Nil THEN key ELSE expr(print(setPos(key, Pos(s.value)), <<",", " ">>), s.value)
        at == IF s.value = Nil THEN End(s.key) ELSE End(s.value)
        a == IF s.key = Nil THEN print(q, <<"for", " ">>) ELSE print(setPos(print(both, <<" ">>), at), <<s.op, " ">>)
    IN  block(print(expr(print(a, <<"range", " ">>), stripParens(s.x)), <<" ">>), s.body, 1)

ifStmt(q, s, nextIsRBrace) ==
    LET body == block(controlClause(print(q, <<"if">>), FALSE, s.init, s.cond, Nil), s.body, 1)
    IN  IF s.els = Nil THEN body ELSE stmt(print(body, <<" ", "else", " ">>), s.els, nextIsRBrace)

clause(q, s, nextIsRBrace) ==
    LET a == CASE s.k = "CaseClause" /\ s.list # <<>> ->
                    exprList(print(q, <<"case", " ">>), s.pos, s.list, 1, {}, s.colon)
               [] s.k = "CommClause" /\ s.comm # Nil -> stmt(print(q, <<"case", " ">>), s.comm, FALSE)
               [] OTHER -> print(q, <<"default">>)
    IN  stmtList(print(setPos(a, s.colon), <<":">>), s.stmts, 1, nextIsRBrace, FALSE)

typeSwitchStmt(q, s) ==
    LET a == print(q, <<"switch">>)
        b == IF s.init = Nil THEN a ELSE print(stmt(print(a, <<" ">>), s.init, FALSE), <<";">>)
    IN  block(print(stmt(print(b, <<" ">>), s.tag, FALSE), <<" ">>), s.body, 0)

-----------------------------------------------------------------------------
(* Tags.                                                                     *)

IsString(s) == s.k = "ExprStmt" /\ (s.x.k = "TemplateLiteralExpr" \/ (s.x.k = "BasicLit" /\ s.x.tok = "s"))

\* A list of strings, or of tags without attributes, may be in one line.
RECURSIVE OneLineList(_)
OneLineList(list) ==
    LET Plain(s) ==
            \/ IsString(s) \/ s.k = "EndTag" \/ (s.k = "OpenTag" /\ s.list = <<>>)
            \/ s.k = "ElementBlockStmt" /\ s.x.list = <<>> /\ OneLineList(s.list)
    IN  /\ \A i \in DOMAIN list : Plain(list[i])
        /\ (\A i \in DOMAIN list : IsString(list[i])) \/ (\A i \in DOMAIN list : ~IsString(list[i]))

isOneline(q, b) == lineFor(q, Pos(b)) = EndLine(q, b) /\ b.x.list = <<>> /\ OneLineList(b.list)

\* The name of a tag stays on a line of its own, and so does what is behind it, if the tag has
\* nothing else but a comment that ends with the line; the current comment is the last if all are
\* written.
isEmptyBody(list) == \A i \in DOMAIN list : list[i].k = "EmptyStmt"
commentGroupBetween(q, g, tag) ==
    /\ g \in DOMAIN q.groups
    /\ q.groups[g][1].at.off > q.at[tag.name.pos].off
    /\ Last(q.groups[g]).at.off < q.at[tag.rp].off
tagForceNewline(q, tag, list) ==
    LET current == Min({q.cindex, Len(q.groups)})
        g == IF commentGroupBetween(q, current, tag) THEN current ELSE current + 1
    IN  \/ lineFor(q, tag.pos) # lineFor(q, tag.name.pos)
        \/ /\ isEmptyBody(list)
           /\ commentGroupBetween(q, g, tag) /\ ~commentGroupBetween(q, g + 1, tag)
           /\ q.groups[g][1].at.line = lineFor(q, tag.name.pos)
           /\ commentsHaveNewline(q.groups[g])

NameOfTag(q, tag, force) ==
    LET a == IF force THEN linebreak(print(q, <<"indent">>), lineFor(q, tag.name.pos), 1, "ignore") ELSE q
    IN  print(setPos(a, tag.name.pos), <<tag.name.name>>)

EndOfTag(q, tag) ==
    LET lines == [k |-> "lines", first |-> lineFor(q, tag.pos), last |-> lineFor(q, tag.rp)]
    IN  [print([setPos(q, tag.rp) EXCEPT !.tag = lines], <<">">>) EXCEPT !.tag = Nil]

opentag(q, b) ==
    LET open == print(setPos(q, b.pos), <<"<">>)
        force == tagForceNewline(open, b, b.list)
        name == NameOfTag(open, b, force)
        line == IF force /\ isEmptyBody(b.list) THEN linebreak(name, lineFor(q, b.name.pos), 1, "ignore") ELSE name
        before == IF force THEN line ELSE print(line, <<"indent">>)
        stmts == stmtList(before, b.list, 0, TRUE, FALSE)
        after == IF Lines(stmts.out) # Lines(before.out) THEN linebreak(stmts, lineFor(q, b.rp), 1, "ignore") ELSE stmts
    IN  EndOfTag(print(after, <<"unindent">>), b)

endtag(q, b) ==
    LET open == print(setPos(q, b.pos), <<"</">>)
        force == tagForceNewline(open, b, <<>>)
        name == NameOfTag(open, b, force)
        after == IF force THEN linebreak(print(name, <<"unindent">>), lineFor(q, b.rp), 1, "ignore") ELSE name
    IN  EndOfTag(print(after, <<"indent", "unindent">>), b)

elementBlockStmt(q, b) ==
    LET oneline == isOneline(q, b)
        body == stmtList(opentag(q, b.x), b.list, IF oneline THEN 0 ELSE 1, TRUE, oneline)
    IN  IF oneline THEN print(endtag(print(body, <<"noExtraLinebreak">>), b.y), <<"noExtraLinebreak">>)
        ELSE endtag(linebreak(body, lineFor(q, b.y.pos), 1, "ignore"), b.y)

attr(q, a) ==
    LET name == print(setPos(print(setPos(q, a.pos), <<"@">>), a.name.pos), <<a.name.name>>)
    IN  IF a.value = Nil THEN name ELSE expr(print(setPos(name, End(a.name)), <<"=">>), a.value)

stmt(q0, s, nextIsRBrace) ==
    LET q == setPos(q0, Pos(s))
    IN  CASE s.k = "DeclStmt" -> genDecl(q, s.x)
          [] s.k = "EmptyStmt" -> q
          [] s.k = "LabeledStmt" -> labeledStmt(q, s, nextIsRBrace)
          [] s.k = "ExprStmt" -> expr(q, s.x)
          [] s.k = "SendStmt" -> expr(print(setPos(print(expr(q, s.x), <<" ">>), End(s.x)), <<"<-", " ">>), s.y)
          [] s.k = "IncDecStmt" -> print(setPos(expr0(q, s.x, 2), s.at), <<s.op>>)
          [] s.k = "AssignStmt" -> assignStmt(q, s)
          [] s.k \in {"GoStmt", "DeferStmt"} -> expr(print(q, <<IF s.k = "GoStmt" THEN "go" ELSE "defer", " ">>), s.x)
          [] s.k = "ReturnStmt" -> returnStmt(print(q, <<"return">>), s.list)
          [] s.k = "BranchStmt" -> IF s.label = Nil THEN print(q, <<s.op>>) ELSE expr(print(q, <<s.op, " ">>), s.label)
          [] s.k = "BlockStmt" -> block(q, s, 1)
          [] s.k = "IfStmt" -> ifStmt(q, s, nextIsRBrace)
          [] s.k \in {"CaseClause", "CommClause"} -> clause(q, s, nextIsRBrace)
          [] s.k = "SwitchStmt" -> block(controlClause(print(q, <<"switch">>), FALSE, s.init, s.tag, Nil), s.body, 0)
          [] s.k = "TypeSwitchStmt" -> typeSwitchStmt(q, s)
          [] s.k = "SelectStmt" -> selectStmt(q, s)
          [] s.k = "ForStmt" -> forStmt(q, s)
          [] s.k = "RangeStmt" -> rangeStmt(q, s)
          [] s.k = "ElementBlockStmt" -> elementBlockStmt(q, s)
          [] s.k = "OpenTag" -> opentag(q, s)
          [] s.k = "EndTag" -> endtag(q, s)
          [] s.k = "AttributeStmt" -> attr(q, s)

-----------------------------------------------------------------------------
(* Declarations and files.                                                   *)

\* One of n specifications of a declaration; several are in columns.
spec(q, s, n, doIndent) ==
    LET sep == IF n > 1 THEN "vtab" ELSE " "
    IN  CASE s.k = "ImportSpec" -> expr(IF s.name = Nil THEN q ELSE print(expr(q, s.name), <<" ">>), s.path)
          [] s.k = "ValueSpec" ->
                LET names == identList(q, s.names, doIndent)
                    typ == IF s.typ = Nil THEN names ELSE expr(print(names, <<sep>>), s.typ)
                IN  IF s.values = <<>> THEN typ
                    ELSE exprList(print(typ, <<sep, "=", " ">>), NoPos, s.values, 1, {}, NoPos)
          [] s.k = "TypeSpec" ->
                LET name == expr(q, s.name)
                    a == print(IF s.tparams = Nil THEN name ELSE parameters(name, s.tparams, "type"), <<sep>>)
                IN  expr(IF s.alias THEN print(a, <<"=", " ">>) ELSE a, s.typ)

genDecl(q0, d) ==
    LET q == print(setPos(q0, d.pos), <<d.op, " ">>)
        n == Len(d.specs)
        open == print(setPos(q, d.lp), <<"(">>)
        Spec(a, i) ==
            spec(IF i = 1 THEN print(a, <<"indent", "\n">>) ELSE linebreak(a, lineFor(q, Pos(d.specs[i])), 1, "ignore"),
                 d.specs[i], n, FALSE)
        all == FoldLeftDomain(Spec, open, d.specs)
    IN  IF d.lp = NoPos THEN spec(q, d.specs[1], 1, TRUE)
        ELSE print(setPos(IF n = 0 THEN open ELSE print(all, <<"unindent", "\n">>), d.rp), <<")">>)

funcDecl(q0, d) ==
    LET q == print(setPos(q0, Pos(d)), <<"func", " ">>)
        recv == IF d.recv = Nil THEN q ELSE print(parameters(q, d.recv, "func"), <<" ">>)
    IN  funcBody(signature(expr(recv, d.name), d.typ), Pos(d), "vtab", d.body)

decl(q, d) == IF d.k = "GenDecl" THEN genDecl(q, d) ELSE funcDecl(q, d)
declToken(d) == IF d.k = "GenDecl" THEN d.op ELSE "func"

\* An empty line between declarations of two kinds, and before one that has documentation.
declList(q, list) ==
    LET Decl(a, i) ==
            LET differs == i = 1 \/ declToken(list[i - 1]) # declToken(list[i]) \/ Pos(list[i]) \in q.lead
            IN  decl(linebreak(a, lineFor(q, Pos(list[i])), IF differs THEN 2 ELSE 1, "ignore"), list[i])
    IN  FoldLeftDomain(Decl, q, list)

file(q, src) == print(declList(expr(print(setPos(q, src.pos), <<"package", " ">>), src.name), src.decls), <<"\n">>)

\* A file is printed with the comments that are left and the white space at its end.
Fprint(src, f) ==
    LET EOF == [line |-> 1000, col |-> 1, off |-> 1000]
        q == flush([file(NewPrinter(src), f) EXCEPT !.impliedSemi = FALSE], EOF, "EOF").q
    IN  [text |-> q.out, panic |-> q.panic, balanced |-> q.indent = 0 /\ ~q.negative]

-----------------------------------------------------------------------------
(* Formatting a file: it is parsed and printed. What is true of the text.    *)

\* The file that a text is, if it is one.
Source(text) ==
    LET sc == Scan(text)
        p == ParseFile(sc.toks)
    IN  [ok |-> p.errors = <<>> /\ ~p.bailout, at |-> sc.at, groups |-> sc.groups, lead |-> sc.lead,
         file |-> p.r]
Printed(src) == Fprint(src, src.file)
Format(text) == Printed(Source(text)).text

\* What a tree says, whatever its positions: parentheses say nothing beyond the shape of the
\* tree, and an empty statement in a list says nothing.
Attr(n) ==
    CASE n.k = "Ident" -> n.name
      [] n.k = "BasicLit" -> n.tok
      [] n.k \in {"BinaryExpr", "UnaryExpr", "AssignStmt", "IncDecStmt", "BranchStmt", "GenDecl", "RangeStmt"} -> n.op
      [] n.k = "ChanType" -> n.dir
      [] n.k = "CallExpr" -> IF n.ell = NoPos THEN "" ELSE "..."
      [] n.k = "TypeSpec" -> IF n.alias THEN "=" ELSE ""
      [] OTHER -> ""
Split(n) == CASE n.k = "AssignStmt" -> Len(n.lhs) [] n.k = "CaseClause" -> Len(n.list)
              [] n.k = "GenDecl" -> IF n.lp = NoPos THEN 0 ELSE 1
              [] n.k \in {"Field", "ValueSpec"} -> Len(n.names) [] OTHER -> 0

RECURSIVE Shape(_)
Shape(n) ==
    LET bare == [i \in DOMAIN Parts(n) |-> Unparen(Parts(n)[i])]
        list == IF n.k \in {"LabeledStmt", "IfStmt", "SwitchStmt", "ForStmt"} THEN bare
                ELSE SelectSeq(bare, LAMBDA c : c.k # "EmptyStmt")
        Missing(c) == c = Nil \/ (n.k = "FuncType" /\ c = Last(bare) /\ c.list = <<>>)
    IN  <<n.k, Attr(n), Split(n), [i \in DOMAIN list |-> IF Missing(list[i]) THEN <<"nil">> ELSE Shape(list[i])]>>

-----------------------------------------------------------------------------
(* What the printer does not keep.                                           *)

\* An element in one line, of several strings: nothing separates them when they are printed.
JoinsStrings(src, nodes) ==
    \E i \in DOMAIN nodes :
        /\ nodes[i].k = "ElementBlockStmt" /\ isOneline(NewPrinter(src), nodes[i])
        /\ Len(nodes[i].list) > 1 /\ IsString(nodes[i].list[1])

\* The name of a generic type is not taken for a name, and the parentheses that protect the
\* braces of its literal are dropped.
RECURSIVE GenericLiteral(_)
GenericLiteral(x) ==
    CASE x.k = "ParenExpr" -> FALSE
      [] x.k = "CompositeLit" -> x.typ.k \in {"IndexExpr", "IndexListExpr"}
      [] OTHER -> \E i \in DOMAIN Children(x) : GenericLiteral(Children(x)[i])
Bares(x) == x.k = "ParenExpr" /\ (stripParens(x) # x) /\ GenericLiteral(stripParens(x))
BaresGeneric(nodes) ==
    \E i \in DOMAIN nodes :
        \/ nodes[i].k \in {"IfStmt", "ForStmt"} /\ Bares(nodes[i].cond)
        \/ nodes[i].k = "SwitchStmt" /\ Bares(nodes[i].tag)
        \/ nodes[i].k = "RangeStmt" /\ Bares(nodes[i].x)

\* The token before the n-th comment, and the last item on its line before it.
Places(text) == SelectSeq([i \in DOMAIN text |-> i], LAMBDA i : text[i] \in Comments)
ItemBefore(text, n, ignored) ==
    Last(<<"">> \o SelectSeq(SubSeq(text, 1, Places(text)[n] - 1), LAMBDA x : x \notin ignored))
TokenBefore(text, n) == ItemBefore(text, n, Comments \cup Blanks \cup {"\n"})
Both(text, printed) == DOMAIN Places(text) \cap DOMAIN Places(printed)

\* A comment begins a line, and what the line was broken behind is not before it any more: a comma,
\* a semicolon or a parenthesis is dropped or goes behind the comment. So the line ends a statement.
Detaches(text, printed) ==
    \E n \in Both(text, printed) :
        /\ ItemBefore(printed, n, Blanks) = "\n"
        /\ TokenBefore(printed, n) \in ImpliesSemi
        /\ TokenBefore(text, n) \notin ImpliesSemi

\* A comment was behind an opening parenthesis or bracket and is not any more: the parenthesis is
\* dropped, or nothing goes between it and the closing one.
Exposes(text, printed) ==
    \E n \in Both(text, printed) :
        TokenBefore(text, n) \in {"(", "["} /\ TokenBefore(printed, n) # TokenBefore(text, n)

-----------------------------------------------------------------------------
(* Properties of a text that is a file: src is the file, printed is the text *)
(* that is printed for it, and again the file that is.                       *)

\* What is printed has the same tree: line breaks go only where no semicolon is inserted for them,
\* and where tokens would be taken for others something separates them.
KeepsTree(text, src, printed, again) ==
    LET nodes == Preorder(src.file)
    IN  \/ again.ok /\ Shape(again.file) = Shape(src.file)
        \/ JoinsStrings(src, nodes) \/ BaresGeneric(nodes) \/ Detaches(text, printed.text)

\* Every comment is printed, once, between the names and literals it was between, and nothing
\* becomes a part of it; what is indented comes back.
Remarks(groups) == FlattenSeq([i \in DOMAIN groups |-> [j \in DOMAIN groups[i] |-> groups[i][j].text]])
Landmarks(text) == SelectSeq(text, LAMBDA x : x \in Comments \cup Idents \cup Literals)
KeepsComments(text, src, printed, again) ==
    /\ Remarks(again.groups) = Remarks(src.groups)
    /\ Landmarks(printed.text) = Landmarks(text) \/ Exposes(text, printed.text)
    /\ printed.balanced

\* Printing what has been printed changes nothing or makes it shorter, so that it comes to an end;
\* comments may go to other lines once more, but not a third time.
Settles(src, printed, again) ==
    LET second == Printed(again).text
    IN  again.ok => \/ second = printed.text
                    \/ Len(second) < Len(printed.text)
                    \/ src.groups # <<>> /\ Format(second) = second

FormattingKeeps(text) ==
    LET src == Source(text)
        printed == Printed(src)
        again == Source(printed.text)
    IN  src.ok /\ ~printed.panic =>
            KeepsTree(text, src, printed, again) /\ KeepsComments(text, src, printed, again) /\ Settles(src, printed, again)
==============================================================================
