------------------------ MODULE MCCallsCases ------------------------
(***************************************************************************)
(* Inputs for the algorithms of the runs Calls and Programs: LineTable,    *)
(* Imports, Constant, Printing, Typing, Parsing.                           *)
(***************************************************************************)
EXTENDS Integers, Sequences, SequencesExt

-----------------------------------------------------------------------------
(***************************************************************************)
(* Calls on the tables of two files, for LineTable.                        *)
(***************************************************************************)

T == INSTANCE LineTable

MCFiles == <<T!File("f", 1, 4), T!File("g", 6, 4)>>
On(i) ==
    {T!Call("AddLine", i, o, <<>>) : o \in {0, 2, 3, 4}} \cup {T!Call("MergeLine", i, l, <<>>) : l \in 0 .. 3}
    \cup {T!Call("Lines", i, 0, <<>>), T!Call("SetHeld", i, 0, <<>>),
          T!Call("SetPrefix", i, 1, <<0, 1, 2>>), T!Call("SetPrefix", i, 0, <<0, 2, 2>>),
          T!Call("SetLinesForContent", i, 0, <<FALSE, TRUE, TRUE, FALSE>>),
          T!Call("SetLinesForContent", i, 0, <<TRUE, FALSE, FALSE, TRUE>>)}
Infos(i) == {T!Call("AddLineColumnInfo", i, 0, T!lineInfo(1, "l", 7, 5)),
             T!Call("AddLineColumnInfo", i, 0, T!lineInfo(2, "m", 2, 0)),
             T!Call("AddLineInfo", i, 0, T!lineInfo(0, "n", 9, 3))}
Serialize == T!Call("Serialize", 1, 0, <<>>)
Calls == On(1) \cup On(2) \cup Infos(1) \cup {Serialize}
Starts(i) == {T!Call("SetPrefix", i, 1, <<0, 1, 2>>), T!Call("SetLinesForContent", i, 0, <<FALSE, TRUE, TRUE, FALSE>>),
              T!Call("AddLine", i, 0, <<>>), T!Call("AddLine", i, 1, <<>>)}

MCCalls == {{<<a, b, c>> : a \in Starts(1), b \in Calls, c \in Calls},
            {<<a, b, c, d>> : a \in {T!Call("SetPrefix", 1, 1, <<0, 1, 2>>)}, b \in On(1) \cup On(2), c \in On(1) \cup On(2), d \in Calls},
            {<<a, b, c, d>> : a \in Starts(1), b \in Infos(1), c \in On(1), d \in Infos(1) \cup On(1)}}

-----------------------------------------------------------------------------
(***************************************************************************)
(* Blocks of imports, for Imports.                                         *)
(***************************************************************************)

I == INSTANCE Imports

Specs == {<<I!Spec(path, name)>> : path \in {1, 2}, name \in {0, 1}}
Paths == {<<I!Spec(path, 0)>> : path \in {1, 2}}
Ls(specs, left, right) == {I!Line(l, s, r) : l \in left, s \in specs, r \in right}
Blank == I!Line(0, <<>>, 0)
Text == I!Line(7, <<>>, 0)      \* a comment alone

MCBlocks == {[1 .. 3 -> Ls(Specs, {0}, {0, 3, 4})],
             [1 .. 2 -> Ls(Specs, {0, 5, 6}, {0, 3})],
             [1 .. 4 -> Ls(Paths, {0}, {0, 3}) \cup {Blank, Text}]}

-----------------------------------------------------------------------------
(***************************************************************************)
(* Texts for the printer: files with up to two more line breaks anywhere.  *)
(***************************************************************************)

Break(toks, i, n) == SubSeq(toks, 1, i) \o [k \in 1 .. n |-> "\n"] \o SubSeq(toks, i + 1, Len(toks))

\* One gap of up to four lines, or two line breaks.
Broken(toks) ==
    {Break(toks, i, n) : i \in 3 .. Len(toks), n \in 0 .. 4}
    \cup {Break(Break(toks, ij[2], 1), ij[1], 1) : ij \in {ij \in (3 .. Len(toks)) \X (3 .. Len(toks)) : ij[1] < ij[2]}}

InFile(toks) == <<"package", "x", "\n">> \o toks
InFunc(toks) == InFile(<<"func", "x", "(", ")", "{">> \o toks \o <<"}">>)

Decls == {
    <<"import", "(", "x", "s", ";", ".", "s", ")", "\n", "import", "s">>,
    <<"var", "x", ",", "y", "T", "=", "1", ",", "y", "+", "x", "\n", "const", "(", "x", "=", "1", ";", "y", ")", "\n", "type", "(", ")">>,
    <<"type", "T", "struct", "{", "x", ",", "y", "P", "s", ";", "T", "}", "\n", "type", "P", "struct", "{", "*", "x", ".", "y", "}">>,
    <<"type", "T", "=", "interface", "{", "x", "(", "y", ",", "x", "P", ")", "T", ";", "~", "x", "|", "P", ".", "x", "}">>,
    <<"type", "T", "[", "P", "*", "x", ",", "]", "[", "1", "]", "P", "\n", "type", "P", "interface", "{", "x", "(", ")", "}">>,
    <<"type", "T", "[", "P", "*", "x", "|", "y", ",", "]", "[", "]", "P", "\n", "type", "x", "[", "T", "*", "y", "]", "x">>,
    <<"type", "T", "[", "P", ",", "y", "interface", "{", "}", "]", "map", "[", "P", "]", "<-", "chan", "chan", "<-", "y">>,
    <<"func", "(", "x", "*", "T", "[", "P", "]", ")", "y", "(", "x", "(", "P", ")", ",", "y", "...", "T", ")", "(", "(", "x", ")", ")", "{", "return", "x", "}">>,
    <<"func", "x", "[", "P", ",", "T", "y", "]", "(", "x", ",", "y", "P", ",", ")", "(", "x", "P", ",", "y", "T", ")", "{", "}", "\n", "func", "y", "(", ")">>,
    <<"type", "T", "[", "P", "(", "(", "*", "x", ")", ")", ",", "]", "P", "\n", "type", "P", "(", "x", ")">>
}

Stmts == {
    <<"x", ",", "y", ":=", "x", "(", "1", ",", "y", "...", ")", ",", "y", "[", "1", ":", "x", "+", "1", "]", ";", "x", "++">>,
    <<"x", "=", "T", "{", "1", ",", "x", ":", "{", "y", "}", ",", "}", ";", "return", "x", ",", "-", "y", "*", "-", "-", "x">>,
    <<"x", ".", "y", ".", "T", "(", "x", ".", "(", "y", ")", ",", ")", ";", "y", "[", "T", ",", "P", ",", "]", "(", ")">>,
    <<"x", "=", "x", "+", "y", "*", "(", "(", "x", "&&", "y", ")", ")", "==", "1", "+", "+", "x", "*", "y", "&", "^", "x">>,
    <<"if", "x", ":=", "y", ";", "(", "x", "==", "(", "T", "{", "}", ")", ")", "{", "}", "else", "if", "(", "y", ")", "{", "x", "(", ")", "}">>,
    <<"if", "(", "(", "T", "{", "1", "}", ")", ".", "x", "==", "y", ")", "{", "}", "else", "{", "return", "}">>,
    <<"for", "x", ",", "y", ":=", "range", "(", "x", ")", "{", "}", ";", "for", "range", "1", "{", "continue", "}", ";", "for", "{", "}">>,
    <<"for", ";", "x", ";", "{", "break", "}", ";", "for", "x", "=", "1", ";", ";", "x", "++", "{", "}", ";", "for", "(", "x", ")", "{", "}">>,
    <<"switch", "x", ":=", "y", ";", "(", "x", ")", "{", "case", "1", ",", "x", ":", "fallthrough", ";", "default", ":", "}">>,
    <<"switch", "x", ";", "y", ":=", "x", ".", "(", "type", ")", "{", "case", "T", ":", "y", ":", "}", ";", "select", "{", "}">>,
    <<"select", "{", "case", "x", "<-", "y", ":", "go", "x", "(", ")", ";", "case", "y", ",", "x", "=", "<-", "T", ":", "default", ":", "}">>,
    <<"x", ":", ";", "y", ":", "for", "{", "goto", "x", "}", ";", "x", ":", "T", ":", "{", "}", ";", "P", ":">>,
    <<"x", ":=", "func", "(", ")", "{", "x", "(", ")", ";", ";", "y", "++", "}", ";", "defer", "func", "(", "x", "P", ")", "{", "}", "(", "x", ")">>,
    <<"var", "x", ",", "y", "struct", "{", "x", "T", "}", "=", "x", ",", "y", ";", "x", "<-", "func", "(", ")", "T", "{", "s", "}">>,
    <<"<", "x", "@", "y", "@", "y", "=", "s", ";", "x", "(", ")", "\n", ">", "s", ";", "t{", "</", "x", ">">>,
    <<"<", "x", ">", "<", "y", ">", "t{", "</", "y", ">", "<", "br", ">", "</", "x", ">", "\n", "s", ";", "x", "(", ")">>,
    <<"<", "x", ">", "s", "</", "x", ">", ";", "if", "x", "{", "<", "y", ">", "\n", "x", "++", ";", "</", "y", ">", "}">>,
    <<"x", ":=", "func", "(", ")", "{", "<", "x", ">", ";", "</", "x", ">", "}", ";", "y", ":", "<", "br", ">">>,
    <<"<", "x", ">", "s", ";", "t{", "</", "x", ">", "\n", "if", "(", "T", "[", "P", "]", "{", "}", "==", "x", ")", "{", "}">>
}

\* A comment or two with the line breaks around them, anywhere.
Remarks == {<<"/*a*/">>, <<"/*a*/", "\n">>, <<"\n", "/*a*/">>, <<"\n", "/*a*/", "\n">>, <<"//a", "\n">>, <<"\n", "//a", "\n">>,
            <<"/*a\n*/">>, <<"\n", "/*a\n*/", "\n">>, <<"//a", "\n", "//b", "\n">>, <<"//a", "\n", "\n", "//b", "\n">>,
            <<"/*a*/", "//b", "\n">>, <<"/*a*/", "/*b*/">>}
Remarked(toks) == {SubSeq(toks, 1, i) \o r \o SubSeq(toks, i + 1, Len(toks)) : i \in 0 .. Len(toks), r \in Remarks}

\* The same with a line for each statement and case.
Spread(toks) == FlattenSeq([i \in DOMAIN toks |-> IF toks[i] \in {"{", ";", ":"} THEN <<toks[i], "\n">> ELSE <<toks[i]>>])

MCTexts == {Broken(InFile(toks)) : toks \in Decls} \cup {Broken(InFunc(toks)) : toks \in Stmts}
           \cup {Remarked(InFile(toks)) : toks \in Decls} \cup {Remarked(InFunc(toks)) : toks \in Stmts}
           \cup {Remarked(Spread(InFile(toks))) : toks \in Decls} \cup {Remarked(Spread(InFunc(toks))) : toks \in Stmts}

-----------------------------------------------------------------------------
(***************************************************************************)
(* Constants about the limits of their representations, for Constant: an   *)
(* int64 is one of -8 .. 7, a float has six bits, and a fraction           *)
(* components of up to seven bits.                                         *)
(***************************************************************************)

C == INSTANCE Constant WITH Width <- 4, Prec <- 6, MaxExp <- 8, Delta <- 1, ByteBits <- 2, WordBytes <- 2

Integral == {C!makeInt(n) : n \in (-9 .. 9) \cup {-20, -16, 15, 16, 31, 100, 150, 300}}
Rational == {C!makeRat(f[1], f[2]) : f \in {<<0, 1>>, <<7, 1>>, <<-16, 1>>, <<1, 2>>, <<-3, 2>>, <<1, 3>>, <<2, 3>>,
                                             <<100, 3>>, <<1, 40>>}}
Floating == {C!newFloat(f[1], f[2]) : f \in {<<0, 1>>, <<1, 3>>, <<2, 3>>, <<300, 1>>, <<-300, 1>>, <<40, 1>>, <<1, 12>>, <<63, 2>>}}
Real == Integral \cup Rational \cup Floating
Parts == {C!int64Val(0), C!int64Val(2), C!int64Val(-8), C!makeRat(1, 2), C!makeRat(1, 3)}
Complex == {C!complexVal(re, im) : re \in Parts, im \in Parts}
Letters == {C!MakeString(s) : s \in {<<>>, <<1>>, <<1, 2>>}}
SumsOf(X) == [rep : {"stringVal"}, l : X, r : X]
Sums == SumsOf(Letters)
Texts == Letters \cup Sums \cup SumsOf(Sums)

BinaryOp(op, X, Y) == [op : {op}, x : X, y : Y]
NonZero(X) == {x \in X : C!Sign(x) # 0}

MCOps ==
    {BinaryOp(op, Real \cup {C!unknown}, Real \cup {C!unknown}) : op \in {"+", "-", "*"}}
    \cup {BinaryOp("/", Real, NonZero(Real))}
    \cup {BinaryOp(op, Integral, NonZero(Integral)) : op \in {"/=", "%"}}
    \cup {BinaryOp(op, Integral, Integral) : op \in {"&", "|", "^", "&^"}}
    \cup {BinaryOp(op, Complex, Complex \cup Parts) : op \in {"+", "-", "*"}}
    \cup {BinaryOp("/", Complex, NonZero(Complex))}
    \cup {BinaryOp("+", Texts, Letters \cup Sums)}
    \cup {BinaryOp("convert", Real \cup Complex \cup Texts \cup {C!unknown, C!boolVal(TRUE)}, {C!unknown})}

-----------------------------------------------------------------------------
(***************************************************************************)
(* Small expressions in their contexts, for Typing: constants about the    *)
(* limits of int8 (-4 .. 3), uint8 (0 .. 7), int (-8 .. 7), uint (0 .. 15) *)
(* and float64 (three bits, less than 2^7), and a variable of every kind   *)
(* of type.                                                                *)
(***************************************************************************)

E == INSTANCE Typing WITH Width <- 4, Prec <- 6, MaxExp <- 8, Delta <- 1, ByteBits <- 2, WordBytes <- 2,
                          SmallBits <- 3, FloatBits <- 3, FloatExp <- 7, ShiftBound <- 7

Node(k, op, typ, args) == [k : {k}, op : op, typ : typ, val : {E!NoVal}, args : args]
Leaf(k, typ, val) == E!Expr(k, "", typ, val, <<>>)

Untyped(kind, val) == Leaf("Lit", E!Typ(kind), val)
Integer(n) == IF n \in -8 .. 7 THEN E!int64Val(n) ELSE E!intVal(n)
Fraction(n, d) == [rep |-> "ratVal", n |-> n, d |-> d]
UInt(n) == Untyped("untyped int", Integer(n))
Rune == Untyped("untyped rune", Integer(2))
UFloat(n, d) == Untyped("untyped float", Fraction(n, d))
Float1 == UFloat(1, 1)
String1 == Untyped("untyped string", [rep |-> "stringVal", s |-> <<1>>])
True == Leaf("Const", E!Typ("untyped bool"), E!boolVal(TRUE))
Nil == Leaf("Nil", E!UntypedNil, E!NoVal)
Var(t) == Leaf("Var", t, E!NoVal)
int == E!Typ("int")
AnyType == E!Interface("any")
D == E!Named("D", E!Typ("int8"))                   \* type D int8
M == E!Named("M", E!Typ("string"))                 \* has the method of the interface I

UntypedLeaves ==
    {UInt(1), UInt(7), UInt(8), UInt(40), UInt(63), Rune, Float1, UFloat(1, 2), UFloat(60, 1), String1, True, Nil}
Vars == {Var(t) : t \in {int, E!Typ("int8"), E!Typ("uint"), E!Typ("float64"), E!Typ("string"), E!Typ("bool"), D,
                         E!Pointer(int), AnyType, E!Interface("I"), E!TypeParam("P"), E!TypeParam("Q")}}
Typed == {Leaf("Const", E!Typ("int8"), Integer(3)), Leaf("Const", E!Typ("float64"), Fraction(1, 1)),
          Leaf("Const", E!Typ("uint"), Integer(9))}
Leaves == UntypedLeaves \cup Vars \cup Typed

Arithmetic == {"+", "-", "*", "/", "%", "&", "&&"}
Comparisons == {"==", "<"}
Shifts == {"<<", ">>"}
S == Var(E!Typ("uint"))
Binary(ops, X, Y) == Node("Binary", ops, {E!NoType}, X \X Y)

Use(X, use, TypeT) == [e : X, use : use, T : TypeT]
Targets == {int, E!Typ("int8"), E!Typ("uint"), E!Typ("float64"), E!Typ("string"), E!Typ("bool"), D, AnyType, E!Pointer(int),
            E!Interface("I"), E!TypeParam("P"), E!TypeParam("Q")}
Contexts(X) == {Use(X, {"var"}, Targets \cup {E!NoType}), Use(X, {"const"}, {E!NoType, E!Typ("int8"), E!Typ("float64"), D}),
                Use(X, {"_"}, {E!NoType})}
Few(X) == {Use(X, {"var"}, {E!NoType, E!Typ("int8"), E!Typ("float64"), AnyType, E!TypeParam("P")}), Use(X, {"const", "_"}, {E!NoType})}

Tuple1(X) == [1 .. 1 -> X]
Unary(ops, X) == Node("Unary", ops, {E!NoType}, Tuple1(X))
Conv(TypeT, X) == Node("Conv", {""}, TypeT, Tuple1(X))
ParenOf(X) == Node("Paren", {""}, {E!NoType}, Tuple1(X))

Shifted == Binary(Shifts, {UInt(1), UInt(40), Float1, Rune, UFloat(1, 2), Var(int), String1}, {S, UInt(1), Float1})
Shifting == Binary({"<<"}, {UInt(1), Float1}, {S})
Compared == Binary(Comparisons, {UInt(1), Var(AnyType), Float1} \cup Shifting, Shifting \cup {UInt(1), Var(AnyType), Nil})
Ints(len) == E!Array(len, int)
Indexed == {Var(t) : t \in {Ints(1), E!Pointer(Ints(2)), E!Slice(int), E!Typ("string"), E!Typ("int8"), E!TypeParam("S"), E!TypeParam("A"), M}}
           \cup {Leaf("Value", Ints(1), E!NoVal), String1, UInt(1), Nil}
Indices == {UInt(0), UInt(1), UInt(2), UInt(8), Float1, UFloat(1, 2), String1, S, Var(E!Typ("float64")), Var(E!TypeParam("P"))} \cup Typed
Bounds == {Leaf("None", E!NoType, E!NoVal), UInt(0), UInt(1), UInt(2), S, Float1}
Slices(X) == Node("Slice", {""}, {E!NoType}, X \X Bounds \X Bounds) \cup Node("Slice", {""}, {E!NoType}, X \X {UInt(0), UInt(1)} \X Bounds \X Bounds)
Pointers == {Var(E!Pointer(int)), Var(int), Nil, Leaf("Type", int, E!NoVal), UInt(1), Leaf("Value", E!NoType, E!NoVal),
             Leaf("Value", E!Type("Tuple", "", E!NoType, 0), E!NoVal)}
Accesses == Node("Index", {""}, {E!NoType}, Indexed \X (Indices \cup Shifting)) \cup Slices(Indexed) \cup Node("Star", {""}, {E!NoType}, Tuple1(Pointers))
            \cup Pointers

Operators == Arithmetic \cup Comparisons \cup Shifts

\* What templates write, and the types they may write.
MCTemplates == {Use(Leaves \cup Shifted, {"template"}, {E!NoType})}
MCAllowed == {int, E!Typ("string"), E!Typ("int32")}

MCExpressions ==
    Contexts(Leaves)
    \cup Few(Binary(Operators, Leaves, Leaves))
    \cup Contexts(Shifted \cup Unary({"+", "-", "^", "!", "&"}, Leaves))
    \cup Contexts(Conv(Targets, Leaves \cup Shifting))
    \cup Few(Binary({"+", "==", "<<"}, Shifted \cup Compared, {UInt(1), Float1, Var(E!Typ("int8")), Var(AnyType), S}))
    \cup Few(Binary({"+", "=="}, {UInt(1), Float1, Var(E!Typ("int8")), Var(AnyType)}, Shifted \cup Compared))
    \cup Few(Accesses \cup Unary({"&"}, Accesses))
    \cup Few(ParenOf(Shifting) \cup Unary({"-", "!"}, Shifting \cup Compared))

-----------------------------------------------------------------------------
(***************************************************************************)
(* Inputs of the parser: the words over a few tokens, between a beginning  *)
(* and an end.                                                             *)
(***************************************************************************)

\* The scanner inserts a semicolon at the end of a line after these.
BeforeNewline == {"x", "y", "T", "P", "br", "1", "s", "t{", "break", "continue", "fallthrough",
    "return", "++", "--", ")", "]", "}", ">"}
Scannable(toks) == \A i \in DOMAIN toks : toks[i] = "\n" => i > 1 /\ toks[i - 1] \in BeforeNewline
AtEOF(toks) == IF toks # <<>> /\ toks[Len(toks)] \in BeforeNewline \ {">"} THEN Append(toks, "\n") ELSE toks

Words(alphabet, n) == UNION {[1 .. k -> alphabet] : k \in 0 .. n}
Between(entry, begin, words, end) ==
    {[entry |-> entry, toks |-> AtEOF(begin \o w \o end)] : w \in {w \in words : Scannable(begin \o w \o end)}}

Package == <<"package", "x", "\n">>
FileWith(begin, alphabet, n, end) == Between("file", Package \o begin, Words(alphabet, n), end)
Body(begin, alphabet, n, end) == FileWith(<<"func", "x", "(", ")", "{">> \o begin, alphabet, n, end \o <<"}">>)
Exprs(begin, alphabet, n, end) == Between("expr", begin, Words(alphabet, n), end)

\* Up to n phrases, which are lines and parts of lines.
Phrases(entry, begin, phrases, n, end) ==
    {[entry |-> entry, toks |-> AtEOF(begin \o FlattenSeq(w) \o end)] : w \in Words(phrases, n)}
FuncBegin == Package \o <<"func", "x", "(", "y", "T", ")", "{">>
BodyOf(phrases, n) == Phrases("file", FuncBegin, phrases, n, <<"}">>)
DeclsOf(phrases, n) == Phrases("file", Package, phrases, n, <<>>)

Times(n, toks) == FlattenSeq([k \in 1 .. n |-> toks])

\* Words over the tokens that a production of the grammar deals with.
WordInputs == {
    Exprs(<<"x">>, {"x", "+", "*", "==", "(", ")", "&&"}, 4, <<"x">>),
    Exprs(<<>>, {"x", "[", "]", ":", ",", "..."}, 4, <<>>),
    Exprs(<<"x">>, {"x", "[", "]", ":", ".", "("}, 4, <<"]">>),
    Exprs(<<>>, {"<-", "chan", "x", "(", ")"}, 5, <<>>),
    Exprs(<<"x">>, {"x", "{", "}", ",", ":", "1"}, 4, <<"}">>),
    Exprs(<<"func", "(">>, {"x", ")", "{", "}", "*", ","}, 4, <<>>),
    Body(<<"if">>, {"x", "{", "}", "(", ")", ";", ":=", "var"}, 4, <<"{", "}", "\n">>),
    Body(<<"for">>, {"x", "{", "}", ",", ";", ":=", "range"}, 4, <<"{", "}", "\n">>),
    Body(<<"switch">>, {"x", "{", "}", ".", "(", "type", ")", ":=", ";"}, 4, <<"{", "}", "\n">>),
    Body(<<"switch", "x", "{", "case", "x">>, {"case", "default", "x", ":", "\n", "fallthrough"}, 4, <<"}">>),
    Body(<<"select", "{", "case">>, {"case", "default", "x", ":", "=", "<-", ","}, 4, <<":", "}">>),
    Body(<<>>, {"<", "</", ">", "x", "@", "=", "s", "}"}, 4, <<"</", "x", ">">>),
    Body(<<"<", "x">>, {"<", "</", ">", "@", "=", "t{", "\n", "x"}, 4, <<>>),
    Body(<<"<", "x">>, {"@", "x", "=", "s", "t{", "\n"}, 4, <<">", "</", "x", ">">>),
    Body(<<>>, {"go", "x", "(", ")", ":", "<-", "++", "\n", "goto"}, 4, <<>>),
    Body(<<"if", "x", "{", "}">>, {"else", "if", "x", "{", "}", "\n"}, 4, <<>>),
    FileWith(<<"type", "T", "[">>, {"P", "*", "(", ")", "[", "]", ",", "|"}, 4, <<"]", "x">>),
    FileWith(<<"type", "T", "[", "P">>, {"x", "*", "~", "[", "]", ",", "|"}, 3, <<"]", "x">>),
    FileWith(<<"func", "x", "(">>, {"x", "T", ",", "...", "*", ".", "["}, 4, <<")">>),
    FileWith(<<"func">>, {"x", "(", ")", "[", "]", "{", "}", "\n"}, 5, <<>>),
    FileWith(<<"type", "T", "struct", "{">>, {"x", ",", "*", ".", "s", "\n", "(", "["}, 4, <<"}">>),
    FileWith(<<"type", "T", "interface", "{", "x">>, {"x", "(", ")", "~", "|", "\n", "[", "]"}, 4, <<"}">>),
    FileWith(<<"import">>, {"(", ")", "s", "x", ".", "\n", "}"}, 4, <<>>),
    FileWith(<<"var">>, {"x", "=", ",", "(", ")", "\n", "const"}, 4, <<>>),
    FileWith(<<>>, {"func", "type", "x", "(", ")", "\n", "import", "s"}, 4, <<>>),
    Between("file", <<>>, Words({"package", "x", "\n", "s", ";"}, 4), <<>>),
    {[entry |-> "expr", toks |-> Times(n, <<b>>)] : n \in {2, 4, 6}, b \in {"(", "[", "-", "*", "{", "func"}},
    {[entry |-> "file", toks |-> Package \o Times(n, <<"x", "\n">>)] : n \in {3, 10, 11, 12, 14}},
    {[entry |-> "file", toks |-> Package \o <<"func", "x", "(", ")", "{">> \o Times(n, <<"x", "x", "\n">>)] : n \in {3, 10, 11, 12, 14}}
}

Close == <<"}", "\n">>
CallX == <<"x", "(", "y", ")", "\n">>
Declare == <<"x", ":=", "y", "\n">>
DeclareBoth == <<"x", ",", "y", ":=", "y", ",", "x", "\n">>

\* Programs for the resolution of identifiers: declarations, uses, and blocks.
ScopeInputs == {
    BodyOf({<<"{">>, <<"if", "x", ":=", "x", ";", "x", "{">>, <<"}", "else", "{">>, Close, CallX, Declare, <<"var", "x", "=", "x", "\n">>}, 4),
    BodyOf({<<"for", "x", ":=", "range", "x", "{">>, <<"for", "x", ",", "y", ":=", "range", "y", "{">>,
            <<"for", "x", ":=", "x", ";", "x", ";", "x", "++", "{">>, Close, CallX, DeclareBoth}, 5),
    BodyOf({<<"switch", "x", ":=", "x", ";", "y", ":=", "x", ".", "(", "type", ")", "{">>, <<"switch", "x", ":=", "y", ";", "x", "{">>,
            <<"case", "x", ":">>, <<"select", "{">>, <<"case", "x", ":=", "<-", "x", ":">>, Close, CallX}, 4),
    BodyOf({<<"x", ":=", "func", "(", "x", "y", ")", "(", "y", "x", ")", "{">>, <<"var", "y", "struct", "{", "x", "x", "\n">>,
            <<"x", "=", "y", "{", "x", ":", "y", "}", "\n">>, <<"type", "x", "[", "]", "x", "\n">>, Close, CallX, Declare}, 4),
    BodyOf({<<"x", ":">>, <<"goto", "x", "\n">>, <<"func", "(", ")", "{">>, <<"}", "(", ")", "\n">>, <<"for", "{">>, Close, <<"break", "y", "\n">>}, 4),
    BodyOf({<<"<", "x", ">", "\n">>, <<"</", "x", ">", "\n">>, <<"<", "x", "@", "y", "=", "t{">>, Declare, CallX, <<">", "\n">>}, 4),
    DeclsOf({<<"func", "x", "(", ")", "{">>, <<"func", "(", "x", "T", "[", "P", "]", ")", "y", "(", "P", "x", ")", "{">>,
           <<"func", "T", "[", "P", "x", ",", "x", "P", "]", "(", "y", "P", ")", "P", "{">>, CallX, Declare, Close}, 4),
    DeclsOf({<<"var", "x", "=", "T", "{", "y", ":", "x", ",", "T", ":", "x", "}", "\n">>, <<"var", "T", "struct", "{", "x", "y", "\n", "}", "\n">>,
           <<"type", "T", "[", "P", "x", "]", "struct", "{", "x", "P", "\n", "}", "\n">>,
           <<"type", "(", "x", "T", "\n", "y", "x", ")", "\n">>, <<"type", "y", "interface", "{", "x", "(", "x", "P", ")", "\n", "}", "\n">>,
           <<"const", "P", ",", "y", "=", "y", ",", "P", "\n">>}, 3)
}

MCInputs == WordInputs \cup ScopeInputs
=============================================================================
