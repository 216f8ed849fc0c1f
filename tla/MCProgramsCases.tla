------------------------ MODULE MCProgramsCases ------------------------
(***************************************************************************)
(* Programs for the algorithms of the run Programs: Mono, ValidType,       *)
(* Collect, Using, Arguments.                                              *)
(***************************************************************************)
EXTENDS Naturals, Sequences

-----------------------------------------------------------------------------
(***************************************************************************)
(* Programs of a few instantiations, for Mono.                             *)
(***************************************************************************)

M == INSTANCE Mono

P1(f) == M!TypeParam(f, 1)
P2(f) == M!TypeParam(f, 2)

NonEmpty(S, n) == UNION {[1 .. k -> S] : k \in 1 .. n}
Instances(in, of, types) == [in : {in}, of : {of}, targs : types]
Single(S) == [1 .. 1 -> S]

\* Functions with one parameter, that pass it on or a slice of it.
Flows(F) == UNION {Instances(f, g, Single({P1(f), M!Slice(P1(f))})) : f \in F, g \in F}
Functions(F, n) == [scope : {[f \in F |-> <<1>>]}, receiver : {<<>>}, instances : NonEmpty(Flows(F), n)]

\* f has two parameters and a local type, m is a method of the type N.
Mixed == Instances("f", "f", {<<P1("f"), M!Slice(P2("f"))>>, <<P2("f"), P1("f")>>, <<P2("f"), M!Slice(P1("f"))>>, <<M!Local("f"), P1("f")>>,
                               <<M!Basic, M!Named("N", <<P1("f")>>)>>, <<P1("f"), M!Basic>>})
         \cup Instances("f", "N", {<<P1("f")>>, <<P2("f")>>, <<M!Local("f")>>})
         \cup Instances("m", "N", {<<P1("m")>>, <<M!Slice(P1("m"))>>, <<M!Local("m")>>, <<M!Named("N", <<P1("m")>>)>>})
         \cup Instances("m", "f", {<<P1("m"), M!Basic>>, <<M!Basic, M!Slice(P1("m"))>>})
WithMethods(n) == [scope : {[f |-> order, N |-> <<1>>, m |-> <<1>>] : order \in {<<1, 2>>, <<2, 1>>}},
               receiver : {[m |-> "N"]}, instances : NonEmpty(Mixed, n)]

MCInstantiations == {Functions({"f", "g"}, 4), Functions({"f", "g", "h"}, 3), WithMethods(3)}
MCDepth == 4

-----------------------------------------------------------------------------
(***************************************************************************)
(* Programs of one type and two generic types, for ValidType.              *)
(***************************************************************************)

V == INSTANCE ValidType

MCNames == <<"A", "F", "G">>
TypeA == V!Named("A", <<>>)
FOf(t) == V!Named("F", <<t>>)
GOf(t) == V!Named("G", <<t>>)
ParamOf(of) == V!TypeParam(of, 1)

\* The fields of A, and of a generic type, which may use its parameter.
OfA == {TypeA, FOf(V!Basic), FOf(TypeA), GOf(TypeA), FOf(FOf(TypeA)), FOf(GOf(TypeA)), GOf(FOf(V!Basic)), V!Pointer(FOf(TypeA))}
OfF(X) == {TypeA, X, FOf(X), GOf(X), GOf(V!Basic), GOf(GOf(X)), GOf(FOf(X)), FOf(TypeA), GOf(TypeA), FOf(V!Pointer(X)), V!Pointer(FOf(GOf(X)))}
UpTo(S, n) == UNION {[1 .. k -> S] : k \in 0 .. n}

\* A program with those lists of fields.
ThreeTypes(a, f, g) == [A : a, F : f, G : g]
StructOf(S) == [fields : S]

MCThreeTypes == {ThreeTypes(StructOf(UpTo(OfA, 1)), StructOf(UpTo(OfF(ParamOf("F")), 2)), StructOf(UpTo(OfF(ParamOf("G")), 1))),
               ThreeTypes(StructOf(UpTo(OfA, 2)), StructOf(UpTo(OfF(ParamOf("F")), 1)), StructOf(UpTo(OfF(ParamOf("G")), 1)))}

-----------------------------------------------------------------------------
(***************************************************************************)
(* Packages of two files, in one or two calls, for Collect.                *)
(***************************************************************************)

O == INSTANCE Collect

Gives(result, path, name, exports, hidden) == O!Imported(result, O!Package(path, name, exports, hidden, FALSE))
Importer == [p |-> Gives("complete", "p", "a", {"X"}, {"h"}),
             q |-> Gives("complete", "q", "b", {"X", "Y"}, {}),
             r |-> O!Imported("error", O!NoPackage),
             s |-> Gives("error", "s", "c", {"X"}, {}),
             i |-> Gives("incomplete", "i", "b", {}, {}),
             C |-> O!Imported("error", O!NoPackage)]
Program(files, fakeC) == [importer |-> Importer, calls |-> files, fakeC |-> fakeC]
Imports == {O!Import("", "p"), O!Import("b", "p"), O!Import(".", "p"), O!Import("", "q"), O!Import(".", "q"), O!Import("_", "p"),
            O!Import("", "i"), O!Import("", "r"), O!Import(".", "s"), O!Import("init", "p")}
Named(name) == O!TypeExpr(<<>>, name, {})
Struct == O!TypeExpr(<<>>, "", {"m"})
Uses == {O!Use("a", "X"), O!Use("a", "h"), O!Use("b", "Y"), O!Use("X", ""), O!Use("a", ""), O!Use("r", "Z"), O!Use("int", "")}
Some == {O!Use("a", "X"), O!Use("X", ""), O!Use("b", "Y")}
UsersOf(us) == {O!Func("_", FALSE, <<u>>) : u \in us}
Decls == {O!Value(<<"a", "b">>, FALSE), O!Value(<<"X">>, TRUE), O!Value(<<"a", "a">>, FALSE), O!Value(<<"init">>, FALSE),
          O!Value(<<"main">>, FALSE), O!Type("int", FALSE, Struct), O!Func("init", FALSE, <<>>), O!Func("init", TRUE, <<>>),
          O!Func("main", TRUE, <<>>), O!Func("a", FALSE, <<>>), O!Value(<<"_", "X">>, TRUE)}
MainFiles(S) == {O!File("main", ds) : ds \in S}
Seq2(X, Y) == {<<a, b>> : a \in X, b \in Y}
Seq3(X, Y, D) == {<<a, b, d>> : a \in X, b \in Y, d \in D}
Heads == MainFiles(Seq3(Imports, UsersOf(Uses), {O!Value(<<"Y">>, FALSE)}) \cup Seq3(Imports, {O!Import("", "p"), O!Import("", "q")}, UsersOf(Some)))
Tails == MainFiles(Seq2(Decls, UsersOf({O!Use("a", ""), O!Use("X", "")})) \cup Seq2({O!Import("", "p")}, Decls)) \cup
         {O!File("_", <<O!Value(<<"Y">>, FALSE)>>), O!File("other", <<O!Value(<<"a">>, FALSE)>>)}

\* Types, aliases and methods.
Stars == {<<>>, <<"*">>, <<"(", "*">>, <<"*", "*">>}
Ref(S, names) == {O!TypeExpr(m, n, {}) : m \in S, n \in names}
Types == {O!Type("T", FALSE, Struct), O!Type("T", FALSE, Named("B")), O!Type("T", TRUE, Named("B"))}
Aliases == {O!Type("A", TRUE, t) : t \in Ref(Stars, {"T", "A"})} \cup {O!Type("A", FALSE, Named("T"))}
Bases == {O!Type("B", FALSE, Struct), O!Type("B", TRUE, O!TypeExpr(<<"*">>, "T", {}))}
Methods == {O!Method(r, n) : r \in Ref({<<>>, <<"*", "(">>}, {"T", "A", "int"}), n \in {"m", "n"}} \cup {O!Method(Named("B"), "_")}
Cs == {<<O!Import("", "C"), O!Func("_", FALSE, <<O!Use("C", "x")>>)>>, <<O!Import("c", "C")>>, <<O!Import("", "C"), O!Import("", "C")>>}

MCPackages ==
    {{Program(<<<<f, g>>>>, FALSE) : f \in Heads, g \in Tails},
     {Program(<<<<f>>, <<g>>>>, FALSE) : f \in MainFiles(Seq2(Decls, UsersOf({O!Use("a", "")}))), g \in Heads},
     {Program(<<<<O!File("f", <<t, m>>), O!File("f", <<a, b, n>>)>>>>, FALSE) :
         t \in Types, a \in Aliases, b \in Bases, m \in Methods, n \in {O!Method(Named("T"), "m"), O!Method(Named("A"), "n"), O!Method(Named("B"), "m")}},
     {Program(<<<<O!File("f", <<t, a, m>>)>>, <<O!File("f", <<n>>)>>>>, FALSE) :
         t \in {O!Type("T", FALSE, Struct)}, a \in Aliases, m \in Methods, n \in {O!Method(Named("T"), "m"), O!Method(Named("A"), "n"), O!Method(Named("B"), "m")}},
     {Program(<<<<O!File("f", ds)>>>>, fake) : ds \in Cs, fake \in BOOLEAN}}

-----------------------------------------------------------------------------
(***************************************************************************)
(* Small functions for Using: a variable of every kind of type in the      *)
(* function, others in the block, and one or two statements, one of which  *)
(* may be in the other.                                                    *)
(***************************************************************************)

U == INSTANCE Using

Sets(k, name, typ, args, results, body) ==
    [k : {k}, name : name, typ : typ, args : args, results : results, body : body, pos : {0}]
Call(args, results) == [U!Name("") EXCEPT !.k = "Call", !.args = args, !.results = results]
Lit(typ, val) == [U!Name(val) EXCEPT !.k = "Lit", !.typ = typ]
Of(k, args) == [U!Name("") EXCEPT !.k = k, !.args = args]
Lambda(results, body) == [U!Name("") EXCEPT !.k = "FuncLit", !.results = results, !.body = body]
At(e, pos) == [e EXCEPT !.pos = pos]

N(name) == U!Name(name)
A == N("a")
B == N("b")
K == N("k")
Blank == N("_")
Undefined == N("u")
One == Lit("untyped int", "1")
Text == Lit("untyped string", "t")
Elem == Of("Index", <<N("m"), A>>)
FieldOfElem == Of("Field", <<Of("Index", <<N("t"), B>>)>>)
FieldOf == Of("Field", <<N("p")>>)
Receive == Of("Recv", <<N("ch")>>)
Two == Call(<<A>>, <<"int", "string">>)
No == Call(<<>>, <<>>)
Show(e) == Call(<<e>>, <<>>)

S(k, tok, lhs, rhs) == U!Stmt(k, tok, "none", lhs, rhs, <<>>)
Assign(lhs, rhs) == S("Assign", "=", lhs, rhs)
Define(lhs, rhs) == S("Assign", ":=", lhs, rhs)
Do(e) == S("Expr", "", <<>>, <<e>>)
Return(rhs) == S("Return", "", <<>>, rhs)
Body(list) == U!Clause(<<>>, <<>>, list)
Block(list) == U!Stmt("Block", "", "none", <<>>, <<>>, <<Body(list)>>)

UsesX == Lambda(<<>>, <<Do(Show(N("x")))>>)
UsesB == Lambda(<<>>, <<Define(<<At(B, 2)>>, <<One>>), Do(Show(A))>>)
Captured == Lambda(<<"int">>, <<Return(<<B>>)>>)

Lefts == {A, B, Blank, Elem, FieldOfElem, FieldOf, K, Undefined, N("w"), Of("Paren", <<A>>), N("s"), N("i"), N("f"), Receive}
Rights == {A, B, One, Text, Elem, Receive, Two, No, Undefined, N("nil"), N("int"), UsesX, N("w"), Captured, Of("Paren", <<Two>>)}
FewLefts == {A, Blank, Elem, N("s"), Undefined, N("i"), N("f")}
FewRights == {B, One, Text, Receive, Elem, Two, Undefined, UsesX}
News == {At(A, 1), Blank, At(N("x"), 1), B, K, Elem, At(N("y"), 1)}

Seqs(S0, n) == [1 .. n -> S0]
Stmts(k, tok, typ, lhs, rhs, clauses) ==
    [k : {k}, tok : tok, typ : typ, lhs : lhs, rhs : rhs, clauses : clauses]
Plain(k, tok, lhs, rhs) == Stmts(k, tok, {"none"}, lhs, rhs, {<<>>})

Names == {At(N("x"), 1), At(B, 1), At(A, 1), Blank}
Simple ==
    {Plain("Assign", {"="}, Seqs(Lefts, 1), Seqs(Rights, 1)),
     Plain("Assign", {"="}, Seqs(FewLefts, 2), Seqs(Rights, 1) \cup Seqs(FewRights, 2)),
     Plain("Assign", {"="}, Seqs({A, Blank, Elem}, 1) \cup Seqs({A, Blank, Elem}, 3), Seqs({B, Undefined, Two, UsesX}, 2)),
     Plain("Assign", {":="}, Seqs(News, 1) \cup Seqs(News, 2), Seqs(Rights, 1)),
     Plain("Assign", {":="}, Seqs({At(A, 1), At(N("x"), 1), B, Blank}, 2) \cup Seqs({At(N("x"), 1), B}, 3), Seqs(FewRights, 2)),
     Plain("Assign", {"op="}, Seqs(Lefts, 1), Seqs({A, One, Text, N("s"), Undefined, Captured, Two}, 1)),
     Plain("Assign", {"op="}, Seqs({A, B}, 2), Seqs({A, B}, 1)),
     Plain("IncDec", {""}, Seqs(Lefts, 1), {<<>>}),
     Plain("Send", {""}, {<<>>}, {<<c, v>> : c \in {N("ch"), A, Undefined}, v \in FewRights}),
     Plain("Expr", {""}, {<<>>}, Seqs(Rights \cup {Of("Paren", <<Receive>>), UsesB}, 1)),
     Stmts("Var", {""}, {"none", "int", "any"}, Seqs(Names, 1) \cup Seqs(Names, 2),
           {<<>>} \cup Seqs(Rights, 1) \cup Seqs({One, B, Text, UsesX}, 2), {<<>>}),
     Stmts("Var", {""}, {"none", "string"}, Seqs({At(N("x"), 1), At(N("y"), 1)}, 2), Seqs({A, Text, Undefined}, 3), {<<>>}),
     Stmts("Var", {""}, {"none"}, {<<At(N("x"), 1), At(N("y"), 1), At(N("z"), 1)>>}, Seqs({A, Text, Undefined}, 2), {<<>>})}
Returns == {Plain("Return", {""}, {<<>>}, {<<>>} \cup Seqs(Rights, 1) \cup Seqs(FewRights \cup {N("s")}, 2))}

Few == {Assign(<<A>>, <<B>>), Define(<<At(N("x"), 2)>>, <<A>>), Do(Show(N("x"))), Do(UsesX), Do(UsesB), Assign(<<N("x")>>, <<One>>),
        Define(<<At(N("x"), 2), Blank>>, <<N("x"), Undefined>>), S("IncDec", "", <<N("x")>>, <<>>)}
Bodies == {<<>>} \cup Seqs(Few, 1)
Clauses(list, comm, body) == [list : list, comm : comm, body : body]
Plains(body) == Clauses({<<>>}, {<<>>}, body)
Inits == Plains({<<>>} \cup {<<Define(<<At(N("x"), 1)>>, <<e>>)>> : e \in {B, UsesX, Undefined}} \cup {<<Assign(<<A>>, <<B>>)>>})
Conds == {N("true"), A, Of("Paren", <<Undefined>>)}
Tuples2(X, Y) == X \X Y
Comms(n) ==
    Clauses({<<>>}, {<<>>, <<Define(<<At(N("x"), n), At(N("y"), n)>>, <<Receive>>)>>, <<Assign(<<A>>, <<Of("Paren", <<Receive>>)>>)>>,
                     <<Do(Two)>>, <<S("Send", "", <<>>, <<N("ch"), B>>)>>, <<S("IncDec", "", <<A>>, <<>>)>>}, {<<>>, <<Do(Show(N("x")))>>})
Compound ==
    {Stmts("If", {""}, {"none"}, {<<>>}, Seqs({Lit("untyped bool", "true"), A}, 1), (Inits \X Plains(Bodies)) \cup (Inits \X Plains(Bodies) \X Plains({<<>>}))),
     Stmts("For", {""}, {"none"}, {<<>>}, {<<>>, <<A>>}, Inits \X Plains({<<>>, <<Define(<<At(N("y"), 1)>>, <<B>>)>>, <<S("IncDec", "", <<N("x")>>, <<>>)>>}) \X Plains(Bodies)),
     Stmts("Block", {""}, {"none"}, {<<>>}, {<<>>}, Plains(Seqs(Few, 2)) \X Plains({<<>>, <<Define(<<At(B, 3)>>, <<A>>)>>, <<Assign(<<N("x")>>, <<B>>)>>})),
     Stmts("Range", {":="}, {"none"}, Seqs({At(N("x"), 1), Blank, At(A, 1), Elem}, 1) \cup Seqs({At(N("x"), 1), Blank, At(B, 1)}, 2),
           Seqs({A, Text, N("m"), N("ch"), N("g"), N("h"), Undefined, One, Two, UsesX}, 1), Seqs(Plains({<<>>, <<Do(Show(N("x")))>>, <<Do(UsesX)>>}), 1)),
     Stmts("Range", {"="}, {"none"}, {<<>>} \cup Seqs({A, Blank, Elem, N("s"), N("i"), N("f"), K}, 1) \cup Seqs({A, Elem, Undefined, N("s")}, 2),
           Seqs({A, Text, N("t"), N("ch"), N("g"), N("h"), Undefined, One, UsesX}, 1), Seqs(Plains({<<>>, <<Assign(<<A>>, <<B>>)>>}), 1)),
     Stmts("Switch", {""}, {"none"}, {<<>>}, {<<>>, <<A>>, <<N("s")>>, <<N("i")>>, <<N("m")>>, <<N("nil")>>, <<Undefined>>, <<Two>>},
           Seqs(Clauses({<<>>} \cup Seqs({B, One, Text, K, N("nil"), Undefined}, 1), {<<>>}, {<<>>, <<Define(<<At(B, 2)>>, <<One>>)>>}), 2)
           \cup Seqs(Clauses(Seqs({One, Text, B}, 2), {<<>>}, {<<>>}), 1)),
     Stmts("TypeSwitch", {""}, {"none"}, {<<>>, <<At(N("x"), 1)>>, <<Blank>>, <<At(N("i"), 1)>>}, Seqs({N("i"), A, Undefined, Two}, 1),
           {<<>>} \cup Seqs(Clauses({<<>>} \cup Seqs({N("int"), N("nil"), B, Undefined, One, N("string")}, 1) \cup {<<N("int"), N("int")>>, <<N("int"), N("nil")>>}, {<<>>},
                                    {<<>>, <<Do(Show(N("x")))>>, <<S("IncDec", "", <<N("x")>>, <<>>)>>}), 2)),
     Stmts("Select", {""}, {"none"}, {<<>>}, {<<>>},
           Comms(1) \X Comms(2))}

Variables == <<U!Decl("a", 0, "var", "int", ""), U!Decl("s", 0, "var", "string", ""), U!Decl("m", 0, "var", "map", ""),
               U!Decl("t", 0, "var", "structs", ""), U!Decl("p", 0, "var", "struct", ""), U!Decl("ch", 0, "var", "chan", ""),
               U!Decl("i", 0, "var", "any", ""), U!Decl("g", 0, "var", "iter1", ""), U!Decl("h", 0, "var", "iter0", ""),
               U!Decl("f", 0, "var", "float64", ""), U!Decl("x", 0, "var", "int", "")>>
InBlock == <<U!Decl("b", 0, "var", "int", ""), U!Decl("k", 0, "const", "untyped int", "1")>>
Fn(list, results, params) == [list : list, results : results, params : params, vars : {Variables}, inner : {InBlock}]
Shadowing == <<U!Decl("r", 0, "param", "int", ""), U!Decl("q", 0, "param", "string", "")>>
Then == {Do(Show(N("x"))), Do(UsesX), Assign(<<N("x")>>, <<One>>)}

MCFunctions ==
    {Fn(Seqs(stmts, 1), {<<>>}, {<<>>}) : stmts \in Simple \cup Compound}
    \cup {Fn(Seqs(stmts, 1), {<<>>, <<"int">>, <<"int", "string">>}, {<<>>}) : stmts \in Returns}
    \cup {Fn({<<Define(<<At(N("r"), 1)>>, <<One>>), Return(<<>>)>>, <<Block(<<Return(<<>>)>>)>>, <<Block(<<Define(<<At(N("q"), 1)>>, <<One>>), Return(<<>>)>>)>>,
              <<Return(<<Two>>)>>, <<Return(<<One, Text>>)>>, <<Return(<<One>>)>>}, {<<"int", "string">>}, {Shadowing})}
    \cup {Fn({<<st, t>> : st \in stmts, t \in Then}, {<<>>}, {<<>>}) :
              stmts \in {Plain("Assign", {":="}, Seqs({At(A, 1), At(N("x"), 1), B, Blank}, 1) \cup Seqs({At(A, 1), At(N("x"), 1), B, Blank}, 2), Seqs(FewRights, 1) \cup Seqs({B, UsesX, Text}, 2)),
                         Stmts("Var", {""}, {"none", "int"}, Seqs({At(N("x"), 1), At(B, 1)}, 1) \cup Seqs({At(N("x"), 1), Blank}, 2), Seqs(FewRights, 1), {<<>>}),
                         Stmts("If", {""}, {"none"}, {<<>>}, {<<Lit("untyped bool", "true")>>}, Inits \X Plains(Bodies))}}

-----------------------------------------------------------------------------
(***************************************************************************)
(* Calls and assignments of a few generic functions, for Arguments.        *)
(***************************************************************************)

MCNone == [n \in {} |-> 0]
G == INSTANCE Arguments WITH Under <- MCNone, Declared <- MCNone, MethodNames <- MCNone, CoreOf <- MCNone, DepthLimit <- 20

Basic(n) == [k |-> "basic", n |-> n, a |-> <<>>]
integer == Basic("int")
text == Basic("string")
Param(n) == [k |-> "tparam", n |-> n, a |-> <<>>]
FuncOf(params, results) == G!FuncType(G!Sig(<<>>, params, FALSE, results))
Expression(k, typ, sig, targs, results) == [k |-> k, typ |-> typ, sig |-> sig, targs |-> targs, results |-> results]
ValueOf(t) == Expression("Value", t, G!NoSig, <<>>, <<>>)
Constant(kind) == ValueOf([k |-> "untyped", n |-> kind, a |-> <<>>])
Function(sig) == Expression("Func", G!NoType, sig, <<>>, <<>>)
Partly(sig, targs) == Expression("Inst", G!NoType, sig, targs, <<>>)
CallOf(results) == Expression("Call", G!NoType, G!NoSig, <<>>, results)
Bad(k) == Expression(k, G!NoType, G!NoSig, <<>>, <<>>)

Free(n) == [n |-> n, terms |-> <<>>, methods |-> <<>>]
OneOf(n, types) == [n |-> n, terms |-> [i \in DOMAIN types |-> [tilde |-> FALSE, typ |-> types[i]]], methods |-> <<>>]
P == Param("P")
Q == Param("Q")
Id == G!Sig(<<Free("P")>>, <<P>>, FALSE, <<P>>)
Wrap == G!Sig(<<Free("P")>>, <<P>>, FALSE, <<G!SliceOf(P)>>)
Number == G!Sig(<<OneOf("P", <<integer, Basic("float")>>)>>, <<P>>, FALSE, <<P>>)
Conv == G!Sig(<<Free("P"), Free("Q")>>, <<P>>, FALSE, <<Q>>)
Apply == G!Sig(<<Free("P"), Free("Q")>>, <<P, FuncOf(<<P>>, <<Q>>)>>, FALSE, <<Q>>)
Both == G!Sig(<<Free("P"), Free("Q")>>, <<FuncOf(<<P>>, <<Q>>), FuncOf(<<Q>>, <<P>>)>>, FALSE, <<P, Q>>)
All == G!Sig(<<Free("P")>>, <<P, G!SliceOf(P)>>, TRUE, <<>>)
Many == G!Sig(<<>>, <<integer, G!SliceOf(FuncOf(<<integer>>, <<integer>>))>>, TRUE, <<integer>>)
Elems == G!Sig(<<OneOf("P", <<G!SliceOf(Q)>>), Free("Q")>>, <<P, Q>>, FALSE, <<Q>>)
Twice == G!Sig(<<Free("P")>>, <<P, P>>, FALSE, <<P>>)

PlainArgs == {ValueOf(integer), ValueOf(text), ValueOf(G!SliceOf(integer)), ValueOf(FuncOf(<<integer>>, <<text>>)),
          Constant("int"), Constant("float"), Constant("string"), Constant("nil")}
Generics == {Function(Id), Function(Wrap), Function(Conv), Function(Number), Partly(Conv, <<integer>>), Partly(Id, <<text>>)}
Odd == {Partly(Id, <<integer, integer>>), Partly(Id, <<G!NoType>>), Bad("Type"), Bad("Undefined"), CallOf(<<>>), CallOf(<<integer>>),
        CallOf(<<integer, integer>>), CallOf(<<integer, text>>), CallOf(<<integer, FuncOf(<<integer>>, <<integer>>)>>),
        Expression("Index", integer, G!NoSig, <<>>, <<>>)}
Tuples(Es, n) == UNION {[1 .. k -> Es] : k \in 0 .. n}
Calls(funs, args, dots, versions) == [fun : funs, args : args, dots : dots, version : versions, to : {G!NoType}]
Insts(sigs, targs) == {Function(s) : s \in sigs} \cup {Partly(s, t) : s \in {s \in sigs : s.tparams # <<>>}, t \in targs}

MCCalls == {
    Calls(Insts({Id, Number, Conv, Wrap}, {<<integer>>, <<integer, text>>, <<G!NoType>>}), Tuples(PlainArgs \cup Generics \cup Odd, 1), {FALSE}, {20, 21}),
    Calls(Insts({Apply, All, Twice, Elems}, {<<integer>>}), Tuples(PlainArgs \cup Generics \cup Odd, 2), BOOLEAN, {21}),
    Calls(Insts({Both, Apply}, {<<integer>>}), [1 .. 2 -> Generics \cup PlainArgs], {FALSE}, {20, 21}),
    Calls(Insts({All, Many}, {<<integer>>}), Tuples(Generics \cup {ValueOf(integer), Constant("float"), Constant("int"), Constant("nil")}, 3), {FALSE}, {21}),
    Calls({Bad("Undefined"), ValueOf(integer), CallOf(<<>>)}, Tuples(PlainArgs, 1), {FALSE}, {21}),
    [fun : {Function(G!NoSig)}, args : [1 .. 1 -> PlainArgs \cup Generics \cup Odd], dots : {FALSE}, version : {20, 21},
     to : {integer, G!SliceOf(integer), FuncOf(<<integer>>, <<text>>), FuncOf(<<integer>>, <<integer>>), FuncOf(<<text>>, <<G!SliceOf(text)>>)}]}
==============================================================================
