------------------------ MODULE MCTypesCases ------------------------
(***************************************************************************)
(* Inputs for the algorithms of the run Types: LookUp, Sizes, Infer,       *)
(* TgoStmt.                                                                *)
(***************************************************************************)
EXTENDS Integers, Sequences, FiniteSets

-----------------------------------------------------------------------------
None == "none"

Method(n, p, s) == [name |-> n, ptr |-> p, sig |-> s]
Field(n) == [name |-> n, embedded |-> FALSE, typ |-> None, ptr |-> FALSE]
Embeds(t, p) == [name |-> t, embedded |-> TRUE, typ |-> t, ptr |-> p]
Decl(k, b, ms, fs) == [kind |-> k, base |-> b, methods |-> ms, fields |-> fs]

\* What a struct type declares itself: nothing, a field, or methods.
Own(d) == CASE d = "field" -> [methods |-> <<>>, fields |-> <<Field("m")>>]
            [] d = "val" -> [methods |-> <<Method("m", FALSE, 1)>>, fields |-> <<>>]
            [] d = "ptr" -> [methods |-> <<Method("m", TRUE, 1)>>, fields |-> <<>>]
            [] d = "both" -> [methods |-> <<Method("M", FALSE, 1), Method("m", FALSE, 2)>>, fields |-> <<>>]
            [] OTHER -> [methods |-> <<>>, fields |-> <<>>]
Owns == {"nothing", "field", "val", "ptr", "both"}

StructOf(d, es) == Decl("struct", None, Own(d).methods, Own(d).fields \o es)
Alias(es) == Decl("alias", None, <<>>, es)
Interfaces == {Decl("interface", None, ms, <<>>) :
    ms \in {<<Method("m", FALSE, 1)>>, <<Method("M", FALSE, 1), Method("m", FALSE, 1)>>}}

\* Lists of up to two embedded fields of the types ts; the names differ.
Lists(ts) == {<<>>} \cup {<<Embeds(t, p)>> : t \in ts, p \in BOOLEAN}
             \cup {<<Embeds(t, p), Embeds(u, FALSE)>> : t \in ts, u \in ts, p \in BOOLEAN}
Distinct(s) == \A i, j \in DOMAIN s : i # j => s[i].typ # s[j].typ
Embeddings(ts) == {s \in Lists(ts) : Distinct(s)}

\* An interface is not embedded by pointer.
Legal(p) == \A t \in DOMAIN p : \A i \in DOMAIN p[t].fields :
    LET f == p[t].fields[i] IN f.embedded => ~(f.ptr /\ p[f.typ].kind = "interface")

Program(a, b, c, d) == [A |-> a, B |-> b, C |-> c, D |-> d]

\* A embeds B and C, which embed D and each other; D has the members.
Bs == {StructOf(o, s) : o \in {"nothing", "ptr"}, s \in Embeddings({"A", "D"})}
      \cup {Alias(s) : s \in Embeddings({"D"})}
Cs == {StructOf("field", s) : s \in {<<Embeds("B", FALSE)>>, <<Embeds("D", TRUE)>>, <<>>}}
      \cup {Alias(s) : s \in Embeddings({"D"})}
Ds == {StructOf(o, <<>>) : o \in Owns} \cup Interfaces
As == {<<Embeds("B", p)>> : p \in BOOLEAN}
      \cup {<<Embeds("B", FALSE), Embeds(t, p)>> : t \in {"C", "D"}, p \in BOOLEAN}
MCHierarchies ==
    {{p \in {Program(StructOf(own, a), b, c, d) : b \in Bs, c \in Cs, d \in Ds} : Legal(p)} :
        a \in As, own \in {"nothing", "val"}}
    \cup {{Program(StructOf("val", <<Embeds("D", p)>>), Decl("pointer", "A", <<>>, <<>>),
                   Alias(<<Embeds("A", FALSE)>>), d) : d \in Ds, p \in {FALSE}}}


-----------------------------------------------------------------------------
Z == INSTANCE Sizes WITH MaxInt <- 127, Layouts <- {}, Structs <- {}, sizes <- 0, typ <- 0, returned <- 0

MCLayouts == [compiler : {"gc"}, word : {4}, align : {4, 8}] \cup [compiler : {"gc"}, word : {8}, align : {8}]
   \cup [compiler : {"gccgo"}, word : {4}, align : {2, 4, 8}] \cup [compiler : {"gccgo"}, word : {8}, align : {8}]
Basics == {Z!Basic(1, 1), Z!Basic(2, 2), Z!Basic(8, 8), Z!Basic(16, 8)}
Lens == {-1, 0, 1, 3, 64, 127}
Simple == Basics \cup {Z!Word, Z!Str, Z!Slice, Z!Interface, Z!Align64}
Arrays == {Z!Array(n, e) : n \in Lens, e \in Basics \cup {Z!Slice}}
S2 == {Z!Struct(<<a, b>>) : a \in {Z!Basic(1, 1), Z!Basic(2, 2), Z!Array(64, Z!Basic(1, 1)), Z!Array(0, Z!Basic(8, 8))}, b \in Simple \cup Arrays}
MCStructs == {{Z!Struct(<<t>>) : t \in Simple \cup Arrays \cup S2}}
    \cup {{Z!Struct(<<t, u>>) : t \in Simple \cup Arrays} : u \in Simple \cup Arrays}
    \cup {{Z!Struct(<<t, Z!Array(n, s)>>) : s \in S2} : t \in {Z!Basic(1, 1), Z!Basic(8, 8)}, n \in {1, 2, 5}}
    \cup {{Z!Struct(<<t, u, v>>) : t \in Basics, u \in Simple \cup Arrays} : v \in {Z!Basic(1,1), Z!Str, Z!Array(0, Z!Basic(8, 8)), Z!Array(64, Z!Basic(1, 1)), Z!Array(127, Z!Basic(1,1))}}

-----------------------------------------------------------------------------
(* Calls of generic functions: types that must be identical, types that     *)
(* match inexactly, constraints, and untyped arguments.                     *)

Type(k, n, a) == [k |-> k, n |-> n, a |-> a]
NoType == Type("none", "none", <<>>)
TP(n) == Type("tparam", n, <<>>)
P == TP("P")
Q == TP("Q")
A == TP("A")
B == TP("B")
IntType == Type("basic", "int", <<>>)
Str == Type("basic", "string", <<>>)
Slice(t) == Type("lit", "slice", <<t>>)
Func(ts) == Type("lit", "func", ts)
MapOf(s, t) == Type("lit", "map", <<s, t>>)
Chan(d, t) == Type("chan", d, <<t>>)
Declare(n) == Type("named", n, <<>>)
G(t) == Type("named", "G", <<t>>)
Iface(n, sigs) == Type("iface", n, sigs)
Untyped(k) == Type("untyped", k, <<>>)

Sig == Func(<<IntType>>)
MCUnder == [n \in {"N", "E", "D", "G", "I", "M"} |->
    CASE n = "N" -> Slice(IntType) [] n = "E" -> IntType [] n = "D" -> Chan("send", IntType)
      [] n = "G" -> Slice(TP("Self")) [] n = "I" -> Iface("m", <<Sig>>) [] n = "M" -> IntType]
MCDeclared == [n \in DOMAIN MCUnder |-> CASE n = "M" -> {[name |-> "m", sig |-> Sig]}
    [] n = "G" -> {[name |-> "m", sig |-> Func(<<TP("Self")>>)]} [] OTHER -> {}]
MCMethodNames == [n \in {"", "m", "mn"} |-> CASE n = "" -> <<>> [] n = "m" -> <<"m">> [] n = "mn" -> <<"m", "n">>]
MCCoreOf == [n \in {"X"} |-> Slice(IntType)]

Any(n) == [n |-> n, terms |-> <<>>, methods |-> <<>>]
Term(tilde, t) == [tilde |-> tilde, typ |-> t]
Core(n, terms) == [n |-> n, terms |-> terms, methods |-> <<>>]
Has(n, sig) == [n |-> n, terms |-> <<>>, methods |-> <<[name |-> "m", sig |-> sig]>>]
Names(tps) == {tps[i].n : i \in DOMAIN tps}
Call(tps, params, args) ==
    [tparams |-> tps, targs |-> [p \in Names(tps) |-> NoType], params |-> params, args |-> args]
Given(c, t) == [c EXCEPT !.targs["P"] = t]

PQ == <<Any("P"), Any("Q")>>
PQA == <<Any("P"), Any("Q"), Any("A")>>
PQAB == <<Any("P"), Any("Q"), Any("A"), Any("B")>>

\* Types that must be identical.
Pars == {P, Q, Slice(P), MapOf(P, Q), Func(<<Q, P>>)}
Args == {IntType, Slice(IntType), Slice(Str), MapOf(IntType, Str), Func(<<IntType, Slice(IntType)>>), Slice(Slice(IntType))}
Generic == {Func(<<A, A>>), Func(<<A, IntType>>), Func(<<A, Slice(A)>>), Func(<<Slice(A), A>>)}
Exact == {{Call(PQ, <<p, q>>, <<s, t>>) : s, t \in Args} : p, q \in Pars}
    \cup {{Call(PQA, <<Func(<<Q, P>>), q>>, <<s, t>>) : s \in Generic, t \in Args} : q \in Pars}
    \cup {{Given(Call(PQ, <<p, q>>, <<s, t>>), IntType) : p, q \in Pars} : s, t \in {IntType, Slice(IntType), MapOf(IntType, Str)}}
    \cup {{Call(PQ, <<MapOf(p, q), Func(<<r, s>>)>>, <<MapOf(t, IntType), Func(<<IntType, v>>)>>) : p, q, r, s \in {P, Q}} : t, v \in {IntType, Str}}

\* Type parameters of two generic functions among each other.
Two == {Func(<<A, B>>), Func(<<B, A>>), Func(<<A, A>>), Func(<<Slice(A), B>>), Func(<<Slice(B), A>>), Func(<<A, IntType>>)}
Joined == {{Call(PQAB, <<Func(<<P, Q>>), Func(<<Q, P>>), r>>, <<s, t, IntType>>) : s, t \in Two} : r \in {P, Q}}

\* Types that match inexactly.
Inexact == {IntType, Declare("E"), Slice(IntType), Declare("N"), G(IntType), Chan("", IntType), Chan("send", IntType), Chan("recv", IntType),
            Declare("D"), Declare("I"), Iface("m", <<Sig>>), Iface("", <<>>), Iface("mn", <<Sig, Sig>>), Declare("M"), TP("X")}
Loose == {{Call(<<Any("P")>>, <<P, P, P>>, <<s, t, v>>) : t, v \in Inexact} : s \in Inexact}
    \cup {{Call(<<Any("P")>>, <<p, q>>, <<w, t>>) : w \in {Slice(t) : t \in Inexact}, t \in Inexact} :
             p \in {Slice(P), P}, q \in {P, Slice(P), G(P)}}

\* Constraints.
Constraints(t) == {Core("P", <<Term(FALSE, t)>>), Core("P", <<Term(TRUE, t)>>),
                   Core("P", <<Term(TRUE, t), Term(FALSE, Declare("N"))>>), Has("P", Func(<<Q>>)), Any("P")}
Constrained ==
    {{Call(<<c, d>>, <<p>>, <<t>>) : p \in {P, Q, Slice(Q)}, t \in {IntType, Slice(IntType), Declare("N"), Declare("M"), G(Str), Declare("I")}} :
        c \in Constraints(Slice(Q)) \cup Constraints(Slice(IntType)),
        d \in {Any("Q"), Core("Q", <<Term(FALSE, IntType)>>), Core("Q", <<Term(FALSE, Slice(P))>>)}}

\* Untyped constants.
Constants == {Call(PQA, <<Func(<<P, Q>>), p, q>>, <<f, s, t>>) :
                f \in {Func(<<A, IntType>>), Func(<<A, Slice(A)>>)}, p, q \in {P, Q},
                s, t \in {Untyped("int"), Untyped("float"), Untyped("string"), IntType}}

MCCalls == Exact \cup Joined \cup Loose \cup Constrained \cup {Constants}

-----------------------------------------------------------------------------
(***************************************************************************)
(* All functions of at most 3 statements, and those with a single          *)
(* statement made of 4, of a few kinds.  The kinds of a family are those a *)
(* question is about; the others would only repeat the cases.              *)
(***************************************************************************)

Leaf(ks, l) == {[k |-> k, l |-> l, d |-> 0, b |-> <<>>] : k \in ks}

\* A kind of statement with n blocks, of which block d is the default.
Kind(k, n, d) == [k |-> k, n |-> n, d |-> d]

\* Statements of size n: lists[m + 1] are the lists of size m < n, one the
\* statements of size n - 1.
Sized(n, leaves, kinds, labels, lists, one) ==
    {s \in leaves : n = 1}
    \cup {[k |-> "labeled", l |-> l, d |-> 0, b |-> <<<<s>>>>] : l \in labels, s \in one}
    \cup UNION {{[k |-> c.k, l |-> "", d |-> c.d, b |-> <<x>>] : x \in lists[n]} :
                   c \in {c \in kinds : c.n = 1}}
    \cup UNION {UNION {{[k |-> c.k, l |-> "", d |-> c.d, b |-> <<x, y>>] :
                           x \in lists[m], y \in lists[n + 1 - m]} : m \in 1 .. n} :
                   c \in {c \in kinds : c.n = 2}}

\* The lists of size n from the statements ss[m] of size m and shorter lists.
Listed(n, ss, lists) ==
    UNION {{<<s>> \o x : s \in ss[m], x \in lists[n + 1 - m]} : m \in 1 .. n}

Lists0 == {<<>>}

Family(leaves, kinds, labels) ==
    LET Stmts(n, lists, one) == Sized(n, leaves, kinds, labels, lists, one)
        stmts1 == Stmts(1, <<Lists0>>, {})
        lists1 == Listed(1, <<stmts1>>, <<Lists0>>)
        stmts2 == Stmts(2, <<Lists0, lists1>>, stmts1)
        lists2 == Listed(2, <<stmts1, stmts2>>, <<Lists0, lists1>>)
        stmts3 == Stmts(3, <<Lists0, lists1, lists2>>, stmts2)
        lists3 == Listed(3, <<stmts1, stmts2, stmts3>>, <<Lists0, lists1, lists2>>)
        stmts4 == Stmts(4, <<Lists0, lists1, lists2, lists3>>, stmts3)
    IN  lists1 \cup lists2 \cup lists3 \cup {<<s>> : s \in stmts4}

-----------------------------------------------------------------------------
LabelL == {"L"}
NoLabels == {}

\* Labels, jumps and elements.
JumpLeaves == Leaf({"var", "break"}, "") \cup Leaf({"goto", "break", "continue"}, "L")
JumpKinds == {Kind("for", 1, 0), Kind("elem", 2, 0), Kind("block", 1, 0)}

\* Statements that end a function or look like it.
EndLeaves == Leaf({"break", "return", "panic", "fallthrough"}, "") \cup Leaf({"break"}, "L")
EndKinds == {Kind("for", 1, 0), Kind("if", 2, 0), Kind("switch", 2, 2)}

\* Attributes, texts and tags in each other and in statements.
WriteLeaves == Leaf({"attr", "text", "return", "continue"}, "")
WriteKinds == {Kind("elem", 2, 0), Kind("typeswitch", 1, 0), Kind("forcond", 1, 0)}

\* Void tags, and statements that are not there.
VoidLeaves == Leaf({"attr", "empty", "return"}, "")
VoidKinds == {Kind("tag", 1, 0), Kind("if", 1, 0)}

\* One set per question: the functions of a set are enumerated one by one.
MCPrograms ==
    {Family(JumpLeaves, JumpKinds, LabelL), Family(EndLeaves, EndKinds, LabelL),
     Family(WriteLeaves, WriteKinds, NoLabels), Family(VoidLeaves, VoidKinds, NoLabels)}

-----------------------------------------------------------------------------
\* For the counterexamples.
BreakLeaves == Leaf({"break"}, "L")
EscapeKinds == {Kind("elem", 2, 0), Kind("for", 1, 0)}
EscapePrograms == {Family(BreakLeaves, EscapeKinds, LabelL)}

\* Two labeled or unlabeled loops in a row.
ForLoops == {[k |-> "for", l |-> "", d |-> 0, b |-> <<x>>] : x \in {<<>>} \cup {<<s>> : s \in BreakLeaves}}
LabeledLoops ==
    ForLoops \cup {[k |-> "labeled", l |-> "L", d |-> 0, b |-> <<<<s>>>>] : s \in ForLoops}
LoopPrograms == {{<<s, t>> : s, t \in LabeledLoops}}
=============================================================================
