------------------------------- MODULE TypeSets -------------------------------
(***************************************************************************)
(* The type sets of interfaces: terms and lists of terms                   *)
(* (types/typeterm.go, types/termlist.go), the computation of the type set *)
(* of an interface from what it embeds (types/typeset.go), and the test    *)
(* that one type implements another (types/instantiate.go, predicates.go). *)
(*                                                                         *)
(* Interfaces are declared in an order, each embeds interfaces before it.  *)
(* A type set may be asked for before the declaration of its interface, or *)
(* of one it embeds, has been processed (complete).                        *)
(***************************************************************************)
EXTENDS Integers, Sequences, FiniteSets, Functions

CONSTANTS
    Types,        \* types that are not interfaces
    Under,        \* their underlying types
    Comparable,   \* those that are comparable
    Method,       \* records [name, sig]
    Methods,      \* [type -> the set of its methods]
    MaxTermCount, \* the limit on the terms of a union (100 in the code)
    Programs      \* sequences of interfaces [methods, elems]

VARIABLES
    ifaces,    \* the interfaces of a program
    complete,  \* those whose methods and embedded elements have been collected
    tset,      \* their stored type sets, NoSet if there is none
    calls,     \* the calls of computeInterfaceTypeSet that have not returned
    loose      \* history: those whose set was computed with one of another missing,
               \* or with a union that is reported

vars == <<ifaces, complete, tset, calls, loose>>

Univ == [tilde |-> FALSE, typ |-> "all"]    \* the term of all types
Nil == [tilde |-> FALSE, typ |-> "nil"]     \* the empty term
AllTermlist == <<Univ>>
TopTypeSet == [methods |-> {}, terms |-> AllTermlist, comparable |-> FALSE, errors |-> {}]
\* The nil pointer; in a type set, comparable is set for all types only.
NoSet == [TopTypeSet EXCEPT !.terms = <<>>, !.comparable = TRUE]

\* The underlying type is its own; types are comparable if those are.
TypesOK ==
    /\ {"all", "nil"} \cap Types = {}
    /\ Under \in [Types -> Types]
    /\ \A t \in Types : Under[Under[t]] = Under[t]
    /\ Comparable \subseteq Types
    /\ \A t \in Types : t \in Comparable <=> Under[t] \in Comparable

Operands(i) ==
    [kind : {"iface"}, iface : 1 .. i - 1]
    \cup [kind : {"type"}, tilde : BOOLEAN, typ : Types]
Elements(i) ==
    [kind : {"comparable"}] \cup [kind : {"iface"}, iface : 1 .. i - 1]
    \cup [kind : {"union"}, terms : Seq(Operands(i))]

\* Interfaces embed those before them; Checker.validType sees to that.
IsProgram(p) ==
    /\ DOMAIN p = 1 .. Len(p) /\ Len(p) \in Nat
    /\ \A i \in DOMAIN p : p[i] \in [methods : Seq(Method), elems : Seq(Elements(i))]
ProgramsOK == TypesOK /\ \A p \in Programs : IsProgram(p)

-----------------------------------------------------------------------------
(* Terms: x and y are neither nil nor the universe unless that is tested.    *)

Disjoint(x, y) ==
    (IF y.tilde THEN Under[x.typ] ELSE x.typ) # (IF x.tilde THEN Under[y.typ] ELSE y.typ)

TermUnion(x, y) ==
    CASE x = Nil -> IF y = Nil THEN <<>> ELSE <<y>>
      [] x # Nil /\ y = Nil -> <<x>>
      [] Nil \notin {x, y} /\ Univ \in {x, y} -> AllTermlist
      [] {Nil, Univ} \cap {x, y} = {} /\ Disjoint(x, y) -> <<x, y>>
      [] OTHER -> IF x.tilde \/ ~y.tilde THEN <<x>> ELSE <<y>>

\* Mutant: of T and ~t the wider one is taken.
TermIntersectWide(x, y) ==
    CASE Nil \in {x, y} -> Nil
      [] x = Univ /\ y # Nil -> y
      [] y = Univ /\ x \notin {Nil, Univ} -> x
      [] OTHER -> IF Disjoint(x, y) THEN Nil ELSE IF x.tilde \/ ~y.tilde THEN x ELSE y

TermIntersect(x, y) ==
    CASE Nil \in {x, y} -> Nil
      [] x = Univ /\ y # Nil -> y
      [] y = Univ /\ x \notin {Nil, Univ} -> x
      [] OTHER -> IF Disjoint(x, y) THEN Nil ELSE IF ~x.tilde \/ y.tilde THEN x ELSE y

TermIncludes(x, t) ==
    x # Nil /\ (x = Univ \/ x.typ = (IF x.tilde THEN Under[t] ELSE t))

TermSubset(x, y) ==
    CASE x = Nil -> TRUE
      [] x # Nil /\ y \in {Nil, Univ} -> y = Univ
      [] OTHER -> x # Univ /\ ~Disjoint(x, y) /\ (~x.tilde \/ y.tilde)

(* Lists of terms; an empty term in a list stands for nothing.               *)

IsEmpty(xl) == \A i \in DOMAIN xl : xl[i] = Nil
IsAll(xl) == \E i \in DOMAIN xl : xl[i] = Univ
HasTerms(xl) == ~IsEmpty(xl) /\ ~IsAll(xl)

\* The terms between i and j that are wider than that of i.
Wider(xl, free, i, j) ==
    {k \in free : i < k /\ k < j /\ xl[k] # xl[i] /\ TermUnion(xl[i], xl[k]) = <<xl[k]>>}

\* The term of i, when it has absorbed terms before j: it grows at the first one that is wider.
Grown(xl, free, i, j) ==
    LET wider == Wider(xl, free, i, j)
    IN  IF wider = {} THEN xl[i] ELSE xl[CHOOSE k \in wider : \A l \in wider : k <= l]

\* The terms behind i that it absorbs.
Absorbed(xl, free, i) == {j \in free : i < j /\ Len(TermUnion(Grown(xl, free, i, j), xl[j])) = 1}

\* The terms that are free when those up to i have absorbed others; those used become empty.
Free(xl) ==
    LET free[i \in 0 .. Len(xl)] ==
            IF i = 0 THEN {j \in DOMAIN xl : xl[j] # Nil}
            ELSE IF i \in free[i - 1] THEN free[i - 1] \ Absorbed(xl, free[i - 1], i)
            ELSE free[i - 1]
    IN  free
Norm(xl) ==
    LET free == Free(xl)
    IN  IF IsAll(xl) THEN AllTermlist
        ELSE [i \in DOMAIN xl |-> IF i \in free[i - 1] THEN Grown(xl, free[i - 1], i, Len(xl) + 1) ELSE Nil]

Union(xl, yl) == Norm(xl \o yl)

\* Each term of xl with each of yl.
Pairs(xl, yl) ==
    [k \in 1 .. Len(xl) * Len(yl) |->
        TermIntersect(xl[((k - 1) \div Len(yl)) + 1], yl[((k - 1) % Len(yl)) + 1])]
Intersect(xl, yl) == IF IsEmpty(xl) \/ IsEmpty(yl) THEN <<>> ELSE Norm(Pairs(xl, yl))

Includes(xl, t) == \E i \in DOMAIN xl : TermIncludes(xl[i], t)

SubsetOf(xl, yl) ==
    IF IsEmpty(yl) THEN IsEmpty(xl)
    ELSE \A i \in DOMAIN xl : \E j \in DOMAIN yl : TermSubset(xl[i], yl[j])

-----------------------------------------------------------------------------
(* Type sets.                                                                *)

\* Both terms and the bits for comparable; the latter is dropped into the terms if there
\* are any.
IntersectTermLists(x, terms, comparable) ==
    LET both == Intersect(x.terms, terms)
        comp == x.comparable \/ comparable
        kept == [i \in DOMAIN both |-> IF both[i].typ \in Comparable THEN both[i] ELSE Nil]
    IN  IF comp /\ ~IsAll(both)
        THEN [x EXCEPT !.terms = kept, !.comparable = FALSE]
        ELSE [x EXCEPT !.terms = both, !.comparable = comp]

\* addMethod, for the methods that are declared: of a name the first is kept, others are errors.
OwnMethods(ms) ==
    LET seen == {j \in DOMAIN ms : \E k \in 1 .. j - 1 : ms[k].name = ms[j].name}
    IN  [TopTypeSet EXCEPT !.methods = {ms[j] : j \in DOMAIN ms \ seen},
                           !.errors = {ms[j].name : j \in seen}]

\* addMethod, for those of an embedded interface: just one that differs is an error.
AddMethods(x, ms) ==
    LET Seen(m) == \E o \in x.methods : o.name = m.name
    IN  [x EXCEPT !.methods = @ \cup {m \in ms : ~Seen(m)},
                  !.errors = @ \cup {m.name : m \in {m \in ms : Seen(m) /\ m \notin x.methods}}]

\* What computeInterfaceTypeSet returns for a set that is stored, or not complete.
SetOf(i) == IF tset[i] = NoSet THEN TopTypeSet ELSE tset[i]

-----------------------------------------------------------------------------
(* Uses of type sets; V is a type or an interface, [iface, typ].             *)

IsComparableSet(s) ==
    IF IsAll(s.terms) THEN s.comparable
    ELSE HasTerms(s.terms) /\ \A j \in DOMAIN s.terms : s.terms[j] # Nil => s.terms[j].typ \in Comparable

IsComparableType(V, dynamic) ==
    IF V.iface THEN dynamic \/ IsComparableSet(tset[V.typ]) ELSE V.typ \in Comparable

Implements(V, i, constraint) ==
    LET T == tset[i]
        Vs == tset[V.typ]
        methods == IF V.iface THEN Vs.methods ELSE Methods[V.typ]
        comparable == IsComparableSet(T) => \/ IsComparableType(V, FALSE)
                                            \/ constraint /\ IsComparableType(V, TRUE)
    IN  \/ IsAll(T.terms) /\ ~T.comparable /\ T.methods = {}
        \/ V.iface /\ IsEmpty(Vs.terms)
        \/ /\ ~IsEmpty(T.terms)
           /\ T.methods \subseteq methods
           /\ HasTerms(T.terms) => IF V.iface THEN SubsetOf(Vs.terms, T.terms)
                                              ELSE Includes(T.terms, V.typ)
           /\ comparable

-----------------------------------------------------------------------------
Init ==
    /\ ifaces \in Programs
    /\ complete = {}
    /\ tset = [i \in DOMAIN ifaces |-> NoSet]
    /\ calls = <<>>
    /\ loose = {}

\* The declaration of an interface has been processed.
InterfaceType(i) ==
    /\ calls = <<>>
    /\ i \notin complete
    /\ complete' = complete \cup {i}
    /\ UNCHANGED <<ifaces, tset, calls, loose>>

\* computeInterfaceTypeSet: an empty set is stored, against cycles, until it returns.
Call(i) ==
    /\ i \in complete
    /\ tset[i] = NoSet
    /\ tset' = [tset EXCEPT ![i] = TopTypeSet]
    /\ calls' = Append(calls, [iface |-> i, set |-> OwnMethods(ifaces[i].methods),
                               elem |-> 0, term |-> 0, terms |-> <<>>])
    /\ UNCHANGED <<ifaces, complete, loose>>

\* A use of an interface needs its type set.
TypeSet(i) == calls = <<>> /\ Call(i)

\* The innermost call, its next element, and its next term if that is a union.
Top == calls[Len(calls)]
Elems == ifaces[Top.iface].elems
HasElem == calls # <<>> /\ Top.elem < Len(Elems)
Elem == Elems[Top.elem + 1]
HasTerm == HasElem /\ Elem.kind = "union" /\ Top.term < Len(Elem.terms)
Term == Elem.terms[Top.term + 1]

\* Interface k is what comes next; its type set is computed first.
Comes(k) ==
    \/ HasElem /\ Elem.kind = "iface" /\ Elem.iface = k
    \/ HasTerm /\ Term.kind = "iface" /\ Term.iface = k
Recurse(k) == Comes(k) /\ Call(k)
Ready == \A k \in complete : Comes(k) => tset[k] # NoSet

\* The innermost call goes on as c; an interface k that it used may have been unknown.
GoOn(c) == calls' = [calls EXCEPT ![Len(calls)] = c] /\ UNCHANGED <<ifaces, complete, tset>>
IsLoose(k) == tset[k] = NoSet \/ k \in loose
Loosen(b) == loose' = IF b THEN loose \cup {Top.iface} ELSE loose

\* The element is embedded, s is its type set.
Embed(s) ==
    GoOn([Top EXCEPT !.set = IntersectTermLists(AddMethods(@, s.methods), s.terms, s.comparable),
                     !.elem = @ + 1, !.term = 0, !.terms = <<>>])

EmbedComparable ==
    /\ HasElem /\ Elem.kind = "comparable"
    /\ Embed([TopTypeSet EXCEPT !.comparable = TRUE])
    /\ UNCHANGED loose

EmbedInterface ==
    /\ HasElem /\ Elem.kind = "iface" /\ Ready
    /\ Embed(SetOf(Elem.iface))
    /\ Loosen(IsLoose(Elem.iface))

\* computeUnionTypeSet: the terms of an interface, a type, or those with its underlying type.
TermsOf(t) ==
    CASE t.kind = "iface" -> SetOf(t.iface).terms
      [] t.kind = "type" -> IF t.tilde /\ Under[t.typ] # t.typ THEN <<Nil>>
                            ELSE <<[tilde |-> t.tilde, typ |-> t.typ]>>

\* parseUnion reports interfaces with methods and comparable ones.
IsMisused(k) == tset[k].methods # {} \/ tset[k].comparable

\* The terms so far with those of the next one, and their number.
MoreTerms == Union(Top.terms, TermsOf(Term))
TermCount(xl) == Cardinality({i \in DOMAIN xl : xl[i] # Nil})

UnionTerm ==
    /\ HasTerm /\ Ready
    /\ TermCount(MoreTerms) <= MaxTermCount
    /\ GoOn([Top EXCEPT !.term = @ + 1, !.terms = MoreTerms])
    /\ Loosen(Term.kind = "iface" /\ (IsLoose(Term.iface) \/ IsMisused(Term.iface)))

\* Too many terms: that is reported, and the union ignored.
UnionOverflows ==
    /\ HasTerm /\ Ready
    /\ TermCount(MoreTerms) > MaxTermCount
    /\ GoOn([Top EXCEPT !.elem = @ + 1, !.term = 0, !.terms = <<>>])
    /\ Loosen(TRUE)

EmbedUnion ==
    /\ HasElem /\ Elem.kind = "union" /\ Top.term = Len(Elem.terms)
    /\ Embed([TopTypeSet EXCEPT !.terms = Top.terms])
    /\ UNCHANGED loose

\* The type set is stored.
Return ==
    /\ calls # <<>> /\ Top.elem = Len(Elems)
    /\ tset' = [tset EXCEPT ![Top.iface] = Top.set]
    /\ calls' = SubSeq(calls, 1, Len(calls) - 1)
    /\ UNCHANGED <<ifaces, complete, loose>>

Next ==
    \/ \E i \in DOMAIN ifaces : InterfaceType(i) \/ TypeSet(i) \/ Recurse(i)
    \/ EmbedComparable \/ EmbedInterface
    \/ UnionTerm \/ UnionOverflows \/ EmbedUnion \/ Return

Spec == Init /\ [][Next]_vars

-----------------------------------------------------------------------------
(* Properties                                                                *)

TypesIn(s) == {t \in Types : Includes(s.terms, t) /\ (s.comparable => t \in Comparable)}

\* The language: a union has the types of its terms.
OfTerm(t) ==
    CASE t.kind = "iface" -> TypesIn(tset[t.iface])
      [] t.kind = "type" -> IF t.tilde THEN {u \in Types : Under[u] = t.typ} ELSE {t.typ}
OfElem(e) ==
    CASE e.kind = "comparable" -> Comparable
      [] e.kind = "iface" -> TypesIn(tset[e.iface])
      [] e.kind = "union" -> UNION {OfTerm(e.terms[j]) : j \in DOMAIN e.terms}

\* The interfaces that i embeds, alone or in a union.
Embedded(i) == {e.iface : e \in {e \in Range(ifaces[i].elems) : e.kind = "iface"}}
InUnions(i) ==
    {t.iface : t \in {t \in UNION {Range(e.terms) : e \in {e \in Range(ifaces[i].elems) : e.kind = "union"}} :
                         t.kind = "iface"}}

\* Type sets that have been computed from those of all that is embedded.
Settled == {i \in DOMAIN ifaces : /\ tset[i] # NoSet /\ i \notin loose
                                  /\ \A m \in DOMAIN calls : calls[m].iface # i}

\* All methods of i; of one name, those that are declared twice or differ.
AllMethods(i) == Range(ifaces[i].methods) \cup UNION {tset[k].methods : k \in Embedded(i)}
Clashes(i) ==
    {m.name : m \in {m \in AllMethods(i) : \E o \in AllMethods(i) : o # m /\ o.name = m.name}}
    \cup {ifaces[i].methods[j].name : j \in
              {j \in DOMAIN ifaces[i].methods : \E k \in 1 .. j - 1 :
                  ifaces[i].methods[k].name = ifaces[i].methods[j].name}}

\* The stored type sets solve the equations of the language: the types of an interface are
\* those in all its elements, those of a union are those of its terms.  An interface has
\* one method for each name, and exactly the clashes are reported.  Terms are disjoint, and
\* comparable is dropped into them.
SetsAreExact ==
    \A i \in Settled :
        LET s == tset[i]
        IN  /\ Embedded(i) \cup InUnions(i) \subseteq Settled
            /\ TypesIn(s) = {t \in Types : \A j \in DOMAIN ifaces[i].elems : t \in OfElem(ifaces[i].elems[j])}
            /\ s.methods \subseteq AllMethods(i)
            /\ \A m \in AllMethods(i) : \E o \in s.methods : o.name = m.name
            /\ \A m, o \in s.methods : m.name = o.name => m = o
            /\ s.errors = Clashes(i)
            /\ s.comparable => IsAll(s.terms)
            /\ \A j, k \in DOMAIN s.terms : j # k /\ Nil \notin {s.terms[j], s.terms[k]} =>
                    Univ \notin {s.terms[j], s.terms[k]} /\ Disjoint(s.terms[j], s.terms[k])

\* A type implements an interface just if it has the methods and is in the type set; an
\* interface does, if its methods and all its types are.
ImplementsIsInclusion ==
    \A i \in Settled :
        /\ \A t \in Types : Implements([iface |-> FALSE, typ |-> t], i, FALSE) <=>
                (t \in TypesIn(tset[i]) /\ tset[i].methods \subseteq Methods[t])
        /\ \A j \in Settled : TypesIn(tset[j]) # {} =>
                (Implements([iface |-> TRUE, typ |-> j], i, FALSE) <=>
                    (TypesIn(tset[j]) \subseteq TypesIn(tset[i]) /\ tset[i].methods \subseteq tset[j].methods))
==============================================================================
