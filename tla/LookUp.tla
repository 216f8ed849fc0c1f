-------------------------------- MODULE LookUp --------------------------------
(***************************************************************************)
(* The search for a field or method in a type and in what it embeds, the   *)
(* method set of a type, and the test that a type has the methods of an    *)
(* interface (types/lookup.go, types/methodset.go). The source says of the *)
(* first two that they are extremely subtle and should be kept in sync.    *)
(*                                                                         *)
(* A program is a function from the names of its declared types; the name  *)
(* of a type is also the name of a field that embeds it. A type T that is  *)
(* asked about is a declared type or a pointer to one, [typ, ptr].         *)
(***************************************************************************)
EXTENDS Naturals, Sequences, FiniteSets, SequencesExt

CONSTANTS
    Programs,  \* sets of functions [name of a type -> [kind, base, methods, fields]]
    Selectors  \* the identifiers of fields and methods that are looked for, without types

VARIABLES
    types,     \* the program
    returned   \* have the calls returned? Their results are functions of the program

vars == <<types, returned>>
None == "none"
NoObj == [kind |-> None]
NotFound == [obj |-> NoObj, index |-> <<>>, indirect |-> FALSE]

Kind(t) == types[t].kind
IsNamed(t) == Kind(t) # "alias"

\* Unnamed structs that aliases stand for are identical if their fields are.
Identical(t, u) == t = u \/ (~IsNamed(t) /\ ~IsNamed(u) /\ types[t].fields = types[u].fields)

\* Identifiers are the same, or, if case and package are ignored, look the same: all
\* selectors of these programs do.
SameId(a, b, fold) == a = b \/ (fold /\ {a, b} \subseteq Selectors)

\* The declared methods of t, or those of its interface.
MethodsOf(t) == [i \in DOMAIN types[t].methods |-> [in |-> t, kind |-> "func"] @@ types[t].methods[i]]
FieldsOf(t) == [i \in DOMAIN types[t].fields |-> [in |-> t, kind |-> "var"] @@ types[t].fields[i]]

-----------------------------------------------------------------------------
(* Entries of one depth.                                                     *)

Entry(t, index, indirect, multiples) ==
    [typ |-> t, index |-> index, indirect |-> indirect, multiples |-> multiples]

\* The entry of an embedded field f, the i-th of the struct of e.
Embedded(e, f, i) == Entry(f.typ, Append(e.index, i), e.indirect \/ f.ptr, e.multiples)

\* Mutant: a type that is embedded twice is searched once, as if it were there once.
ConsolidateUnmarked(list) ==
    LET Merge(unique, e) == IF \E i \in DOMAIN unique : unique[i].typ = e.typ
                            THEN unique ELSE Append(unique, e)
    IN  FoldLeft(Merge, <<>>, list)

ConsolidateMultiples(list) ==
    LET Merge(unique, e) ==
            IF \E i \in DOMAIN unique : Identical(unique[i].typ, e.typ)
            THEN [i \in DOMAIN unique |-> IF Identical(unique[i].typ, e.typ)
                                          THEN [unique[i] EXCEPT !.multiples = TRUE]
                                          ELSE unique[i]]
            ELSE Append(unique, e)
    IN  FoldLeft(Merge, <<>>, list)

-----------------------------------------------------------------------------
(* lookupFieldOrMethod                                                       *)

\* The search so far: what was found at this depth, whether it collides, the named types
\* seen, and the types embedded at this depth.
Search(seen) == [found |-> NotFound, clash |-> FALSE, seen |-> seen, next |-> <<>>]

\* A match o, the i-th member of the type of e.
Match(s, e, o, i) ==
    IF s.found.obj # NoObj \/ e.multiples
    THEN [s EXCEPT !.clash = TRUE, !.found = [NotFound EXCEPT !.index = Append(e.index, i)]]
    ELSE [s EXCEPT !.found = [obj |-> o, index |-> Append(e.index, i), indirect |-> e.indirect]]

LookUpFields(s, e, name, fold) ==
    LET fields == FieldsOf(e.typ)
        Visit(r, i) ==
            CASE r.clash -> r
              [] ~r.clash /\ SameId(fields[i].name, name, fold) -> Match(r, e, fields[i], i)
              [] OTHER -> IF r.found.obj = NoObj /\ fields[i].embedded
                          THEN [r EXCEPT !.next = Append(@, Embedded(e, fields[i], i))]
                          ELSE r
    IN  FoldLeft(Visit, s, [i \in DOMAIN fields |-> i])

LookUpEntry(s, e, name, fold) ==
    LET methods == MethodsOf(e.typ)
        same == {i \in DOMAIN methods : SameId(methods[i].name, name, fold)}
        first == CHOOSE i \in same : \A j \in same : i <= j
        s1 == IF IsNamed(e.typ) THEN [s EXCEPT !.seen = @ \cup {e.typ}] ELSE s
    IN  CASE s.clash \/ (IsNamed(e.typ) /\ e.typ \in s.seen) -> s
          [] ~s.clash /\ ~(IsNamed(e.typ) /\ e.typ \in s.seen) /\ same # {} ->
                Match(s1, e, methods[first], first)
          [] OTHER -> LookUpFields(s1, e, name, fold)

RECURSIVE LookUpDepth(_, _, _, _, _)
LookUpDepth(current, seen, addressable, name, fold) ==
    LET Visit(r, e) == LookUpEntry(r, e, name, fold)
        s == FoldLeft(Visit, Search(seen), current)
        obj == s.found.obj
    IN  CASE current = <<>> -> NotFound
          [] current # <<>> /\ s.clash -> s.found
          [] current # <<>> /\ ~s.clash /\ obj # NoObj ->
                IF obj.kind = "func" /\ obj.ptr /\ ~s.found.indirect /\ ~addressable
                THEN [NotFound EXCEPT !.indirect = TRUE]
                ELSE s.found
          [] OTHER -> LookUpDepth(ConsolidateMultiples(s.next), s.seen, addressable, name, fold)

LookUpImpl(T, addressable, name, fold) ==
    IF T.ptr /\ Kind(T.typ) = "interface" THEN NotFound
    ELSE LookUpDepth(<<Entry(T.typ, <<>>, T.ptr, FALSE)>>, {}, addressable, name, fold)

\* Methods are not found through a named pointer type.
LookUpFieldOrMethod(T, addressable, name) ==
    IF ~T.ptr /\ Kind(T.typ) = "pointer"
    THEN LET r == LookUpImpl([typ |-> types[T.typ].base, ptr |-> TRUE], FALSE, name, FALSE)
         IN  IF r.obj # NoObj /\ r.obj.kind = "func" THEN NotFound ELSE r
    ELSE LookUpImpl(T, addressable, name, FALSE)

-----------------------------------------------------------------------------
(* NewMethodSet: a function from names to selections; None for a collision. *)

\* Mutant: the method without a pointer on its path leaves no trace.
AddOneSilently(mset, f, index, indirect, multiples) ==
    CASE ~indirect /\ f.ptr -> mset
      [] OTHER -> (f.name :> IF ~multiples /\ f.name \notin DOMAIN mset
                             THEN [obj |-> f, index |-> index]
                             ELSE [obj |-> NoObj, index |-> <<>>]) @@ mset

AddOne(mset, f, index, indirect, multiples) ==
    (f.name :> IF ~multiples /\ f.name \notin DOMAIN mset /\ (indirect \/ ~f.ptr)
               THEN [obj |-> f, index |-> index]
               ELSE [obj |-> NoObj, index |-> <<>>]) @@ mset

AddAll(mset, e, indirect) ==
    LET methods == MethodsOf(e.typ)
        Visit(ms, i) == AddOne(ms, methods[i], Append(e.index, i), indirect, e.multiples)
    IN  FoldLeft(Visit, mset, [i \in DOMAIN methods |-> i])

\* The methods, the names of fields, and the embedded types of one depth.
CollectEntry(s, e) ==
    LET fields == FieldsOf(e.typ)
        embedded == SelectSeq([i \in DOMAIN fields |-> i], LAMBDA i : fields[i].embedded)
    IN  IF IsNamed(e.typ) /\ e.typ \in s.seen THEN s
        ELSE [seen |-> IF IsNamed(e.typ) THEN s.seen \cup {e.typ} ELSE s.seen,
              mset |-> AddAll(s.mset, e, e.indirect \/ Kind(e.typ) = "interface"),
              fset |-> s.fset \cup {fields[i].name : i \in DOMAIN fields},
              next |-> s.next \o [k \in DOMAIN embedded |->
                                    Embedded(e, fields[embedded[k]], embedded[k])]]

RECURSIVE CollectDepth(_, _, _)
CollectDepth(current, seen, base) ==
    LET s == FoldLeft(CollectEntry, [seen |-> seen, mset |-> <<>>, fset |-> {}, next |-> <<>>],
                      current)
        clash == [obj |-> NoObj, index |-> <<>>]
        found == [n \in DOMAIN s.mset \cup s.fset |-> IF n \in s.fset THEN clash ELSE s.mset[n]]
    IN  IF current = <<>> THEN base
        ELSE CollectDepth(ConsolidateMultiples(s.next), s.seen, base @@ found)

NewMethodSet(T) ==
    LET base == IF (~T.ptr /\ Kind(T.typ) = "pointer") \/ (T.ptr /\ Kind(T.typ) = "interface")
                THEN <<>>
                ELSE CollectDepth(<<Entry(T.typ, <<>>, T.ptr, FALSE)>>, {}, <<>>)
    IN  [n \in {n \in DOMAIN base : base[n].obj # NoObj} |-> base[n]]

-----------------------------------------------------------------------------
(* MissingMethod: the first method of the interface I that V lacks, and why. *)

\* Mutant: the method is searched as for a variable.
WhyMissingInVariable(V, m, static) ==
    LET r == LookUpImpl(V, TRUE, m.name, FALSE)
        own == {i \in DOMAIN types[V.typ].methods : types[V.typ].methods[i].name = m.name}
    IN  IF ~V.ptr /\ Kind(V.typ) = "interface"
        THEN IF own = {} THEN IF static THEN "notFound" ELSE "ok"
             ELSE IF \E i \in own : types[V.typ].methods[i].sig = m.sig THEN "ok" ELSE "wrongSig"
        ELSE IF r.obj = NoObj THEN "notFound"
             ELSE IF r.obj.kind # "func" THEN "field" ELSE IF r.obj.sig # m.sig THEN "wrongSig" ELSE "ok"

WhyMissing(V, m, static) ==
    LET r == LookUpImpl(V, FALSE, m.name, FALSE)
        folded == LookUpImpl(V, FALSE, m.name, TRUE).obj
        own == {i \in DOMAIN types[V.typ].methods : types[V.typ].methods[i].name = m.name}
    IN  IF ~V.ptr /\ Kind(V.typ) = "interface"
        THEN CASE own = {} -> IF static THEN "notFound" ELSE "ok"
               [] OTHER -> IF \E i \in own : types[V.typ].methods[i].sig = m.sig
                           THEN "ok" ELSE "wrongSig"
        ELSE CASE r.obj = NoObj /\ r.index # <<>> -> "ambigSel"
               [] r.obj = NoObj /\ r.index = <<>> /\ r.indirect -> "ptrRecv"
               [] r.obj = NoObj /\ r.index = <<>> /\ ~r.indirect ->
                    IF folded # NoObj /\ folded.kind = "func" THEN "wrongName" ELSE "notFound"
               [] OTHER -> IF r.obj.kind # "func" THEN "field"
                           ELSE IF r.obj.sig # m.sig THEN "wrongSig" ELSE "ok"

MissingMethod(V, I, static) ==
    LET methods == types[I].methods
        bad == {i \in DOMAIN methods : WhyMissing(V, methods[i], static) # "ok"}
        i == CHOOSE i \in bad : \A j \in bad : i <= j
    IN  IF bad = {} THEN [method |-> 0, state |-> "ok"]
        ELSE [method |-> i, state |-> WhyMissing(V, methods[i], static)]

-----------------------------------------------------------------------------
Interfaces == {t \in DOMAIN types : Kind(t) = "interface"}
\* The types that are asked about.
Askable == [typ : DOMAIN types, ptr : BOOLEAN]

Init ==
    /\ \E family \in Programs : types \in family
    /\ returned = FALSE

Next ==
    /\ ~returned
    /\ returned' = TRUE
    /\ UNCHANGED types

Spec == Init /\ [][Next]_vars

-----------------------------------------------------------------------------
(* Properties of a call that returns.                                        *)

\* The members named n at a depth: each path of embedded fields of that length from a type
\* to one that has such a member, with whether there is a pointer on the path.
RECURSIVE Members(_, _, _, _)
Members(t, indirect, n, depth) ==
    IF depth = 0
    THEN {[obj |-> o, indirect |-> indirect, path |-> <<i>>] :
            <<o, i>> \in {<<MethodsOf(t)[i], i>> : i \in DOMAIN types[t].methods}
                         \cup {<<FieldsOf(t)[i], i>> : i \in DOMAIN types[t].fields}}
    ELSE UNION {{[m EXCEPT !.path = <<i>> \o @] :
                    m \in Members(types[t].fields[i].typ, indirect \/ types[t].fields[i].ptr,
                                  n, depth - 1)} :
                i \in {i \in DOMAIN types[t].fields : types[t].fields[i].embedded}}
Named(members, n) == {m \in members : m.obj.name = n}

\* The language: x.n denotes the member at the shallowest depth, if there is just one; a
\* method with a pointer receiver needs a variable or a pointer on the way.
Selected(T, addressable, n) ==
    LET at == [d \in 0 .. Cardinality(DOMAIN types) |-> Named(Members(T.typ, T.ptr, n, d), n)]
        depths == {d \in DOMAIN at : at[d] # {}}
        shallowest == at[CHOOSE d \in depths : \A c \in depths : d <= c]
        m == CHOOSE m \in shallowest : TRUE
    IN  IF depths = {} \/ Cardinality(shallowest) # 1
              \/ (m.obj.kind = "func" /\ m.obj.ptr /\ ~m.indirect /\ ~addressable)
        THEN [obj |-> NoObj, index |-> <<>>]
        ELSE [obj |-> m.obj, index |-> m.path]

\* A search by depth, with types seen before left out and types met twice searched once,
\* finds what the language says, by the same path.
FindsWhatIsSelected ==
    \A T \in {T \in Askable : Kind(T.typ) \notin {"pointer", "interface"}}, n \in Selectors, a \in BOOLEAN :
        LET r == LookUpFieldOrMethod(T, a, n)
            s == Selected(T, a, n)
        IN  /\ r.obj = s.obj
            /\ r.obj # NoObj => r.index = s.index

\* The two searches are in sync: the method set has exactly the methods that are found for
\* a value that is not addressable, by the same paths.
MethodSetInSync ==
    \A T \in Askable :
        LET mset == NewMethodSet(T)
        IN  \A n \in Selectors :
                LET r == LookUpFieldOrMethod(T, FALSE, n)
                IN  /\ n \in DOMAIN mset <=> (r.obj # NoObj /\ r.obj.kind = "func")
                    /\ n \in DOMAIN mset => (mset[n].obj = r.obj /\ mset[n].index = r.index)

\* No method is missing just if the method set has them all, with their signatures; for the
\* dynamic test of an interface, if it has none with another signature.
MissingIsNotInSet ==
    \A V \in Askable :
        LET mset == NewMethodSet(V)
        IN  \A I \in Interfaces, static \in BOOLEAN :
                LET dynamic == ~static /\ ~V.ptr /\ Kind(V.typ) = "interface"
                    wanted == {types[I].methods[i] : i \in DOMAIN types[I].methods}
                IN  MissingMethod(V, I, static).state = "ok" <=>
                        \A m \in wanted : IF m.name \in DOMAIN mset
                                          THEN mset[m.name].obj.sig = m.sig
                                          ELSE dynamic
==============================================================================
