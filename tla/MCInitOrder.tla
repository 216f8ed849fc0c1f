----------------------------- MODULE MCInitOrder -----------------------------
(***************************************************************************)
(* Small packages for InitOrder and ObjDecl, in families.                  *)
(***************************************************************************)
EXTENDS InitOrder

Decl(k, t, i, b) ==
    [kind |-> k, type |-> t, init |-> i, body |-> b, hasInit |-> TRUE, lhs |-> NoDecl]

\* A program of n objects with the declarations D: all objects that are referred
\* to exist, types refer to types and constants, and only values to values.
WellTyped(p) ==
    \A o \in DOMAIN p :
        /\ \A r \in p[o].type : p[r].kind \in (IF p[o].kind \in {"type", "alias"}
                                               THEN {"type", "alias", "const"}
                                               ELSE {"type", "alias"})
        /\ \A r \in p[o].init \cup p[o].body : p[r].kind \in {"const", "var", "func"}

\* Without a declaration in common.
Alone(p) == [o \in DOMAIN p |-> [p[o] EXCEPT !.lhs = o]]

\* For each declaration of the first object, the programs of n objects.
Family(n, D) ==
    {{Alone(p) : p \in {p \in {<<d>> \o q : q \in [1 .. n - 1 -> D]} : WellTyped(p)}} : d \in D}

Subsets(n, k) == UNION {kSubset(j, 1 .. n) : j \in 0 .. k}

\* Types, aliases and constants of three objects, and variables with types.
Declared ==
    Family(3, {Decl(k, t, {}, {}) : k \in {"type", "alias"}, t \in Subsets(3, 2)}
              \cup {Decl("const", {}, i, {}) : i \in Subsets(3, 1)}
              \cup {Decl("var", t, i, {}) : t \in Subsets(3, 1), i \in Subsets(3, 1)})

\* Three variables and functions, and a constant, that refer to each other.
NoInit(p) == [p EXCEPT !.hasInit = FALSE]
Initialized ==
    Family(3, {Decl("var", {}, i, {}) : i \in Subsets(3, 3)}
              \cup {NoInit(Decl("var", {}, {}, {}))}
              \cup {Decl("var", {}, {}, b) : b \in kSubset(1, 1 .. 3)}
              \cup {Decl("func", {}, {}, b) : b \in Subsets(3, 3)}
              \cup {Decl("const", {}, i, {}) : i \in Subsets(3, 1)})

\* Four variables and functions with one reference each.
Chains ==
    Family(4, {Decl("var", {}, i, {}) : i \in Subsets(4, 1)}
              \cup {NoInit(Decl("var", {}, {}, {}))}
              \cup {Decl("func", {}, {}, b) : b \in Subsets(4, 1)})

\* a, b = f(), between two other variables.
Together(p) == [p EXCEPT ![2].lhs = 2, ![3] = [p[2] EXCEPT !.lhs = 2]]
Pairs ==
    {{Together(p) : p \in F} : F \in Family(4, {Decl("var", {}, i, {}) : i \in Subsets(4, 2)})}

\* Two type definitions and two aliases.
Types ==
    {{p \in F : [o \in 1 .. 4 |-> p[o].kind] = <<"type", "alias", "type", "alias">>} :
        F \in Family(4, {Decl("type", t, {}, {}) : t \in Subsets(4, 1)}
                        \cup {Decl("alias", t, {}, {}) : t \in Subsets(4, 2)})}

MCPrograms == Declared \cup Initialized \cup Chains \cup Pairs \cup Types
==============================================================================
