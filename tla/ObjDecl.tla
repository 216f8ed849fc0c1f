------------------------------- MODULE ObjDecl -------------------------------
(***************************************************************************)
(* The declarations of a package: Checker.packageObjects, objDecl with its *)
(* colors and object path, and the delayed bodies of functions             *)
(* (types/decl.go, types/resolver.go, types/check.go).                     *)
(*                                                                         *)
(* A program gives each object a kind and the objects that its declaration *)
(* refers to; what is done with them is left out.  `type` holds the        *)
(* references in the type of a variable or constant, on the right-hand     *)
(* side of a type declaration, or in a signature; `init` those in an       *)
(* initialization expression; `body` those in a function body or in the    *)
(* function literals of an initialization expression.  References may be   *)
(* met in any order.  Programs are well-typed: a constant, variable or     *)
(* function is referred to as a value, a type as a type.                   *)
(*                                                                         *)
(* Objects are numbered in the order of the source.  Alias nodes are       *)
(* enabled.  Methods, type parameters and local declarations are left out. *)
(***************************************************************************)
EXTENDS Integers, Sequences, FiniteSets, FiniteSetsExt, SequencesExt

CONSTANTS
    Programs,   \* sets of programs: [kind, type, init, body, hasInit, lhs] for each
                \* object; lhs is the first variable of its declaration, a, b = f()
    NoDecl      \* check.decl outside initialization expressions and bodies

\* Types, of variables and of functions too, refer to types; those on the right of a type
\* declaration also to constants (array lengths).  Only variables are declared together.
IsProgram(p) ==
    /\ IsFiniteSet(DOMAIN p) /\ DOMAIN p \subseteq Nat /\ NoDecl \notin DOMAIN p
    /\ \A o \in DOMAIN p :
        /\ p[o].kind \in {"type", "alias", "const", "var", "func"}
        /\ p[o].type \cup p[o].init \cup p[o].body \subseteq DOMAIN p
        /\ \A r \in p[o].type : \/ p[r].kind \in {"type", "alias"}
                                \/ p[o].kind \in {"type", "alias"} /\ p[r].kind = "const"
        /\ p[o].kind = "func" => p[o].init = {}
        /\ p[o].kind \in {"const", "var"} /\ ~p[o].hasInit => p[o].init \cup p[o].body = {}
        /\ p[o].lhs \in DOMAIN p /\ p[p[o].lhs] = p[o]
        /\ p[o].lhs = o \/ p[o].kind = "var"

ASSUME ProgramsAssumption == \A family \in Programs : \A p \in family : IsProgram(p)

VARIABLES
    prog,
    todo,       \* packageObjects: the objects still to be declared
    color,      \* white, black, or grey plus the object's index in objPath
    typ,        \* obj.typ: "none", "ok" or "invalid"
    objPath,
    stack,      \* the calls of objDecl: [obj, stage, refs, wait, bad, env]
    decl,       \* check.decl: the declaration that dependencies are added to
    deps,       \* declInfo.deps, for the first object of each declaration
    delayed,    \* check.delayed: the bodies left, [decl, refs]
    cycles,     \* history: the cycles found by validCycle, [path, valid]
    phase       \* "objects", "delayed", then those of InitOrder

declVars == <<prog, todo, color, typ, objPath, stack, decl, deps, delayed, cycles>>

Obj == DOMAIN prog
Kind(o) == prog[o].kind
IsValue(o) == Kind(o) \in {"const", "var"}
IsType(o) == Kind(o) \in {"type", "alias"}

\* Colors; all values from grey on are grey.
white == 0
black == 1
grey == 2
IsGrey(o) == color[o] >= grey

-----------------------------------------------------------------------------
\* packageObjects: types first, aliases next, then the others, each in the order of the source.
Phase(o) == CASE Kind(o) = "type" -> 1 [] Kind(o) = "alias" -> 2 [] OTHER -> 3
Before(o, p) == Phase(o) < Phase(p) \/ (Phase(o) = Phase(p) /\ o < p)

Init ==
    /\ \E family \in Programs : prog \in family
    /\ todo = Obj
    /\ color = [o \in Obj |-> white] /\ typ = [o \in Obj |-> "none"]
    /\ objPath = <<>> /\ stack = <<>> /\ decl = NoDecl
    /\ deps = [o \in Obj |-> {}]
    /\ delayed = <<>> /\ cycles = {} /\ phase = "objects"

Top == Last(stack)
SetTop(f) == [stack EXCEPT ![Len(stack)] = f]

\* Mutant: an alias counts as a type definition.
AnyTypeIsDefinition(path) ==
    LET values == {n \in DOMAIN path : IsValue(path[n])}
        types  == {n \in DOMAIN path : IsType(path[n])}
    IN  values = DOMAIN path \/ (values = {} /\ types # {})

\* validCycle: a cycle of values only is left to initOrder; any other one must
\* be without values and have a type definition.  A definition that has become
\* invalid is one no more: for IsAlias, a basic type makes its name an alias.
ValidCycle(path) ==
    LET values == {n \in DOMAIN path : IsValue(path[n])}
        defs   == {n \in DOMAIN path : Kind(path[n]) = "type" /\ typ[path[n]] = "ok"}
    IN  values = DOMAIN path \/ (values = {} /\ defs # {})

\* Mutant: a cycle is taken to begin at the first call.
WholePath(o) == objPath

\* The objects from o, which is on the path, to the end of it.
CycleOf(o) == SubSeq(objPath, color[o] - grey + 1, Len(objPath))

\* objDecl for an object that is being declared: a cycle.
Grey(o) ==
    LET cycle == CycleOf(o)
        valid == ValidCycle(cycle)
        breaks == Kind(o) # "func" /\ (~valid \/ (IsValue(o) /\ typ[o] = "none"))
    IN  /\ cycles' = cycles \cup {[path |-> cycle, valid |-> valid]}
        /\ typ' = IF breaks THEN [typ EXCEPT ![o] = "invalid"] ELSE typ
        /\ UNCHANGED <<color, objPath, decl>>

\* objDecl for an object without a type: it enters the path and gets the
\* environment of its declaration.  A type has its (incomplete) type at once, a
\* function too, which is black while its signature is checked.
White(o) ==
    /\ objPath' = Append(objPath, o)
    /\ color' = [color EXCEPT ![o] = IF Kind(o) = "func" THEN black ELSE grey + Len(objPath)]
    /\ typ' = IF IsValue(o) THEN typ ELSE [typ EXCEPT ![o] = "ok"]
    /\ decl' = IF IsValue(o) THEN prog[o].lhs ELSE NoDecl
    /\ UNCHANGED cycles

\* The frame of a new call.
Frame(o) ==
    [obj |-> o, stage |-> "type", refs |-> prog[o].type, wait |-> NoDecl, bad |-> FALSE,
     env |-> decl]

\* objDecl(o), on top of the calls st.
ObjDeclOn(st, o) ==
    \/ /\ color[o] = white /\ typ[o] = "none"
       /\ White(o)
       /\ stack' = Append(st, Frame(o))
    \/ /\ color[o] = white /\ typ[o] # "none"
       /\ color' = [color EXCEPT ![o] = black]
       /\ stack' = st
       /\ UNCHANGED <<typ, objPath, decl, cycles>>
    \/ /\ color[o] = black
       /\ stack' = st
       /\ UNCHANGED <<color, typ, objPath, decl, cycles>>
    \/ /\ IsGrey(o)
       /\ Grey(o)
       /\ stack' = st

\* packageObjects goes on to the next object.
NextObject ==
    /\ phase = "objects" /\ stack = <<>>
    /\ \E o \in todo : /\ \A p \in todo \ {o} : Before(o, p)
                      /\ ObjDeclOn(stack, o)
                      /\ todo' = todo \ {o}
    /\ UNCHANGED <<prog, deps, delayed, phase>>

\* ident: the declaration meets a reference.  An object that has a type already
\* is declared (again) only if it is a type, to find cycles.
Ident ==
    /\ stack # <<>> /\ Top.wait = NoDecl
    /\ \E r \in Top.refs :
          LET st == SetTop([Top EXCEPT !.refs = @ \ {r}, !.wait = r]) IN
          IF typ[r] = "none" \/ IsType(r)
          THEN ObjDeclOn(st, r)
          ELSE stack' = st /\ UNCHANGED <<color, typ, objPath, decl, cycles>>
    /\ UNCHANGED <<prog, todo, deps, delayed, phase>>

\* ident goes on when the object has a type: addDeclDep.
IdentReturns ==
    /\ stack # <<>> /\ Top.wait # NoDecl
    /\ LET r == Top.wait IN
       /\ deps' = IF decl = NoDecl \/ IsType(r) THEN deps
                  ELSE [deps EXCEPT ![decl] = @ \cup {r}]
       /\ stack' = SetTop([Top EXCEPT !.wait = NoDecl, !.bad = @ \/ typ[r] = "invalid"])
    /\ UNCHANGED <<prog, todo, color, typ, objPath, decl, delayed, cycles, phase>>

StageDone(stage) ==
    stack # <<>> /\ Top.stage = stage /\ Top.wait = NoDecl /\ Top.refs = {}

Siblings(o) == {p \in Obj : prog[p].lhs = prog[o].lhs}

\* Mutant: the body of a function literal is checked for no declaration.
LaterNoDecl(bodyDecl, refs) ==
    delayed' = Append(delayed, [decl |-> NoDecl, refs |-> refs])

\* later: the body is checked with the declaration it belongs to.
Later(bodyDecl, refs) ==
    delayed' = Append(delayed, [decl |-> bodyDecl, refs |-> refs])

\* constDecl, varDecl: the type is known, the initialization expression is next.
\* Without one, a variable needs nothing more; and a constant with an invalid
\* type gives up.
TypeDone ==
    /\ StageDone("type") /\ IsValue(Top.obj)
    /\ LET o == Top.obj
           p == prog[o]
           known == p.type # {} \/ ~p.hasInit
           go == p.hasInit /\ ~(Kind(o) = "const" /\ Top.bad)
       IN /\ typ' = IF known
                    THEN [q \in Obj |-> IF q = o \/ (go /\ q \in Siblings(o))
                                        THEN IF Top.bad THEN "invalid" ELSE "ok"
                                        ELSE typ[q]]
                    ELSE typ
          /\ stack' = SetTop([Top EXCEPT !.stage = IF go THEN "init" ELSE "end",
                                         !.refs = IF go THEN p.init ELSE {},
                                         !.bad = FALSE])
          /\ IF go /\ p.body # {} THEN Later(decl, p.body) ELSE UNCHANGED delayed
    /\ UNCHANGED <<prog, todo, color, objPath, decl, deps, cycles, phase>>

\* initConst, initVar, initVars: the object, and those declared with it, get the
\* type of the expression if they have none.
InitDone ==
    /\ StageDone("init")
    /\ typ' = [q \in Obj |-> IF q \in Siblings(Top.obj) /\ typ[q] = "none"
                             THEN IF Top.bad THEN "invalid" ELSE "ok"
                             ELSE typ[q]]
    /\ stack' = SetTop([Top EXCEPT !.stage = "end"])
    /\ UNCHANGED <<prog, todo, color, objPath, decl, deps, delayed, cycles, phase>>

\* typeDecl, funcDecl: a body is left for later.
SignatureDone ==
    /\ StageDone("type") /\ ~IsValue(Top.obj)
    /\ stack' = SetTop([Top EXCEPT !.stage = "end"])
    /\ IF Kind(Top.obj) = "func" THEN Later(Top.obj, prog[Top.obj].body)
                                 ELSE UNCHANGED delayed
    /\ UNCHANGED <<prog, todo, color, typ, objPath, decl, deps, cycles, phase>>

\* Mutant: the environment of the caller is not restored.
ReturnKeepsDecl ==
    /\ StageDone("end")
    /\ stack' = Front(stack)
    /\ objPath' = Front(objPath)
    /\ color' = [color EXCEPT ![Last(objPath)] = black]
    /\ UNCHANGED <<prog, todo, typ, decl, deps, delayed, cycles, phase>>

\* Mutant: the object stays on the path.
ReturnKeepsPath ==
    /\ StageDone("end")
    /\ stack' = Front(stack)
    /\ color' = [color EXCEPT ![Last(objPath)] = black]
    /\ decl' = Top.env
    /\ UNCHANGED <<prog, todo, typ, objPath, deps, delayed, cycles, phase>>

\* The deferred functions of objDecl.
Return ==
    /\ StageDone("end")
    /\ stack' = Front(stack)
    /\ objPath' = Front(objPath)
    /\ color' = [color EXCEPT ![Last(objPath)] = black]
    /\ decl' = Top.env
    /\ UNCHANGED <<prog, todo, typ, deps, delayed, cycles, phase>>

StartDelayed ==
    /\ phase = "objects" /\ stack = <<>> /\ todo = {}
    /\ phase' = "delayed"
    /\ UNCHANGED declVars

\* processDelayed: funcBody in the environment of its declaration.  All objects
\* of the package have been declared: a body only adds dependencies.
FuncBody ==
    /\ phase = "delayed" /\ delayed # <<>>
    /\ LET a == Head(delayed) IN
       deps' = IF a.decl = NoDecl THEN deps
               ELSE [deps EXCEPT ![a.decl] = @ \cup {r \in a.refs : ~IsType(r)}]
    /\ delayed' = Tail(delayed)
    /\ UNCHANGED <<prog, todo, color, typ, objPath, stack, decl, cycles, phase>>

DeclNext ==
    \/ NextObject \/ Ident \/ IdentReturns \/ TypeDone \/ InitDone \/ SignatureDone
    \/ Return \/ StartDelayed \/ FuncBody

-----------------------------------------------------------------------------
(* Properties of the declarations.                                         *)

DeclTypeOK ==
    /\ color \in [Obj -> 0 .. grey + Cardinality(Obj)]
    /\ typ \in [Obj -> {"none", "ok", "invalid"}]
    /\ objPath \in Seq(Obj)
    /\ \A n \in DOMAIN stack : /\ stack[n].obj \in Obj
                               /\ stack[n].stage \in {"type", "init", "end"}
                               /\ {stack[n].wait, stack[n].env} \subseteq Obj \cup {NoDecl}
    /\ decl \in Obj \cup {NoDecl}
    /\ deps \in [Obj -> SUBSET Obj]
    /\ \A n \in DOMAIN delayed : delayed[n].decl \in Obj

\* "When objects turn grey, they are pushed on the object path; they are popped
\* again when they turn black.  The color value of a grey object indicates the
\* index of that object in the object path": the path is the list of the calls,
\* the colors are its inverse, black and grey objects of objDecl's assertions
\* have types, and a new call finds an object without one.
ColorsArePath ==
    /\ objPath = [n \in DOMAIN stack |-> stack[n].obj]
    /\ IsInjective(objPath)
    /\ \A o \in Obj : IsGrey(o) => objPath[color[o] - grey + 1] = o
    /\ \A o \in Range(objPath) : IsGrey(o) \/ Kind(o) = "func"
    /\ \A o \in Obj : color[o] = black => typ[o] # "none"
    /\ \A o \in Obj : IsType(o) /\ color[o] = white => typ[o] = "none"

\* The references of a declaration, its bodies included, that are dependencies.
Refs(o) ==
    {r \in (IF IsType(o) THEN {} ELSE prog[o].init \cup prog[o].body) : ~IsType(r)}

\* Each declaration ends with the dependencies that are in its own text, those
\* of its function literals included, and with no others: whatever was declared
\* in the middle of it.  (A constant that gave up has fewer.)
DepsAreRefs ==
    phase \notin {"objects", "delayed"} =>
        \A o \in Obj : /\ deps[o] \subseteq Refs(o)
                       /\ prog[o].lhs = o /\ typ[o] # "invalid" => deps[o] = Refs(o)

\* o refers to r in its declaration.
RefersTo(o, r) ==
    r \in prog[o].type \cup (IF IsValue(o) THEN prog[o].init ELSE {})

\* Every cycle that is found is one of references of the source; and one that is
\* reported has values and other objects, or no type definition but those of
\* another reported cycle.
ReportedCyclesExist ==
    \A c \in cycles :
        /\ \A n \in DOMAIN c.path :
              LET next == IF n = Len(c.path) THEN 1 ELSE n + 1
              IN  RefersTo(c.path[n], c.path[next])
        /\ ~c.valid => /\ \E n \in DOMAIN c.path : ~IsValue(c.path[n])
                       /\ \/ \E n \in DOMAIN c.path : IsValue(c.path[n])
                          \/ \A n \in DOMAIN c.path : Kind(c.path[n]) = "type" =>
                                \E d \in cycles \ {c} : ~d.valid /\ c.path[n] \in Range(d.path)

Aliases == {o \in Obj : Kind(o) = "alias"}

\* From a, the references in types lead to b.
TypeLeads(a, b) ==
    \A S \in SUBSET Obj : a \in S /\ (\A o \in S : prog[o].type \subseteq S) => b \in S

\* The aliases that are on no cycle with a type definition.
LoneAliases ==
    {a \in Aliases : \A o \in Obj : Kind(o) = "type" => ~ (TypeLeads(a, o) /\ TypeLeads(o, a))}

\* "If there is no type definition, we have a sequence of alias type names which
\* will expand ad infinitum": such a sequence is reported, in any order of the
\* declarations; unless one of the aliases is on another cycle as well, with a
\* type definition: then the sequence may have been visited as a part of a longer,
\* valid cycle.
AliasCyclesReported ==
    phase \notin {"objects", "delayed"} /\ (\A c \in cycles : c.valid) =>
        \A S \in SUBSET LoneAliases :
            S # {} => \E o \in S : \A r \in S : ~ RefersTo(o, r)
==============================================================================
