---------------------------- MODULE InitOrderProofs ----------------------------
(***************************************************************************)
(* Proofs about ObjDecl and InitOrder for any programs (IsProgram, which   *)
(* the header of ObjDecl explains).  IInv says why the properties of the   *)
(* declarations hold: the calls of objDecl are a path of references and    *)
(* the environment is that of the last one (StackInv), colors are places   *)
(* on the path (ColorInv), what a call has left behind is either a         *)
(* dependency or in a body that is delayed (DepsInv), and an alias that is *)
(* on no cycle with a type definition (LoneAliases) is black only after    *)
(* the aliases it refers to (AliasInv).  SoundInv says                     *)
(* why the order is right: without functions the graph leads where the     *)
(* dependencies lead (GraphInv), the first node of a cycle to be popped    *)
(* still waits for another one (ErrorInv), without cycles some variable    *)
(* waits for nothing (TakenInv), and the variables taken have the places   *)
(* that the language gives them (PlaceInv).                                *)
(***************************************************************************)
EXTENDS InitOrder, SequenceTheorems, FiniteSetTheorems, WellFoundedInduction, TLAPS

Decls == Obj \cup {NoDecl}
FrameType ==
    [obj : Obj, stage : {"type", "init", "end"}, refs : SUBSET Obj, wait : Decls,
     bad : BOOLEAN, env : Decls]

DelayedType == [decl : Obj, refs : SUBSET Obj]

DeclPhase == {"objects", "delayed"}
OrderPhase == {"graph", "order", "done"}

VarTypes ==
    /\ IsProgram(prog)
    /\ todo \subseteq Obj
    /\ color \in [Obj -> Nat]
    /\ typ \in [Obj -> {"none", "ok", "invalid"}]
    /\ objPath \in Seq(Obj)
    /\ stack \in Seq(FrameType)
    /\ decl \in Decls
    /\ deps \in [Obj -> SUBSET Obj]
    /\ delayed \in Seq(DelayedType)
    /\ phase \in DeclPhase \cup OrderPhase
    /\ phase # "objects" => stack = <<>> /\ todo = {}
    /\ phase \in OrderPhase => delayed = <<>>

\* The declaration that is the environment while o is being declared.
DeclOf(o) == IF IsValue(o) THEN prog[o].lhs ELSE NoDecl

\* The references that are met at a stage of the declaration of o.
StageRefs(o, stage) ==
    CASE stage = "type" -> prog[o].type [] stage = "init" -> prog[o].init [] OTHER -> {}

\* The calls of objDecl: each is for the object that the one below waits for.
StackInv ==
    /\ Len(objPath) = Len(stack)
    /\ \A n \in 1 .. Len(stack) : objPath[n] = stack[n].obj
    /\ \A m, n \in 1 .. Len(stack) : stack[m].obj = stack[n].obj => m = n
    /\ \A n \in 1 .. Len(stack) : n + 1 <= Len(stack) => stack[n].wait = stack[n + 1].obj
    /\ decl = IF stack = <<>> THEN NoDecl ELSE DeclOf(stack[Len(stack)].obj)
    /\ \A n \in 1 .. Len(stack) :
          stack[n].env = IF n = 1 THEN NoDecl ELSE DeclOf(stack[n - 1].obj)

Reported == \E c \in cycles : ~c.valid

FrameInv(n) ==
    LET fr == stack[n] IN
    /\ fr.refs \subseteq StageRefs(fr.obj, fr.stage)
    /\ fr.wait \in StageRefs(fr.obj, fr.stage) \cup {NoDecl}
    /\ fr.stage = "init" => IsValue(fr.obj)
    /\ fr.stage = "type" /\ fr.bad => prog[fr.obj].type # {}
    /\ fr.stage = "type" /\ fr.bad => IsType(fr.obj) \/ Reported
    /\ fr.stage = "end" \/ ~IsValue(fr.obj) => typ[fr.obj] # "none"

Place(o) == color[o] - grey + 1

ColorInv ==
    /\ \A o \in Obj : IsGrey(o) => Place(o) \in 1 .. Len(stack) /\ stack[Place(o)].obj = o
    /\ \A n \in 1 .. Len(stack) : \/ IsGrey(stack[n].obj)
                                  \/ Kind(stack[n].obj) = "func" /\ color[stack[n].obj] = black
    /\ \A o \in Obj : color[o] = black => typ[o] # "none"
    /\ \A o \in Obj : color[o] = white /\ typ[o] # "none" => IsValue(o)
    /\ \A o \in Obj : color[o] = white => o \in todo

\* The references in bodies that have not been checked yet.
Bodies(d, l) == UNION {a.refs : a \in {a \in Range(d) : a.decl = l}}
Pending(l) == Bodies(delayed, l)
NonTypes(S) == {r \in S : ~IsType(r)}

\* The declaration of l is over, but for delayed bodies.
Covered(l) ==
    \/ Refs(l) \subseteq deps[l] \cup Pending(l)
    \/ Kind(l) = "const" /\ typ[l] = "invalid" /\ Reported

Declaring(l) == \E n \in 1 .. Len(stack) : prog[stack[n].obj].lhs = l

Collects(n) ==
    LET fr == stack[n]
        l == prog[fr.obj].lhs
    IN  /\ fr.stage = "init" =>
              /\ NonTypes(prog[l].init) \subseteq deps[l] \cup fr.refs \cup {fr.wait}
              /\ NonTypes(prog[l].body) \subseteq deps[l] \cup Pending(l)
        /\ fr.stage = "end" => Covered(l)

DepsInv ==
    /\ \A o \in Obj : deps[o] \subseteq Refs(o)
    /\ \A a \in Range(delayed) : ~IsType(a.decl) /\ a.refs \subseteq prog[a.decl].body
    /\ \A n \in 1 .. Len(stack) : Collects(n)
    /\ \A o \in Obj : color[o] # white \/ typ[o] # "none" =>
                        Declaring(prog[o].lhs) \/ Covered(prog[o].lhs)

IsCycle(path) ==
    /\ path \in Seq(Obj) /\ path # <<>>
    /\ \A n \in 1 .. Len(path) :
          RefersTo(path[n], path[IF n = Len(path) THEN 1 ELSE n + 1])

\* What is true of an invalid cycle c.
Justified(c) ==
    /\ \E n \in DOMAIN c.path : ~IsValue(c.path[n])
    /\ \/ \E n \in DOMAIN c.path : IsValue(c.path[n])
       \/ \A n \in DOMAIN c.path : Kind(c.path[n]) = "type" =>
             \E d \in cycles \ {c} : ~d.valid /\ c.path[n] \in Range(d.path)

CycleInv ==
    /\ \A c \in cycles : IsCycle(c.path) /\ (~c.valid => Justified(c))
    /\ \A o \in Obj : IsType(o) /\ typ[o] = "invalid" =>
          \E d \in cycles : ~d.valid /\ o \in Range(d.path)

\* S has a cycle of references.
Closed(S) == \A o \in S : \E r \in S : RefersTo(o, r)

\* An alias that the declaration of a has met.
Met(n) == {r \in Aliases : r \in prog[stack[n].obj].type /\ r \notin stack[n].refs}

\* What holds of lone aliases as long as no cycle is reported.
MetAreBlack ==
    \A n \in 1 .. Len(stack) : stack[n].obj \in LoneAliases =>
        \A r \in Met(n) : color[r] = black \/ (n < Len(stack) /\ r = stack[n + 1].obj)
BlackIsClosed ==
    \A o \in LoneAliases, r \in Aliases : color[o] = black /\ RefersTo(o, r) => color[r] = black
BlackIsAcyclic ==
    \A S \in SUBSET LoneAliases : (\A o \in S : color[o] = black) /\ Closed(S) => S = {}

AliasInv == Reported \/ (MetAreBlack /\ BlackIsClosed /\ BlackIsAcyclic)

OrderInv ==
    /\ edges \subseteq Nodes \X Nodes
    /\ funcG \in Seq(Funcs) /\ queue \subseteq Nodes \ Funcs
    /\ ndeps \in [Obj -> Int]
    /\ InitOrderOut \in Seq(Obj) /\ IsInjective(InitOrderOut)
    /\ initErrors \subseteq Nodes
    /\ phase = "graph" => \A e \in edges : \A o \in Funcs : o \in {e[1], e[2]} => o \in Range(funcG)
    /\ phase # "order" => queue = {}
    /\ \A o \in queue : ndeps[o] = Cardinality(Succ(edges, o) \cap queue)

IInv ==
    /\ VarTypes /\ StackInv /\ (\A n \in 1 .. Len(stack) : FrameInv(n)) /\ ColorInv
    /\ DepsInv /\ CycleInv /\ AliasInv /\ OrderInv

-----------------------------------------------------------------------------
(***************************************************************************)
(* What the steps do to the calls, without EXCEPT.                         *)
(***************************************************************************)

\* The fields of an object's declaration.
LEMMA Program ==
    ASSUME IsProgram(prog), NEW o \in Obj
    PROVE  /\ Kind(o) \in {"type", "alias", "const", "var", "func"}
           /\ prog[o].type \subseteq Obj /\ prog[o].init \subseteq Obj /\ prog[o].body \subseteq Obj
           /\ \A r \in prog[o].type : IsType(r) \/ (IsType(o) /\ Kind(r) = "const")
           /\ Kind(o) = "func" => prog[o].init = {}
           /\ IsValue(o) /\ ~prog[o].hasInit => prog[o].init = {} /\ prog[o].body = {}
           /\ prog[o].lhs \in Obj /\ prog[prog[o].lhs] = prog[o]
           /\ prog[o].lhs = o \/ Kind(o) = "var"
           /\ o # NoDecl /\ o \in Nat
  BY DEF IsProgram, Obj, Kind, IsType, IsValue

\* The last call goes on.
Moved(stage, refs, wait, bad) ==
    /\ Len(stack) >= 1 /\ Len(stack') = Len(stack)
    /\ \A n \in 1 .. Len(stack) : stack'[n].obj = stack[n].obj /\ stack'[n].env = stack[n].env
    /\ \A n \in 1 .. Len(stack) : n # Len(stack) => stack'[n] = stack[n]
    /\ stack'[Len(stack)].stage = stage
    /\ stack'[Len(stack)].refs = refs
    /\ stack'[Len(stack)].wait = wait
    /\ stack'[Len(stack)].bad = bad

\* The call of objDecl for o begins.
Pushed(o) ==
    /\ Len(stack') = Len(stack) + 1
    /\ \A n \in 1 .. Len(stack) : /\ stack'[n].obj = stack[n].obj /\ stack'[n].env = stack[n].env
                                  /\ stack'[n].stage = stack[n].stage
                                  /\ stack'[n].bad = stack[n].bad
                                  /\ n # Len(stack) => stack'[n] = stack[n]
                                  /\ n = Len(stack) => /\ stack'[n].refs = stack[n].refs \ {o}
                                                       /\ stack'[n].wait = o
    /\ stack'[Len(stack) + 1] = Frame(o)

\* The last call meets the reference r.
Meets(r) ==
    /\ Len(stack) >= 1
    /\ stack[Len(stack)].wait = NoDecl /\ r \in stack[Len(stack)].refs
Waits(r) ==
    Moved(stack[Len(stack)].stage, stack[Len(stack)].refs \ {r}, r, stack[Len(stack)].bad)

\* A sequence with another last element.
LEMMA SetTopIs ==
    ASSUME stack \in Seq(FrameType), stack # <<>>, NEW fr \in FrameType
    PROVE  /\ SetTop(fr) \in Seq(FrameType) /\ Len(SetTop(fr)) = Len(stack)
           /\ Len(stack) \in Nat /\ Len(stack) >= 1
           /\ stack[Len(stack)] \in FrameType
           /\ \A n \in 1 .. Len(stack) :
                 SetTop(fr)[n] = IF n = Len(stack) THEN fr ELSE stack[n]
<1>1. Len(stack) \in Nat /\ Len(stack) >= 1
  BY EmptySeq
<1>2. Len(stack) \in 1 .. Len(stack)
  BY <1>1
<1> HIDE DEF FrameType
<1>3. stack[Len(stack)] \in FrameType
  BY <1>2, ElementOfSeq
<1>4. /\ [stack EXCEPT ![Len(stack)] = fr] \in Seq(FrameType)
      /\ Len([stack EXCEPT ![Len(stack)] = fr]) = Len(stack)
      /\ \A j \in 1 .. Len(stack) :
            [stack EXCEPT ![Len(stack)] = fr][j] = IF j = Len(stack) THEN fr ELSE stack[j]
  BY <1>2, ExceptSeq
<1> QED
  BY <1>1, <1>3, <1>4 DEF SetTop

\* A step that replaces the last frame moves the last call.
LEMMA SetTopMoves ==
    ASSUME stack \in Seq(FrameType), stack # <<>>, NEW fr \in FrameType, stack' = SetTop(fr),
           fr.obj = stack[Len(stack)].obj, fr.env = stack[Len(stack)].env
    PROVE  stack' \in Seq(FrameType) /\ Moved(fr.stage, fr.refs, fr.wait, fr.bad)
  BY SetTopIs DEF Moved

\* A call on top of some others.
LEMMA Appends ==
    ASSUME NEW st \in Seq(FrameType), NEW fr \in FrameType
    PROVE  /\ Append(st, fr) \in Seq(FrameType) /\ Len(Append(st, fr)) = Len(st) + 1
           /\ \A n \in 1 .. Len(st) : Append(st, fr)[n] = st[n]
           /\ Append(st, fr)[Len(st) + 1] = fr
  BY AppendProperties

\* The frame of a new call.
LEMMA FrameIs ==
    ASSUME VarTypes, NEW o \in Obj
    PROVE  /\ Frame(o) \in FrameType /\ Frame(o).obj = o /\ Frame(o).stage = "type"
           /\ Frame(o).refs = prog[o].type /\ Frame(o).wait = NoDecl /\ Frame(o).bad = FALSE
           /\ Frame(o).env = decl
<1>1. prog[o].type \subseteq Obj
  BY Program DEF VarTypes
<1> QED
  BY <1>1 DEF Frame, FrameType, VarTypes, Decls

-----------------------------------------------------------------------------
(***************************************************************************)
(* The kinds of steps of the declarations.                                 *)
(***************************************************************************)

Rest == UNCHANGED <<prog, deps, delayed, phase, orderVars>>

\* objDecl begins to declare o, for packageObjects or for the last call.
Begins(o) ==
    /\ o \in Obj /\ phase = "objects" /\ color[o] = white /\ typ[o] = "none"
    /\ White(o) /\ Pushed(o) /\ Rest
    /\ \/ stack = <<>> /\ o \in todo /\ todo' = todo \ {o}
       \/ Meets(o) /\ todo' = todo

\* packageObjects finds that o has been declared, or has a type by another declaration.
Passes(o) ==
    /\ o \in todo /\ phase = "objects" /\ stack = <<>> /\ todo' = todo \ {o}
    /\ \/ color[o] = white /\ typ[o] # "none"
       \/ color[o] = black
    /\ color' = [color EXCEPT ![o] = black]
    /\ UNCHANGED <<stack, typ, objPath, decl, cycles>> /\ Rest

\* The last call refers to an object that is not declared again.
Looks(r) ==
    /\ r \in Obj /\ phase = "objects" /\ Meets(r) /\ Waits(r)
    /\ color[r] = black \/ (typ[r] # "none" /\ ~IsType(r))
    /\ UNCHANGED <<todo, color, typ, objPath, decl, cycles>> /\ Rest

\* The last call refers to an object that is being declared.
Cycles(r) ==
    /\ r \in Obj /\ phase = "objects" /\ Meets(r) /\ Waits(r)
    /\ IsGrey(r) /\ Grey(r) /\ UNCHANGED todo /\ Rest

LastCall == stack[Len(stack)]

\* A reference has been met.
Depends ==
    /\ phase = "objects" /\ IdentReturns /\ UNCHANGED orderVars
    /\ Moved(LastCall.stage, LastCall.refs, NoDecl, LastCall.bad \/ typ[LastCall.wait] = "invalid")
    /\ LastCall.wait \in Obj

\* The type of a value is known.
Goes(o) == prog[o].hasInit /\ ~(Kind(o) = "const" /\ LastCall.bad)
TypeKnown(o) == prog[o].type # {} \/ ~prog[o].hasInit
TypeEnds ==
    /\ phase = "objects" /\ TypeDone /\ UNCHANGED orderVars
    /\ LastCall.stage = "type" /\ LastCall.wait = NoDecl /\ LastCall.refs = {}
    /\ IF Goes(LastCall.obj)
       THEN Moved("init", prog[LastCall.obj].init, NoDecl, FALSE)
       ELSE Moved("end", {}, NoDecl, FALSE)

InitEnds ==
    /\ phase = "objects" /\ InitDone /\ UNCHANGED orderVars
    /\ LastCall.stage = "init" /\ LastCall.wait = NoDecl /\ LastCall.refs = {}
    /\ Moved("end", {}, NoDecl, LastCall.bad)

SignatureEnds ==
    /\ phase = "objects" /\ SignatureDone /\ UNCHANGED orderVars
    /\ LastCall.stage = "type" /\ LastCall.wait = NoDecl /\ LastCall.refs = {}
    /\ Moved("end", {}, NoDecl, LastCall.bad)

\* objDecl returns.
Returns ==
    /\ phase = "objects" /\ Return /\ UNCHANGED orderVars
    /\ Len(stack) >= 1 /\ LastCall.stage = "end"
    /\ Len(stack') = Len(stack) - 1
    /\ \A n \in 1 .. Len(stack) - 1 : stack'[n] = stack[n]
    /\ objPath[Len(stack)] = LastCall.obj
    /\ color' = [color EXCEPT ![LastCall.obj] = black]
    /\ decl' = LastCall.env

DeclSteps ==
    \/ \E o \in Obj : Begins(o) \/ Passes(o) \/ Looks(o) \/ Cycles(o)
    \/ Depends \/ TypeEnds \/ InitEnds \/ SignatureEnds \/ Returns
    \/ StartDelayed /\ UNCHANGED orderVars
    \/ FuncBody /\ UNCHANGED orderVars

\* packageObjects.
LEMMA NextObjectIs ==
    ASSUME VarTypes, StackInv, ColorInv, NextObject, UNCHANGED orderVars
    PROVE  stack' \in Seq(FrameType) /\ \E o \in Obj : Begins(o) \/ Passes(o)
<1>1. PICK o \in todo : ObjDeclOn(stack, o) /\ todo' = todo \ {o}
  BY DEF NextObject
<1>2. o \in Obj /\ stack = <<>> /\ Len(stack) = 0 /\ stack \in Seq(FrameType)
  BY DEF NextObject, VarTypes
<1>3. ~IsGrey(o)
  BY <1>2 DEF ColorInv
<1>4. CASE color[o] = white /\ typ[o] = "none"
  <2>1. White(o) /\ stack' = Append(stack, Frame(o))
    BY <1>1, <1>4 DEF ObjDeclOn, white, black, IsGrey, grey
  <2>2. Frame(o) \in FrameType
    BY <1>2, FrameIs
  <2>3. /\ stack' \in Seq(FrameType) /\ Len(stack') = Len(stack) + 1
        /\ stack'[Len(stack) + 1] = Frame(o)
    BY <1>2, <2>1, <2>2, Appends
  <2> QED
    BY <1>1, <1>2, <1>4, <2>1, <2>3 DEF Begins, Pushed, Rest, NextObject
<1>5. CASE ~ (color[o] = white /\ typ[o] = "none")
  <2>1. /\ color[o] = black \/ (color[o] = white /\ typ[o] # "none")
        /\ color' = [color EXCEPT ![o] = black]
        /\ UNCHANGED <<stack, typ, objPath, decl, cycles>>
    BY <1>1, <1>2, <1>3, <1>5 DEF ObjDeclOn, white, black, VarTypes
  <2> QED
    BY <1>1, <1>2, <2>1 DEF Passes, Rest, NextObject
<1> QED
  BY <1>4, <1>5

\* ident.
LEMMA IdentIs ==
    ASSUME VarTypes, StackInv, ColorInv, Ident, UNCHANGED orderVars
    PROVE  stack' \in Seq(FrameType) /\ \E r \in Obj : Begins(r) \/ Looks(r) \/ Cycles(r)
<1> DEFINE w(r) == [Top EXCEPT !.refs = @ \ {r}, !.wait = r]
<1>1. /\ stack \in Seq(FrameType) /\ stack # <<>> /\ phase = "objects" /\ Top = LastCall
      /\ Len(stack) \in Nat /\ Len(stack) >= 1
  BY EmptySeq DEF Ident, VarTypes, Top, Last, LastCall
<1>2. Top \in FrameType /\ Top.wait = NoDecl
  BY <1>1, SetTopIs DEF Ident, LastCall
<1>3. PICK r \in Top.refs :
          IF typ[r] = "none" \/ IsType(r) THEN ObjDeclOn(SetTop(w(r)), r)
          ELSE stack' = SetTop(w(r)) /\ UNCHANGED <<color, typ, objPath, decl, cycles>>
  BY DEF Ident
<1>4. r \in Obj /\ Meets(r)
  BY <1>1, <1>2, <1>3 DEF FrameType, Meets, LastCall
<1>5. PICK fr : fr = w(r) /\ fr = [Top EXCEPT !.refs = @ \ {r}, !.wait = r]
  OBVIOUS
<1>6. /\ fr \in FrameType /\ fr.obj = LastCall.obj /\ fr.env = LastCall.env
      /\ fr.stage = LastCall.stage /\ fr.bad = LastCall.bad
      /\ fr.refs = LastCall.refs \ {r} /\ fr.wait = r
  <2>1. PICK t : t = Top
    OBVIOUS
  <2>2. t \in FrameType /\ fr = [t EXCEPT !.refs = @ \ {r}, !.wait = r] /\ t = LastCall
    BY <1>1, <1>2, <1>5, <2>1
  <2> QED
    BY <1>4, <2>2 DEF FrameType, Decls
<1>7. /\ IF typ[r] = "none" \/ IsType(r) THEN ObjDeclOn(SetTop(fr), r)
         ELSE stack' = SetTop(fr) /\ UNCHANGED <<color, typ, objPath, decl, cycles>>
      /\ UNCHANGED <<prog, todo, deps, delayed, phase>>
  BY <1>3, <1>5 DEF Ident
<1>8. ASSUME stack' = SetTop(fr) PROVE stack' \in Seq(FrameType) /\ Waits(r)
  BY <1>1, <1>6, <1>8, SetTopMoves DEF Waits, LastCall
<1>9. CASE color[r] = white /\ typ[r] = "none"
  <2>1. White(r) /\ stack' = Append(SetTop(fr), Frame(r))
    BY <1>7, <1>9 DEF ObjDeclOn, white, black, IsGrey, grey
  <2>2. Frame(r) \in FrameType
    BY <1>4, FrameIs
  <2>3. /\ SetTop(fr) \in Seq(FrameType) /\ Len(SetTop(fr)) = Len(stack)
        /\ \A n \in 1 .. Len(stack) :
              SetTop(fr)[n] = IF n = Len(stack) THEN fr ELSE stack[n]
    BY <1>1, <1>6, SetTopIs
  <2>4. /\ stack' \in Seq(FrameType) /\ Len(stack') = Len(stack) + 1
        /\ \A n \in 1 .. Len(stack) :
              stack'[n] = IF n = Len(stack) THEN fr ELSE stack[n]
        /\ stack'[Len(stack) + 1] = Frame(r)
    BY <1>1, <2>1, <2>2, <2>3, Appends
  <2>5. Pushed(r)
    BY <1>6, <2>4 DEF Pushed, LastCall
  <2> QED
    BY <1>1, <1>4, <1>7, <1>9, <2>1, <2>4, <2>5 DEF Begins, Rest
<1>10. CASE IsGrey(r) /\ (typ[r] = "none" \/ IsType(r))
  <2>1. Grey(r) /\ stack' = SetTop(fr)
    BY <1>7, <1>10 DEF ObjDeclOn, white, black, IsGrey, grey
  <2> QED
    BY <1>1, <1>4, <1>7, <1>8, <1>10, <2>1 DEF Cycles, Rest
<1>11. CASE ~ (color[r] = white /\ typ[r] = "none") /\ ~ (IsGrey(r) /\ (typ[r] = "none" \/ IsType(r)))
  <2>1. color[r] \in Nat
    BY <1>4 DEF VarTypes
  <2>2. color[r] = white => typ[r] # "none" /\ ~IsType(r)
    BY <1>4, <1>11 DEF ColorInv, IsValue, IsType
  <2>3. color[r] = black => typ[r] # "none"
    BY <1>4 DEF ColorInv
  <2>4. /\ stack' = SetTop(fr) /\ UNCHANGED <<color, typ, objPath, decl, cycles>>
        /\ color[r] = black \/ (typ[r] # "none" /\ ~IsType(r))
    BY <1>7, <1>11, <2>1, <2>2, <2>3 DEF ObjDeclOn, white, black, grey, IsGrey
  <2> QED
    BY <1>1, <1>4, <1>7, <1>8, <2>4 DEF Looks, Rest
<1> QED
  BY <1>9, <1>10, <1>11

\* The last call, when there is one.
LEMMA LastCallIs ==
    ASSUME VarTypes, stack # <<>>
    PROVE  /\ stack \in Seq(FrameType) /\ Len(stack) \in Nat /\ Len(stack) >= 1
           /\ Len(stack) \in 1 .. Len(stack) /\ phase = "objects"
           /\ Top = LastCall /\ LastCall \in FrameType
<1>1. Len(stack) \in Nat /\ Len(stack) >= 1
  BY EmptySeq DEF VarTypes
<1>2. Len(stack) \in 1 .. Len(stack)
  BY <1>1
<1> QED
  BY <1>1, <1>2, ElementOfSeq DEF VarTypes, Top, Last, LastCall

\* The last frame is replaced by one with the same object and environment.
LEMMA Replaces ==
    ASSUME VarTypes, stack # <<>>, NEW fr, fr \in FrameType, stack' = SetTop(fr),
           fr.obj = LastCall.obj, fr.env = LastCall.env
    PROVE  stack' \in Seq(FrameType) /\ Moved(fr.stage, fr.refs, fr.wait, fr.bad)
  BY LastCallIs, SetTopMoves DEF LastCall

\* addDeclDep.
LEMMA DependsIs ==
    ASSUME VarTypes, IdentReturns, UNCHANGED orderVars
    PROVE  stack' \in Seq(FrameType) /\ Depends
<1>1. stack # <<>> /\ Top = LastCall /\ LastCall \in FrameType /\ phase = "objects"
  BY LastCallIs DEF IdentReturns
<1>2. LastCall.wait \in Obj
  BY <1>1 DEF IdentReturns, FrameType, Decls
<1>3. PICK b : b = (LastCall.bad \/ typ[LastCall.wait] = "invalid")
  OBVIOUS
<1>4. b \in BOOLEAN
  BY <1>1, <1>3 DEF FrameType
<1>5. PICK fr : fr = [LastCall EXCEPT !.wait = NoDecl, !.bad = b]
  OBVIOUS
<1>6. /\ fr \in FrameType /\ fr.obj = LastCall.obj /\ fr.env = LastCall.env
      /\ fr.stage = LastCall.stage /\ fr.refs = LastCall.refs
      /\ fr.wait = NoDecl /\ fr.bad = b
  <2> HIDE DEF LastCall
  <2> QED
    BY <1>1, <1>4, <1>5 DEF FrameType, Decls
<1>7. stack' = SetTop(fr)
  <2>1. stack' = SetTop([Top EXCEPT !.wait = NoDecl, !.bad = Top.bad \/ typ[Top.wait] = "invalid"])
    BY DEF IdentReturns
  <2>2. PICK t : t = Top
    OBVIOUS
  <2>3. stack' = SetTop([t EXCEPT !.wait = NoDecl, !.bad = t.bad \/ typ[t.wait] = "invalid"])
    BY <2>1, <2>2
  <2>4. t = LastCall /\ b = (t.bad \/ typ[t.wait] = "invalid")
    BY <1>1, <1>3, <2>2
  <2>5. stack' = SetTop([t EXCEPT !.wait = NoDecl, !.bad = b])
    BY <2>3, <2>4
  <2> QED
    BY <1>5, <2>4, <2>5
<1> QED
  BY <1>1, <1>2, <1>3, <1>6, <1>7, Replaces DEF Depends

\* A stage ends.
LEMMA StageEnds ==
    ASSUME VarTypes, NEW stage, StageDone(stage)
    PROVE  /\ stack # <<>> /\ Top = LastCall /\ LastCall \in FrameType /\ phase = "objects"
           /\ LastCall.stage = stage /\ LastCall.wait = NoDecl /\ LastCall.refs = {}
           /\ LastCall.obj \in Obj
  BY LastCallIs DEF StageDone, FrameType

\* constDecl and varDecl.
LEMMA TypeEndsIs ==
    ASSUME VarTypes, TypeDone, UNCHANGED orderVars
    PROVE  stack' \in Seq(FrameType) /\ TypeEnds
<1>1. /\ stack # <<>> /\ Top = LastCall /\ LastCall \in FrameType /\ phase = "objects"
      /\ LastCall.stage = "type" /\ LastCall.wait = NoDecl /\ LastCall.refs = {}
      /\ LastCall.obj \in Obj
  BY StageEnds DEF TypeDone
<1>2. PICK t : t = Top
  OBVIOUS
<1>3. t = LastCall
  BY <1>1, <1>2
<1>4. PICK go : go = Goes(LastCall.obj)
  OBVIOUS
<1>5. PICK fr : fr = [t EXCEPT !.stage = IF go THEN "init" ELSE "end",
                               !.refs = IF go THEN prog[t.obj].init ELSE {},
                               !.bad = FALSE]
  OBVIOUS
<1>6. prog[t.obj].init \subseteq Obj
  BY <1>1, <1>3, Program DEF VarTypes
<1>7. /\ fr \in FrameType /\ fr.obj = LastCall.obj /\ fr.env = LastCall.env
      /\ fr.wait = NoDecl /\ fr.bad = FALSE
      /\ go => fr.stage = "init" /\ fr.refs = prog[LastCall.obj].init
      /\ ~go => fr.stage = "end" /\ fr.refs = {}
  <2>1. CASE go
    BY <1>1, <1>3, <1>5, <1>6, <2>1 DEF FrameType, Decls
  <2>2. CASE ~go
    BY <1>1, <1>3, <1>5, <1>6, <2>2 DEF FrameType, Decls
  <2> QED
    BY <2>1, <2>2
<1>8. stack' = SetTop(fr)
  BY <1>2, <1>3, <1>4, <1>5 DEF TypeDone, Goes
<1>9. Moved(fr.stage, fr.refs, fr.wait, fr.bad) /\ stack' \in Seq(FrameType)
  BY <1>1, <1>7, <1>8, Replaces
<1> QED
  BY <1>1, <1>4, <1>7, <1>9 DEF TypeEnds

\* initConst and initVar, and the signature of a function.
LEMMA EndsAre ==
    ASSUME VarTypes, InitDone \/ SignatureDone, UNCHANGED orderVars
    PROVE  /\ stack' \in Seq(FrameType)
           /\ InitDone => InitEnds
           /\ SignatureDone => SignatureEnds
<1>1. /\ stack # <<>> /\ Top = LastCall /\ LastCall \in FrameType /\ phase = "objects"
      /\ LastCall.wait = NoDecl /\ LastCall.refs = {}
      /\ InitDone => LastCall.stage = "init"
      /\ SignatureDone => LastCall.stage = "type"
  BY StageEnds DEF InitDone, SignatureDone
<1>2. PICK t : t = Top
  OBVIOUS
<1>3. t = LastCall
  BY <1>1, <1>2
<1>4. PICK fr : fr = [t EXCEPT !.stage = "end"]
  OBVIOUS
<1>5. /\ fr \in FrameType /\ fr.obj = LastCall.obj /\ fr.env = LastCall.env
      /\ fr.wait = NoDecl /\ fr.refs = {} /\ fr.stage = "end" /\ fr.bad = LastCall.bad
  BY <1>1, <1>3, <1>4 DEF FrameType, Decls
<1>6. stack' = SetTop(fr)
  BY <1>2, <1>4 DEF InitDone, SignatureDone
<1>7. Moved(fr.stage, fr.refs, fr.wait, fr.bad) /\ stack' \in Seq(FrameType)
  BY <1>1, <1>5, <1>6, Replaces
<1> QED
  BY <1>1, <1>5, <1>7 DEF InitEnds, SignatureEnds

\* A sequence without its last element.
LEMMA FrontIs ==
    ASSUME NEW S, NEW s \in Seq(S), s # <<>>
    PROVE  /\ Front(s) \in Seq(S) /\ Len(Front(s)) = Len(s) - 1
           /\ \A n \in 1 .. Len(s) - 1 : Front(s)[n] = s[n]
           /\ Len(s) \in Nat /\ Len(s) >= 1
<1>1. PICK k \in Nat : k = Len(s)
  BY EmptySeq
<1>2. k >= 1
  BY <1>1, EmptySeq
<1>3. \A n \in 1 .. k - 1 : s[n] \in S
  BY <1>1, ElementOfSeq
<1>4. /\ SubSeq(s, 1, k - 1) \in Seq(S)
      /\ Len(SubSeq(s, 1, k - 1)) = IF 1 <= k - 1 THEN (k - 1) - 1 + 1 ELSE 0
      /\ \A n \in 1 .. (k - 1) - 1 + 1 : SubSeq(s, 1, k - 1)[n] = s[1 + n - 1]
  BY <1>3, SubSeqProperties
<1>5. Front(s) = SubSeq(s, 1, k - 1)
  BY <1>1 DEF Front
<1>6. (k - 1) - 1 + 1 = k - 1 /\ \A n \in 1 .. k - 1 : 1 + n - 1 = n
  OBVIOUS
<1>7. Len(Front(s)) = k - 1 /\ \A n \in 1 .. k - 1 : Front(s)[n] = s[n]
  BY <1>2, <1>4, <1>5, <1>6
<1> QED
  BY <1>1, <1>2, <1>4, <1>5, <1>7

\* The deferred functions of objDecl.
LEMMA ReturnsIs ==
    ASSUME VarTypes, StackInv, Return, UNCHANGED orderVars
    PROVE  stack' \in Seq(FrameType) /\ objPath' \in Seq(Obj) /\ Returns /\ Len(objPath') = Len(stack')
           /\ \A n \in 1 .. Len(stack') : objPath'[n] = objPath[n]
<1>1. /\ stack # <<>> /\ Top = LastCall /\ LastCall \in FrameType /\ phase = "objects"
      /\ LastCall.stage = "end" /\ Len(stack) >= 1 /\ Len(stack) \in Nat /\ stack \in Seq(FrameType)
      /\ Len(stack) \in 1 .. Len(stack)
  BY StageEnds, LastCallIs DEF Return
<1>2. /\ stack' \in Seq(FrameType) /\ Len(stack') = Len(stack) - 1
      /\ \A n \in 1 .. Len(stack) - 1 : stack'[n] = stack[n]
  <2> HIDE DEF FrameType
  <2> QED
    BY <1>1, FrontIs DEF Return
<1>3. objPath[Len(stack)] = LastCall.obj /\ Last(objPath) = LastCall.obj /\ objPath # <<>>
  BY <1>1 DEF StackInv, Last, LastCall
<1>4. /\ objPath' \in Seq(Obj) /\ Len(objPath') = Len(objPath) - 1
      /\ \A n \in 1 .. Len(objPath) - 1 : objPath'[n] = objPath[n]
  BY <1>3, FrontIs DEF Return, VarTypes
<1>5. color' = [color EXCEPT ![LastCall.obj] = black] /\ decl' = LastCall.env
  BY <1>1, <1>3 DEF Return
<1> QED
  BY <1>1, <1>2, <1>3, <1>4, <1>5 DEF Returns, StackInv

\* Every step of the declarations is of one of these kinds.
LEMMA DeclStepsAre ==
    ASSUME VarTypes, StackInv, ColorInv, DeclNext, UNCHANGED orderVars
    PROVE  stack' \in Seq(FrameType) /\ DeclSteps
<1>1. CASE NextObject
  BY <1>1, NextObjectIs DEF DeclSteps
<1>2. CASE Ident
  BY <1>2, IdentIs DEF DeclSteps
<1>3. CASE IdentReturns
  BY <1>3, DependsIs DEF DeclSteps
<1>4. CASE TypeDone
  BY <1>4, TypeEndsIs DEF DeclSteps
<1>5. CASE InitDone \/ SignatureDone
  BY <1>5, EndsAre DEF DeclSteps
<1>6. CASE Return
  BY <1>6, ReturnsIs DEF DeclSteps
<1>7. CASE StartDelayed \/ FuncBody
  BY <1>7 DEF DeclSteps, StartDelayed, FuncBody, VarTypes, declVars
<1> QED
  BY <1>1, <1>2, <1>3, <1>4, <1>5, <1>6, <1>7 DEF DeclNext

\* The steps of initOrder do not touch the declarations.
OrderSteps ==
    /\ UNCHANGED declVars
    /\ \/ phase' = phase
       \/ phase = "delayed" /\ delayed = <<>> /\ phase' \in OrderPhase
       \/ phase \in OrderPhase /\ phase' \in OrderPhase

LEMMA OrderStepsAre ==
    ASSUME VarTypes, DependencyGraph \/ RemoveFunc \/ FillQueue \/ PopNode \/ Finish \/ UNCHANGED vars
    PROVE  OrderSteps /\ stack' = stack
<1>1. CASE DependencyGraph
  BY <1>1 DEF DependencyGraph, OrderSteps, OrderPhase, declVars
<1>2. CASE RemoveFunc \/ FillQueue \/ Finish
  BY <1>2 DEF RemoveFunc, FillQueue, Finish, OrderSteps, OrderPhase, declVars
<1>3. CASE PopNode
  BY <1>3 DEF PopNode, Pop, OrderSteps, OrderPhase, declVars
<1>4. CASE UNCHANGED vars
  BY <1>4 DEF vars, OrderSteps, declVars
<1> QED
  BY <1>1, <1>2, <1>3, <1>4

\* A body is delayed.
LEMMA Delays ==
    ASSUME VarTypes, NEW l \in Obj, NEW S \in SUBSET Obj,
           delayed' = Append(delayed, [decl |-> l, refs |-> S])
    PROVE  /\ delayed' \in Seq(DelayedType)
           /\ Range(delayed') = Range(delayed) \cup {[decl |-> l, refs |-> S]}
<1>1. PICK a : a = [decl |-> l, refs |-> S]
  OBVIOUS
<1>2. a \in DelayedType
  BY <1>1 DEF DelayedType
<1>3. /\ delayed' \in Seq(DelayedType) /\ Len(delayed') = Len(delayed) + 1
      /\ \A i \in 1 .. Len(delayed) : delayed'[i] = delayed[i]
      /\ delayed'[Len(delayed) + 1] = a
  BY <1>1, <1>2, AppendProperties DEF VarTypes
<1>4. /\ Len(delayed) \in Nat /\ DOMAIN delayed = 1 .. Len(delayed)
      /\ DOMAIN delayed' = 1 .. Len(delayed) + 1
  BY <1>3, LenProperties DEF VarTypes
<1> QED
  BY <1>1, <1>3, <1>4 DEF Range

\* The elements of a sequence are the first one and those of the rest.
LEMMA HeadRange ==
    ASSUME NEW S, NEW s \in Seq(S), s # <<>>
    PROVE  /\ Head(s) \in S /\ Tail(s) \in Seq(S)
           /\ Range(s) = {Head(s)} \cup Range(Tail(s))
<1>1. /\ Head(s) \in S /\ Tail(s) \in Seq(S)
      /\ Len(Tail(s)) = Len(s) - 1
      /\ \A i \in 1 .. Len(Tail(s)) : Tail(s)[i] = s[i + 1]
  BY HeadTailProperties
<1>2. PICK k \in Nat : k = Len(s)
  BY EmptySeq
<1>3. k >= 1 /\ DOMAIN s = 1 .. k /\ DOMAIN Tail(s) = 1 .. k - 1 /\ Head(s) = s[1]
  BY <1>1, <1>2, EmptySeq, LenProperties
<1>4. ASSUME NEW i \in 1 .. k PROVE s[i] \in {Head(s)} \cup Range(Tail(s))
  <2>1. CASE i = 1
    BY <1>3, <2>1
  <2>2. CASE i # 1
    <3>1. i - 1 \in 1 .. k - 1 /\ (i - 1) + 1 = i
      BY <1>2, <2>2
    <3>2. Tail(s)[i - 1] = s[i]
      BY <1>1, <1>2, <3>1
    <3> QED
      BY <1>3, <3>1, <3>2 DEF Range
  <2> QED
    BY <2>1, <2>2
<1>5. ASSUME NEW i \in 1 .. k - 1 PROVE Tail(s)[i] \in Range(s)
  <2>1. i + 1 \in 1 .. k /\ Tail(s)[i] = s[i + 1]
    BY <1>1, <1>2, <1>5
  <2> QED
    BY <1>3, <2>1 DEF Range
<1>6. Head(s) \in Range(s)
  BY <1>3 DEF Range
<1>7. Range(s) \subseteq {Head(s)} \cup Range(Tail(s))
  BY <1>3, <1>4 DEF Range
<1>8. Range(Tail(s)) \subseteq Range(s)
  BY <1>3, <1>5 DEF Range
<1> QED
  BY <1>1, <1>6, <1>7, <1>8

\* A step, of any kind, keeps the types.
LEMMA TypesStep ==
    ASSUME VarTypes, StackInv, ColorInv, \A n \in 1 .. Len(stack) : FrameInv(n),
           stack' \in Seq(FrameType), DeclSteps \/ OrderSteps
    PROVE  VarTypes'
<1> DEFINE Goal ==
             /\ prog' = prog /\ todo' \subseteq Obj
             /\ color' \in [Obj -> Nat]
             /\ typ' \in [Obj -> {"none", "ok", "invalid"}]
             /\ objPath' \in Seq(Obj)
             /\ decl' \in Decls
             /\ deps' \in [Obj -> SUBSET Obj]
             /\ delayed' \in Seq(DelayedType)
             /\ phase' \in DeclPhase \cup OrderPhase
             /\ phase' # "objects" => stack' = <<>> /\ todo' = {}
             /\ phase' \in OrderPhase => delayed' = <<>>
<1> SUFFICES Goal
  BY DEF VarTypes, Obj, FrameType, DelayedType, Decls
<1> USE DEF DeclPhase, OrderPhase
<1>1. ASSUME NEW o \in Obj, Begins(o) PROVE Goal
  <2>1. Len(objPath) \in Nat /\ prog[o].lhs \in Obj
    BY <1>1, Program DEF VarTypes
  <2>2. objPath' \in Seq(Obj)
    BY <1>1, AppendProperties DEF Begins, White, VarTypes
  <2> QED
    BY <1>1, <2>1, <2>2 DEF Begins, White, Rest, VarTypes, Decls, white, black, grey, Meets
<1>2. ASSUME NEW o \in Obj, Passes(o) PROVE Goal
  BY <1>2 DEF Passes, Rest, VarTypes, black
<1>3. ASSUME NEW o \in Obj, Looks(o) PROVE Goal
  BY <1>3 DEF Looks, Rest, VarTypes
<1>4. ASSUME NEW o \in Obj, Cycles(o) PROVE Goal
  BY <1>4 DEF Cycles, Grey, Rest, VarTypes
<1>5. CASE Depends
  <2>1. deps' \in [Obj -> SUBSET Obj]
    <3>1. LastCall.wait \in Obj /\ Top = LastCall
      BY <1>5, LastCallIs DEF Depends, IdentReturns
    <3> QED
      BY <1>5, <3>1 DEF Depends, IdentReturns, VarTypes, Decls
  <2> QED
    BY <1>5, <2>1 DEF Depends, IdentReturns, VarTypes
<1>6. CASE TypeEnds
  <2>1. /\ Top = LastCall /\ LastCall.obj \in Obj /\ IsValue(LastCall.obj)
        /\ LastCall.obj = stack[Len(stack)].obj /\ stack # <<>>
    BY <1>6, StageEnds DEF TypeEnds, TypeDone, LastCall
  <2>2. decl = prog[LastCall.obj].lhs /\ prog[LastCall.obj].lhs \in Obj /\ prog[LastCall.obj].body \subseteq Obj
    BY <2>1, Program DEF StackInv, DeclOf, VarTypes
  <2>3. typ' \in [Obj -> {"none", "ok", "invalid"}]
    BY <1>6 DEF TypeEnds, TypeDone, VarTypes
  <2>4. delayed' \in Seq(DelayedType)
    <3>1. \/ delayed' = delayed
          \/ delayed' = Append(delayed, [decl |-> decl, refs |-> prog[LastCall.obj].body])
      BY <1>6, <2>1 DEF TypeEnds, TypeDone, Later
    <3> QED
      BY <2>2, <3>1, Delays DEF VarTypes
  <2> QED
    BY <1>6, <2>3, <2>4 DEF TypeEnds, TypeDone, VarTypes
<1>7. CASE InitEnds
  BY <1>7 DEF InitEnds, InitDone, VarTypes
<1>8. CASE SignatureEnds
  <2>1. /\ Top = LastCall /\ LastCall.obj \in Obj
    BY <1>8, StageEnds DEF SignatureEnds, SignatureDone
  <2>2. delayed' \in Seq(DelayedType)
    <3>1. \/ delayed' = delayed
          \/ delayed' = Append(delayed, [decl |-> LastCall.obj, refs |-> prog[LastCall.obj].body])
      BY <1>8, <2>1 DEF SignatureEnds, SignatureDone, Later
    <3>2. prog[LastCall.obj].body \subseteq Obj
      BY <2>1, Program DEF VarTypes
    <3> QED
      BY <2>1, <3>1, <3>2, Delays DEF VarTypes
  <2> QED
    BY <1>8, <2>2 DEF SignatureEnds, SignatureDone, VarTypes
<1>9. CASE Returns
  <2>1. objPath' \in Seq(Obj)
    BY <1>9, ReturnsIs DEF Returns
  <2>2. LastCall.env \in Decls
    BY <1>9, LastCallIs, StageEnds DEF Returns, Return, FrameType
  <2>3. UNCHANGED <<prog, todo, typ, deps, delayed, phase>> /\ phase = "objects"
    BY <1>9 DEF Returns, Return
  <2>4. color' \in [Obj -> Nat]
    BY <1>9 DEF Returns, VarTypes, black
  <2>5. decl' \in Decls
    BY <1>9, <2>2 DEF Returns
  <2> QED
    BY <2>1, <2>3, <2>4, <2>5 DEF VarTypes
<1>10. CASE StartDelayed
  BY <1>10 DEF StartDelayed, declVars, VarTypes
<1>11. CASE FuncBody
  <2>1. /\ Head(delayed) \in DelayedType
        /\ Tail(delayed) \in Seq(DelayedType)
    BY <1>11, HeadRange DEF FuncBody, VarTypes
  <2>2. Head(delayed).decl \in Obj /\ Head(delayed).refs \subseteq Obj
    BY <2>1 DEF DelayedType
  <2>3. deps' \in [Obj -> SUBSET Obj]
    BY <1>11, <2>2 DEF FuncBody, VarTypes
  <2> QED
    BY <1>11, <2>1, <2>3 DEF FuncBody, VarTypes
<1>12. CASE OrderSteps
  BY <1>12 DEF OrderSteps, declVars, VarTypes
<1> QED
  BY <1>1, <1>2, <1>3, <1>4, <1>5, <1>6, <1>7, <1>8, <1>9, <1>10, <1>11, <1>12 DEF DeclSteps

-----------------------------------------------------------------------------
(***************************************************************************)
(* The calls are a path, and colors are the places on it.                  *)
(***************************************************************************)

\* The program stays.
LEMMA SameProgram == ASSUME DeclSteps \/ OrderSteps PROVE prog' = prog
  BY DEF DeclSteps, OrderSteps, declVars, Begins, Passes, Looks, Cycles, Rest, Depends, IdentReturns,
         TypeEnds, TypeDone, InitEnds, InitDone, SignatureEnds, SignatureDone, Returns, Return,
         StartDelayed, FuncBody

\* Steps that only move the last call, at most.
Stays ==
    /\ Len(stack') = Len(stack) /\ UNCHANGED <<prog, objPath, decl>>
    /\ \A n \in 1 .. Len(stack) : stack'[n].obj = stack[n].obj /\ stack'[n].env = stack[n].env

\* Most steps do.
LEMMA MostStay ==
    ASSUME VarTypes, DeclSteps \/ OrderSteps, ~ Returns, \A o \in Obj : ~ Begins(o)
    PROVE  /\ Stays
           /\ \A n \in 1 .. Len(stack) : n # Len(stack) => stack'[n] = stack[n]
<1>1. ASSUME NEW o \in Obj, Passes(o) \/ Looks(o) \/ Cycles(o) PROVE Stays
  BY <1>1 DEF Passes, Looks, Cycles, Waits, Moved, Grey, Rest, Stays
<1>2. CASE Depends \/ TypeEnds \/ InitEnds \/ SignatureEnds
  BY <1>2 DEF Depends, TypeEnds, InitEnds, SignatureEnds, IdentReturns, TypeDone, InitDone,
              SignatureDone, Moved, Stays
<1>3. CASE StartDelayed \/ FuncBody \/ OrderSteps
  BY <1>3 DEF StartDelayed, FuncBody, OrderSteps, declVars, Stays
<1>4. ASSUME NEW o \in Obj, Passes(o) \/ Looks(o) \/ Cycles(o)
      PROVE  \A n \in 1 .. Len(stack) : n # Len(stack) => stack'[n] = stack[n]
  BY <1>4 DEF Passes, Looks, Cycles, Waits, Moved
<1>5. CASE Depends \/ TypeEnds \/ InitEnds \/ SignatureEnds
  BY <1>5, <1>2 DEF Depends, TypeEnds, InitEnds, SignatureEnds, Moved
<1>6. CASE StartDelayed \/ FuncBody \/ OrderSteps
  BY <1>6, <1>3 DEF StartDelayed, FuncBody, OrderSteps, declVars
<1> QED
  BY <1>1, <1>2, <1>3, <1>4, <1>5, <1>6 DEF DeclSteps

\* The path, the calls and the environment stay together.
LEMMA StackStep ==
    ASSUME VarTypes, VarTypes', StackInv, ColorInv, DeclSteps \/ OrderSteps
    PROVE  StackInv'
<1> DEFINE Goal ==
        /\ Len(objPath') = Len(stack')
        /\ \A n \in 1 .. Len(stack') : objPath'[n] = stack'[n].obj
        /\ \A m, n \in 1 .. Len(stack') : stack'[m].obj = stack'[n].obj => m = n
        /\ \A n \in 1 .. Len(stack') : n + 1 <= Len(stack') => stack'[n].wait = stack'[n + 1].obj
        /\ decl' = IF stack' = <<>> THEN NoDecl ELSE DeclOf(stack'[Len(stack')].obj)
        /\ \A n \in 1 .. Len(stack') :
              stack'[n].env = IF n = 1 THEN NoDecl ELSE DeclOf(stack'[n - 1].obj)
<1> SUFFICES Goal
  BY SameProgram DEF StackInv, DeclOf, IsValue, Kind
<1>0. Len(stack) \in Nat /\ Len(stack') \in Nat
      /\ (stack = <<>> <=> Len(stack) = 0) /\ (stack' = <<>> <=> Len(stack') = 0)
  BY EmptySeq DEF VarTypes
<1>1. ASSUME NEW o \in Obj, Begins(o) PROVE Goal
  <2>1. /\ Len(stack') = Len(stack) + 1
        /\ \A n \in 1 .. Len(stack) : stack'[n].obj = stack[n].obj /\ stack'[n].env = stack[n].env
        /\ \A n \in 1 .. Len(stack) : n # Len(stack) => stack'[n].wait = stack[n].wait
        /\ Len(stack) >= 1 => stack'[Len(stack)].wait = o
        /\ stack'[Len(stack) + 1].obj = o /\ stack'[Len(stack) + 1].env = decl
    <3>1. Pushed(o) /\ Frame(o).obj = o /\ Frame(o).env = decl
      BY <1>1, FrameIs DEF Begins
    <3>2. \A n \in 1 .. Len(stack) : n # Len(stack) => stack'[n].wait = stack[n].wait
      BY <3>1 DEF Pushed
    <3>3. Len(stack) >= 1 => stack'[Len(stack)].wait = o
      <4>1. Len(stack) >= 1 => Len(stack) \in 1 .. Len(stack)
        BY <1>0
      <4> QED
        BY <3>1, <4>1 DEF Pushed
    <3> QED
      BY <3>1, <3>2, <3>3 DEF Pushed
  <2>2. /\ Len(objPath') = Len(objPath) + 1
        /\ \A n \in 1 .. Len(objPath) : objPath'[n] = objPath[n]
        /\ objPath'[Len(objPath) + 1] = o
    BY <1>1, AppendProperties DEF Begins, White, VarTypes
  <2>3. \A n \in 1 .. Len(stack) : stack[n].obj # o
    BY <1>1 DEF Begins, ColorInv, IsGrey, white, black, grey
  <2>4. decl' = DeclOf(o)
    BY <1>1 DEF Begins, White, DeclOf
  <2>5. /\ Len(objPath') = Len(stack')
        /\ \A n \in 1 .. Len(stack') : objPath'[n] = stack'[n].obj
    BY <1>0, <2>1, <2>2 DEF StackInv
  <2>6. \A m, n \in 1 .. Len(stack') : stack'[m].obj = stack'[n].obj => m = n
    BY <1>0, <2>1, <2>3 DEF StackInv
  <2>7. \A n \in 1 .. Len(stack') : n + 1 <= Len(stack') => stack'[n].wait = stack'[n + 1].obj
    <3> SUFFICES ASSUME NEW n \in 1 .. Len(stack), n + 1 <= Len(stack')
                 PROVE  stack'[n].wait = stack'[n + 1].obj
      BY <1>0, <2>1
    <3>1. CASE n = Len(stack)
      BY <1>0, <2>1, <3>1
    <3>2. CASE n # Len(stack)
      BY <1>0, <2>1, <3>2 DEF StackInv
    <3> QED
      BY <3>1, <3>2
  <2>8. \A n \in 1 .. Len(stack') :
              stack'[n].env = IF n = 1 THEN NoDecl ELSE DeclOf(stack'[n - 1].obj)
    <3> SUFFICES ASSUME NEW n \in 1 .. Len(stack')
                 PROVE  stack'[n].env = IF n = 1 THEN NoDecl ELSE DeclOf(stack'[n - 1].obj)
      OBVIOUS
    <3>1. CASE n = Len(stack) + 1 /\ Len(stack) = 0
      BY <1>0, <2>1, <3>1 DEF StackInv
    <3>2. CASE n = Len(stack) + 1 /\ Len(stack) # 0
      <4>1. n - 1 = Len(stack) /\ Len(stack) \in 1 .. Len(stack) /\ n # 1 /\ stack # <<>>
        BY <1>0, <3>2
      <4>2. stack'[n].env = decl /\ stack'[n - 1].obj = stack[Len(stack)].obj
        BY <2>1, <3>2, <4>1
      <4> QED
        BY <4>1, <4>2 DEF StackInv
    <3>3. CASE n # Len(stack) + 1
      <4>1. n \in 1 .. Len(stack) /\ (n # 1 => n - 1 \in 1 .. Len(stack))
        BY <1>0, <2>1, <3>3
      <4>2. stack'[n].env = stack[n].env /\ (n # 1 => stack'[n - 1].obj = stack[n - 1].obj)
        BY <2>1, <4>1
      <4> QED
        BY <4>1, <4>2 DEF StackInv
    <3> QED
      BY <3>1, <3>2, <3>3
  <2> QED
    BY <1>0, <2>1, <2>4, <2>5, <2>6, <2>7, <2>8
<1>2. CASE Returns
  <2>1. /\ Len(stack') = Len(stack) - 1 /\ Len(stack) >= 1
        /\ \A n \in 1 .. Len(stack) - 1 : stack'[n] = stack[n]
        /\ Len(objPath') = Len(stack')
        /\ \A n \in 1 .. Len(stack') : objPath'[n] = objPath[n]
        /\ decl' = stack[Len(stack)].env
    BY <1>2, ReturnsIs DEF Returns, LastCall
  <2>2. \A n \in 1 .. Len(stack') : /\ n \in 1 .. Len(stack) /\ stack'[n] = stack[n]
                                    /\ n # 1 => n - 1 \in 1 .. Len(stack') /\ stack'[n - 1] = stack[n - 1]
                                    /\ n + 1 <= Len(stack') =>
                                          n + 1 \in 1 .. Len(stack') /\ stack'[n + 1] = stack[n + 1]
    BY <1>0, <2>1
  <2>3. decl' = IF stack' = <<>> THEN NoDecl ELSE DeclOf(stack'[Len(stack')].obj)
    <3>1. Len(stack) \in 1 .. Len(stack)
      BY <1>0, <2>1
    <3>2. decl' = IF Len(stack) = 1 THEN NoDecl ELSE DeclOf(stack[Len(stack) - 1].obj)
      BY <2>1, <3>1 DEF StackInv
    <3>3. CASE Len(stack) = 1
      BY <1>0, <2>1, <3>2, <3>3
    <3>4. CASE Len(stack) # 1
      <4>1. Len(stack') = Len(stack) - 1 /\ Len(stack') \in 1 .. Len(stack') /\ stack' # <<>>
        BY <1>0, <2>1, <3>4
      <4> QED
        BY <2>2, <3>2, <3>4, <4>1
    <3> QED
      BY <3>3, <3>4
  <2>4. \A n \in 1 .. Len(stack') :
              stack'[n].env = IF n = 1 THEN NoDecl ELSE DeclOf(stack'[n - 1].obj)
    BY <2>2 DEF StackInv
  <2>5. \A n \in 1 .. Len(stack') : n + 1 <= Len(stack') => stack'[n].wait = stack'[n + 1].obj
    BY <1>0, <2>1, <2>2 DEF StackInv
  <2>6. /\ \A n \in 1 .. Len(stack') : objPath'[n] = stack'[n].obj
        /\ \A m, n \in 1 .. Len(stack') : stack'[m].obj = stack'[n].obj => m = n
    BY <2>1, <2>2 DEF StackInv
  <2> QED
    BY <2>1, <2>3, <2>4, <2>5, <2>6
<1>3. CASE ~ Returns /\ \A o \in Obj : ~ Begins(o)
  <2>1. Stays /\ \A n \in 1 .. Len(stack) : n # Len(stack) => stack'[n] = stack[n]
    BY <1>3, MostStay
  <2>2. \A n \in 1 .. Len(stack) : n + 1 <= Len(stack) => stack'[n].wait = stack'[n + 1].obj
    BY <1>0, <2>1 DEF StackInv, Stays
  <2> QED
    BY <1>0, <2>1, <2>2 DEF StackInv, Stays
<1> QED
  BY <1>1, <1>2, <1>3

\* A type that is known stays so; and only a call of objDecl gives a type to others.
LEMMA TypedStays ==
    ASSUME VarTypes, DeclSteps \/ OrderSteps, NEW o \in Obj, typ[o] # "none"
    PROVE  typ'[o] # "none"
<1>1. ASSUME NEW r \in Obj, Begins(r) PROVE typ'[o] # "none"
  BY <1>1 DEF Begins, White, VarTypes
<1>2. ASSUME NEW r \in Obj, Passes(r) \/ Looks(r) PROVE typ'[o] # "none"
  BY <1>2 DEF Passes, Looks
<1>3. ASSUME NEW r \in Obj, Cycles(r) PROVE typ'[o] # "none"
  BY <1>3 DEF Cycles, Grey, VarTypes
<1>4. CASE Depends \/ SignatureEnds \/ Returns
  BY <1>4 DEF Depends, IdentReturns, SignatureEnds, SignatureDone, Returns, Return
<1>5. CASE TypeEnds
  BY <1>5 DEF TypeEnds, TypeDone
<1>6. CASE InitEnds
  BY <1>6 DEF InitEnds, InitDone
<1>7. CASE StartDelayed \/ FuncBody \/ OrderSteps
  BY <1>7 DEF StartDelayed, FuncBody, OrderSteps, declVars
<1> QED
  BY <1>1, <1>2, <1>3, <1>4, <1>5, <1>6, <1>7 DEF DeclSteps

\* What has been reported stays reported.
LEMMA ReportedStays == ASSUME DeclSteps \/ OrderSteps PROVE cycles \subseteq cycles' /\ (Reported => Reported')
<1>1. cycles \subseteq cycles'
  <2>1. ASSUME NEW r \in Obj, Begins(r) \/ Passes(r) \/ Looks(r) \/ Cycles(r) PROVE cycles \subseteq cycles'
    BY <2>1 DEF Begins, White, Passes, Looks, Cycles, Grey
  <2>2. CASE Depends \/ TypeEnds \/ InitEnds \/ SignatureEnds \/ Returns
    BY <2>2 DEF Depends, IdentReturns, TypeEnds, TypeDone, InitEnds, InitDone, SignatureEnds,
                SignatureDone, Returns, Return
  <2>3. CASE StartDelayed \/ FuncBody \/ OrderSteps
    BY <2>3 DEF StartDelayed, FuncBody, OrderSteps, declVars
  <2> QED
    BY <2>1, <2>2, <2>3 DEF DeclSteps
<1> QED
  BY <1>1 DEF Reported

\* Each call meets the references of its stage.
LEMMA FrameStep ==
    ASSUME VarTypes, VarTypes', StackInv, ColorInv, \A n \in 1 .. Len(stack) : FrameInv(n),
           CycleInv, DeclSteps \/ OrderSteps
    PROVE  \A n \in 1 .. Len(stack') : FrameInv(n)'
<1> DEFINE Goal(n) ==
      LET fr == stack'[n] IN
        /\ fr.refs \subseteq StageRefs(fr.obj, fr.stage)
        /\ fr.wait \in StageRefs(fr.obj, fr.stage) \cup {NoDecl}
        /\ fr.stage = "init" => IsValue(fr.obj)
        /\ fr.stage = "type" /\ fr.bad => prog[fr.obj].type # {}
        /\ fr.stage = "type" /\ fr.bad => IsType(fr.obj) \/ Reported'
        /\ fr.stage = "end" \/ ~IsValue(fr.obj) => typ'[fr.obj] # "none"
<1> SUFFICES ASSUME NEW n \in 1 .. Len(stack') PROVE Goal(n)
  BY SameProgram DEF FrameInv, IsValue, IsType, Kind, StageRefs
<1>a. Reported => Reported'
  BY ReportedStays
<1>0. /\ Len(stack) \in Nat /\ Len(stack') \in Nat
      /\ stack \in Seq(FrameType) /\ (stack # <<>> => LastCall \in FrameType)
      /\ \A k \in 1 .. Len(stack) : stack[k] \in FrameType
  BY EmptySeq, ElementOfSeq, LastCallIs DEF VarTypes
<1>1. ASSUME n \in 1 .. Len(stack), stack'[n] = stack[n] PROVE Goal(n)
  <2>1. FrameInv(n) /\ stack[n].obj \in Obj
    BY <1>0, <1>1 DEF FrameType
  <2>2. typ[stack[n].obj] # "none" => typ'[stack[n].obj] # "none"
    BY <2>1, TypedStays
  <2> QED
    BY <1>1, <1>a, <2>1, <2>2 DEF FrameInv
<1>2. ASSUME NEW o \in Obj, Begins(o) PROVE Goal(n)
  <2>1. Pushed(o)
    BY <1>2 DEF Begins
  <2>2. CASE n = Len(stack) + 1
    <3>1. /\ stack'[n].obj = o /\ stack'[n].stage = "type" /\ stack'[n].refs = prog[o].type
          /\ stack'[n].wait = NoDecl /\ stack'[n].bad = FALSE
      BY <2>1, <2>2, FrameIs DEF Pushed
    <3>2. ~IsValue(o) => typ'[o] # "none"
      BY <1>2 DEF Begins, White, VarTypes
    <3> QED
      BY <3>1, <3>2 DEF StageRefs
  <2>3. CASE n = Len(stack)
    <3>1. /\ n \in 1 .. Len(stack) /\ FrameInv(n) /\ stack[n].obj \in Obj /\ Meets(o)
          /\ stack'[n].obj = stack[n].obj /\ stack'[n].stage = stack[n].stage
          /\ stack'[n].bad = stack[n].bad
          /\ stack'[n].refs = stack[n].refs \ {o} /\ stack'[n].wait = o
      BY <1>0, <1>2, <2>1, <2>3 DEF Pushed, Begins, FrameType
    <3>2. typ[stack[n].obj] # "none" => typ'[stack[n].obj] # "none"
      BY <3>1, TypedStays
    <3> QED
      BY <1>a, <2>3, <3>1, <3>2 DEF FrameInv, Meets
  <2>4. CASE n # Len(stack) /\ n # Len(stack) + 1
    BY <1>0, <1>1, <2>1, <2>4 DEF Pushed
  <2> QED
    BY <2>2, <2>3, <2>4
<1>3. ASSUME NEW stage, NEW refs, NEW wait, NEW bad, Moved(stage, refs, wait, bad),
             refs \subseteq StageRefs(LastCall.obj, stage),
             wait \in StageRefs(LastCall.obj, stage) \cup {NoDecl},
             stage = "init" => IsValue(LastCall.obj),
             stage = "type" /\ bad => prog[LastCall.obj].type # {},
             stage = "type" /\ bad => IsType(LastCall.obj) \/ Reported',
             stage = "end" \/ ~IsValue(LastCall.obj) => typ'[LastCall.obj] # "none"
      PROVE  Goal(n)
  <2>1. CASE n = Len(stack)
    BY <1>3, <2>1 DEF Moved, LastCall
  <2>2. CASE n # Len(stack)
    BY <1>0, <1>1, <1>3, <2>2 DEF Moved
  <2> QED
    BY <2>1, <2>2
<1>4. ASSUME stack # <<>>
      PROVE  /\ LastCall.refs \subseteq StageRefs(LastCall.obj, LastCall.stage)
             /\ LastCall.stage = "init" => IsValue(LastCall.obj)
             /\ LastCall.stage = "type" /\ LastCall.bad => prog[LastCall.obj].type # {}
             /\ LastCall.stage = "type" /\ LastCall.bad => IsType(LastCall.obj) \/ Reported'
             /\ LastCall.stage = "end" \/ ~IsValue(LastCall.obj) => typ'[LastCall.obj] # "none"
             /\ LastCall.wait \in StageRefs(LastCall.obj, LastCall.stage) \cup {NoDecl}
             /\ LastCall.obj \in Obj
  <2>1. FrameInv(Len(stack)) /\ LastCall.obj \in Obj
    BY <1>4, LastCallIs DEF FrameType
  <2>2. typ[LastCall.obj] # "none" => typ'[LastCall.obj] # "none"
    BY <2>1, TypedStays
  <2> QED
    BY <1>a, <2>1, <2>2 DEF FrameInv, LastCall
<1>5. Len(stack) >= 1 => stack # <<>>
  BY EmptySeq
<1>6. ASSUME NEW r \in Obj, Looks(r) \/ Cycles(r) PROVE Goal(n)
  <2>1. Meets(r) /\ Waits(r)
    BY <1>6 DEF Looks, Cycles
  <2> QED
    BY <2>1, <1>3, <1>4, <1>5 DEF Meets, Waits, LastCall
<1>7. CASE Depends
  <2>1. /\ Moved(LastCall.stage, LastCall.refs, NoDecl, LastCall.bad \/ typ[LastCall.wait] = "invalid")
        /\ LastCall.wait \in Obj /\ stack # <<>>
    BY <1>5, <1>7 DEF Depends, IdentReturns
  <2>2. LastCall.stage = "type" => prog[LastCall.obj].type # {}
    <3>1. LastCall.wait # NoDecl
      BY <2>1, Program DEF VarTypes
    <3> QED
      BY <2>1, <3>1, <1>4 DEF StageRefs
  <2>3. ASSUME LastCall.stage = "type", typ[LastCall.wait] = "invalid" PROVE IsType(LastCall.obj) \/ Reported'
    <3>1. LastCall.wait # NoDecl
      BY <2>1, Program DEF VarTypes
    <3>2. LastCall.wait \in prog[LastCall.obj].type /\ LastCall.obj \in Obj
      BY <2>1, <2>3, <3>1, <1>4 DEF StageRefs
    <3>3. IsType(LastCall.wait) \/ IsType(LastCall.obj)
      BY <3>2, Program DEF VarTypes
    <3>4. IsType(LastCall.wait) => Reported
      BY <2>1, <2>3 DEF CycleInv, Reported
    <3> QED
      BY <1>a, <3>3, <3>4
  <2> QED
    BY <1>3, <1>4, <2>1, <2>2, <2>3
<1>8. CASE TypeEnds
  <2>1. /\ IsValue(LastCall.obj) /\ stack # <<>> /\ LastCall.obj \in Obj /\ Top = LastCall
    BY <1>8, StageEnds DEF TypeEnds, TypeDone
  <2>2. CASE Goes(LastCall.obj)
    <3>1. Moved("init", prog[LastCall.obj].init, NoDecl, FALSE)
      BY <1>8, <2>2 DEF TypeEnds
    <3> QED
      BY <2>1, <3>1, <1>3 DEF StageRefs
  <2>3. CASE ~Goes(LastCall.obj)
    <3>1. Moved("end", {}, NoDecl, FALSE)
      BY <1>8, <2>3 DEF TypeEnds
    <3>2. LastCall.stage = "type"
      BY <1>8 DEF TypeEnds
    <3>3. TypeKnown(LastCall.obj)
      BY <1>4, <2>1, <2>3, <3>2 DEF Goes, TypeKnown
    <3>4. typ'[LastCall.obj] # "none"
      BY <1>8, <2>1, <3>3 DEF TypeEnds, TypeDone, TypeKnown
    <3> QED
      BY <2>1, <3>1, <3>4, <1>3
  <2> QED
    BY <2>2, <2>3
<1>9. CASE InitEnds
  <2>1. /\ Moved("end", {}, NoDecl, LastCall.bad) /\ stack # <<>> /\ LastCall.obj \in Obj
        /\ Top = LastCall
    BY <1>9, StageEnds DEF InitEnds, InitDone
  <2>2. typ'[LastCall.obj] # "none"
    BY <1>9, <2>1 DEF InitEnds, InitDone, Siblings
  <2> QED
    BY <2>1, <2>2, <1>3
<1>10. CASE SignatureEnds
  <2>1. /\ Moved("end", {}, NoDecl, LastCall.bad) /\ stack # <<>> /\ ~IsValue(LastCall.obj)
    BY <1>10, StageEnds DEF SignatureEnds, SignatureDone
  <2> QED
    BY <2>1, <1>3, <1>4
<1>11. CASE Returns
  <2>1. n \in 1 .. Len(stack) /\ stack'[n] = stack[n]
    BY <1>0, <1>11 DEF Returns
  <2> QED
    BY <2>1, <1>1
<1>12. CASE (\E o \in Obj : Passes(o)) \/ StartDelayed \/ FuncBody \/ OrderSteps
  <2>1. stack' = stack
    BY <1>12 DEF Passes, StartDelayed, FuncBody, OrderSteps, declVars
  <2> QED
    BY <2>1, <1>1
<1> QED
  BY <1>2, <1>6, <1>7, <1>8, <1>9, <1>10, <1>11, <1>12 DEF DeclSteps

\* Variables that are declared together have the same declaration.
LEMMA SiblingsAre ==
    ASSUME IsProgram(prog), NEW o \in Obj, NEW q \in Obj, prog[q].lhs = prog[o].lhs
    PROVE  prog[q] = prog[o]
  BY Program

\* Colors are places on the path, and what is black has a type.
LEMMA ColorStep ==
    ASSUME VarTypes, VarTypes', StackInv, ColorInv, \A n \in 1 .. Len(stack) : FrameInv(n),
           DeclSteps \/ OrderSteps
    PROVE  ColorInv'
<1> DEFINE Grey2(o) == color'[o] >= grey
           Goal ==
             /\ \A o \in Obj : Grey2(o) => /\ color'[o] - grey + 1 \in 1 .. Len(stack')
                                           /\ stack'[color'[o] - grey + 1].obj = o
             /\ \A n \in 1 .. Len(stack') :
                   \/ Grey2(stack'[n].obj)
                   \/ Kind(stack'[n].obj) = "func" /\ color'[stack'[n].obj] = black
             /\ \A o \in Obj : color'[o] = black => typ'[o] # "none"
             /\ \A o \in Obj : color'[o] = white /\ typ'[o] # "none" => IsValue(o)
             /\ \A o \in Obj : color'[o] = white => o \in todo'
<1> SUFFICES Goal
  BY SameProgram DEF ColorInv, IsValue, Kind, Obj, Place, IsGrey, black, white, grey
<1>0. /\ Len(stack) \in Nat /\ Len(stack') \in Nat /\ Len(objPath) = Len(stack)
      /\ \A k \in 1 .. Len(stack) : stack[k] \in FrameType /\ stack[k].obj \in Obj
      /\ color \in [Obj -> Nat] /\ typ \in [Obj -> {"none", "ok", "invalid"}]
  <2>1. \A k \in 1 .. Len(stack) : stack[k] \in FrameType
    BY ElementOfSeq DEF VarTypes
  <2> QED
    BY <2>1 DEF VarTypes, StackInv, FrameType
<1>1. ASSUME NEW o \in Obj, Begins(o) PROVE Goal
  <2>1. /\ Len(stack') = Len(stack) + 1
        /\ \A n \in 1 .. Len(stack) : stack'[n].obj = stack[n].obj
        /\ stack'[Len(stack) + 1].obj = o
    BY <1>1, FrameIs DEF Begins, Pushed
  <2>2. /\ color' = [color EXCEPT ![o] = IF Kind(o) = "func" THEN black ELSE grey + Len(stack)]
        /\ typ' = IF IsValue(o) THEN typ ELSE [typ EXCEPT ![o] = "ok"]
        /\ color[o] = white /\ \A q \in todo : q # o => q \in todo'
    BY <1>0, <1>1 DEF Begins, White
  <2>3. \A q \in Obj : q # o => color'[q] = color[q] /\ typ'[q] = typ[q]
    BY <1>0, <2>2
  <2>4. color'[o] = IF Kind(o) = "func" THEN black ELSE grey + Len(stack)
    BY <1>0, <2>2
  <2>5. \A n \in 1 .. Len(stack) : stack[n].obj # o
    BY <2>2 DEF ColorInv, IsGrey, white, black, grey
  <2>6. \A q \in Obj : Grey2(q) => /\ color'[q] - grey + 1 \in 1 .. Len(stack')
                                   /\ stack'[color'[q] - grey + 1].obj = q
    <3> SUFFICES ASSUME NEW q \in Obj, Grey2(q)
                 PROVE  color'[q] - grey + 1 \in 1 .. Len(stack') /\ stack'[color'[q] - grey + 1].obj = q
      OBVIOUS
    <3>1. CASE q = o
      BY <1>0, <2>1, <2>4, <3>1 DEF grey, black
    <3>2. CASE q # o
      BY <1>0, <2>1, <2>3, <3>2 DEF ColorInv, IsGrey, Place, grey
    <3> QED
      BY <3>1, <3>2
  <2>7. \A n \in 1 .. Len(stack') : \/ Grey2(stack'[n].obj)
                                    \/ Kind(stack'[n].obj) = "func" /\ color'[stack'[n].obj] = black
    <3> SUFFICES ASSUME NEW n \in 1 .. Len(stack')
                 PROVE  \/ Grey2(stack'[n].obj)
                        \/ Kind(stack'[n].obj) = "func" /\ color'[stack'[n].obj] = black
      OBVIOUS
    <3>1. CASE n = Len(stack) + 1
      BY <1>0, <2>1, <2>4, <3>1 DEF grey
    <3>2. CASE n # Len(stack) + 1
      <4>1. n \in 1 .. Len(stack)
        BY <1>0, <2>1, <3>2
      <4> QED
        BY <1>0, <2>1, <2>3, <2>5, <4>1 DEF ColorInv, IsGrey
    <3> QED
      BY <3>1, <3>2
  <2>8. \A q \in Obj : color'[q] = black => typ'[q] # "none"
    <3>1. color'[o] = black => typ'[o] # "none"
      BY <1>0, <2>2, <2>4 DEF IsValue, black, grey
    <3> QED
      BY <2>3, <3>1 DEF ColorInv
  <2>9. color'[o] # white
    BY <1>0, <2>4 DEF white, grey, black
  <2>10. \A q \in Obj : color'[q] = white => q # o /\ color[q] = white /\ typ'[q] = typ[q]
    BY <2>3, <2>9
  <2>11. \A q \in Obj : color'[q] = white => q \in todo'
    BY <2>2, <2>10 DEF ColorInv
  <2>12. \A q \in Obj : color'[q] = white /\ typ'[q] # "none" => IsValue(q)
    BY <2>10 DEF ColorInv
  <2> QED
    BY <2>6, <2>7, <2>8, <2>11, <2>12
<1>2. ASSUME NEW o \in Obj, Passes(o) PROVE Goal
  <2>1. /\ color' = [color EXCEPT ![o] = black] /\ stack' = stack /\ typ' = typ
        /\ stack = <<>> /\ color[o] \in {white, black} /\ todo' = todo \ {o}
    BY <1>2 DEF Passes
  <2>2. typ[o] # "none"
    BY <1>2 DEF Passes, ColorInv
  <2>3. \A q \in Obj : q # o => color'[q] = color[q]
    BY <1>0, <2>1
  <2>4. color'[o] = black
    BY <1>0, <2>1
  <2>5. \A q \in Obj : ~Grey2(q)
    BY <1>0, <2>1, <2>3, <2>4 DEF ColorInv, IsGrey, grey, black
  <2>6. \A q \in Obj : color'[q] = black => typ'[q] # "none"
    BY <2>1, <2>2, <2>3 DEF ColorInv
  <2>7. \A q \in Obj : color'[q] = white => q # o /\ color[q] = white
    BY <2>3, <2>4 DEF white, black
  <2> QED
    BY <1>0, <2>1, <2>5, <2>6, <2>7 DEF ColorInv
<1>3. ASSUME color' = color, todo' = todo, Len(stack') = Len(stack),
             \A n \in 1 .. Len(stack) : stack'[n].obj = stack[n].obj,
             \A o \in Obj : typ'[o] # typ[o] => IsValue(o) \/ color[o] # white
      PROVE  Goal
  <2>1. \A o \in Obj : color'[o] = black => typ'[o] # "none"
    BY <1>3, TypedStays DEF ColorInv
  <2>2. \A o \in Obj : color'[o] = white /\ typ'[o] # "none" => IsValue(o)
    BY <1>3 DEF ColorInv
  <2> QED
    BY <1>0, <1>3, <2>1, <2>2 DEF ColorInv, IsGrey, Place
<1>4. ASSUME NEW o \in Obj, Looks(o) PROVE Goal
  BY <1>3, <1>4 DEF Looks, Waits, Moved
<1>5. ASSUME NEW o \in Obj, Cycles(o) PROVE Goal
  <2>1. \A q \in Obj : typ'[q] # typ[q] => color[q] # white
    BY <1>0, <1>5 DEF Cycles, Grey, IsGrey, white, grey
  <2> QED
    BY <1>3, <1>5, <2>1 DEF Cycles, Grey, Waits, Moved
<1>6. CASE Depends \/ SignatureEnds
  BY <1>3, <1>6 DEF Depends, IdentReturns, SignatureEnds, SignatureDone, Moved
<1>7. CASE TypeEnds \/ InitEnds
  <2>1. /\ Top = LastCall /\ LastCall.obj \in Obj /\ IsValue(LastCall.obj)
    <3>1. stack # <<>> /\ Top = LastCall /\ LastCall.obj \in Obj
      BY <1>7, StageEnds DEF TypeEnds, TypeDone, InitEnds, InitDone
    <3>2. FrameInv(Len(stack))
      BY <3>1, LastCallIs
    <3>3. InitEnds => LastCall.stage = "init"
      BY DEF InitEnds
    <3>4. IsValue(LastCall.obj)
      BY <1>7, <3>1, <3>2, <3>3 DEF TypeEnds, TypeDone, FrameInv, LastCall
    <3> QED
      BY <3>1, <3>4
  <2>2. \A q \in Siblings(LastCall.obj) : IsValue(q)
    <3>1. \A q \in Siblings(LastCall.obj) : prog[q] = prog[LastCall.obj]
      BY <2>1, SiblingsAre DEF Siblings, VarTypes
    <3> QED
      BY <2>1, <3>1 DEF IsValue, Kind
  <2>3. \A q \in Obj : typ'[q] # typ[q] => q = LastCall.obj \/ q \in Siblings(LastCall.obj)
    BY <1>0, <1>7, <2>1 DEF TypeEnds, TypeDone, InitEnds, InitDone
  <2>4. color' = color /\ todo' = todo
    BY <1>7 DEF TypeEnds, TypeDone, InitEnds, InitDone
  <2>5. Len(stack') = Len(stack) /\ \A n \in 1 .. Len(stack) : stack'[n].obj = stack[n].obj
    BY <1>7 DEF TypeEnds, InitEnds, Moved
  <2> QED
    BY <1>3, <2>1, <2>2, <2>3, <2>4, <2>5
<1>8. CASE Returns
  <2>1. /\ Len(stack') = Len(stack) - 1 /\ Len(stack) >= 1
        /\ \A n \in 1 .. Len(stack) - 1 : stack'[n] = stack[n]
        /\ color' = [color EXCEPT ![LastCall.obj] = black] /\ typ' = typ /\ todo' = todo
        /\ Len(stack) \in 1 .. Len(stack) /\ LastCall.obj \in Obj /\ LastCall.stage = "end"
    <3>1. /\ stack # <<>> /\ LastCall.obj \in Obj /\ Len(stack) \in 1 .. Len(stack)
      BY <1>8, StageEnds, LastCallIs DEF Returns, Return
    <3> QED
      BY <3>1, <1>8 DEF Returns, Return
  <2>2. color'[LastCall.obj] = black /\ \A q \in Obj : q # LastCall.obj => color'[q] = color[q]
    BY <1>0, <2>1
  <2>3. typ[LastCall.obj] # "none"
    BY <2>1 DEF FrameInv, LastCall
  <2>4. \A n \in 1 .. Len(stack') : /\ n \in 1 .. Len(stack) /\ stack'[n] = stack[n]
                                    /\ stack[n].obj # LastCall.obj
    BY <1>0, <2>1 DEF StackInv, LastCall
  <2>5. \A q \in Obj : Grey2(q) => /\ color'[q] - grey + 1 \in 1 .. Len(stack')
                                   /\ stack'[color'[q] - grey + 1].obj = q
    <3> SUFFICES ASSUME NEW q \in Obj, Grey2(q)
                 PROVE  color'[q] - grey + 1 \in 1 .. Len(stack') /\ stack'[color'[q] - grey + 1].obj = q
      OBVIOUS
    <3>1. q # LastCall.obj /\ color'[q] = color[q]
      BY <2>2 DEF grey, black
    <3>2. color[q] - grey + 1 \in 1 .. Len(stack) /\ stack[color[q] - grey + 1].obj = q
      BY <3>1 DEF ColorInv, IsGrey, Place
    <3>3. color[q] - grey + 1 # Len(stack)
      BY <3>1, <3>2 DEF LastCall
    <3> QED
      BY <1>0, <2>1, <3>1, <3>2, <3>3 DEF grey
  <2>6. \A n \in 1 .. Len(stack') : \/ Grey2(stack'[n].obj)
                                    \/ Kind(stack'[n].obj) = "func" /\ color'[stack'[n].obj] = black
    BY <1>0, <2>2, <2>4 DEF ColorInv, IsGrey
  <2>7. \A q \in Obj : color'[q] = black => typ'[q] # "none"
    BY <2>1, <2>2, <2>3 DEF ColorInv
  <2>8. \A q \in Obj : color'[q] = white => color[q] = white /\ q # LastCall.obj
    BY <2>2 DEF white, black
  <2>9. \A q \in Obj : color'[q] = white => q \in todo'
    BY <2>1, <2>8 DEF ColorInv
  <2>10. \A q \in Obj : color'[q] = white /\ typ'[q] # "none" => IsValue(q)
    BY <2>1, <2>8 DEF ColorInv
  <2> QED
    BY <2>5, <2>6, <2>7, <2>9, <2>10
<1>9. CASE StartDelayed \/ FuncBody \/ OrderSteps
  BY <1>3, <1>9 DEF StartDelayed, FuncBody, OrderSteps, declVars, VarTypes
<1> QED
  BY <1>1, <1>2, <1>4, <1>5, <1>6, <1>7, <1>8, <1>9 DEF DeclSteps

-----------------------------------------------------------------------------
(***************************************************************************)
(* Dependencies are those of the text of the declaration.                  *)
(***************************************************************************)

\* What is pending when a body is delayed.
LEMMA DelaysPending ==
    ASSUME VarTypes, NEW l \in Obj, NEW S \in SUBSET Obj,
           delayed' = Append(delayed, [decl |-> l, refs |-> S])
    PROVE  /\ Range(delayed') = Range(delayed) \cup {[decl |-> l, refs |-> S]}
           /\ S \subseteq Bodies(delayed', l)
           /\ \A k \in Obj : Pending(k) \subseteq Bodies(delayed', k)
<1>1. Range(delayed') = Range(delayed) \cup {[decl |-> l, refs |-> S]}
  BY Delays
<1>2. PICK a : a = [decl |-> l, refs |-> S]
  OBVIOUS
<1>3. a.decl = l /\ a.refs = S /\ a \in Range(delayed')
  BY <1>1, <1>2
<1> QED
  BY <1>1, <1>3 DEF Pending, Bodies

\* The declaration that the last call collects dependencies for.
LEMMA Environment ==
    ASSUME VarTypes, StackInv, stack # <<>>
    PROVE  /\ LastCall.obj \in Obj
           /\ decl = IF IsValue(LastCall.obj) THEN prog[LastCall.obj].lhs ELSE NoDecl
           /\ prog[LastCall.obj].lhs \in Obj
           /\ prog[prog[LastCall.obj].lhs] = prog[LastCall.obj]
<1>1. LastCall.obj \in Obj
  BY LastCallIs DEF FrameType
<1> QED
  BY <1>1, Program DEF StackInv, DeclOf, VarTypes, LastCall

\* Only references of the text are collected, and none is lost.
LEMMA Collecting ==
    ASSUME VarTypes, VarTypes', StackInv, \A n \in 1 .. Len(stack) : FrameInv(n), DepsInv,
           DeclSteps \/ OrderSteps
    PROVE  /\ \A o \in Obj : deps'[o] \subseteq Refs(o) /\ deps[o] \subseteq deps'[o]
           /\ \A a \in Range(delayed') : ~IsType(a.decl) /\ a.refs \subseteq prog[a.decl].body
           /\ \A l \in Obj : \A r \in Pending(l) : IsType(r) \/ r \in deps'[l] \cup Bodies(delayed', l)
<1> DEFINE Goal ==
           /\ \A o \in Obj : deps'[o] \subseteq Refs(o) /\ deps[o] \subseteq deps'[o]
           /\ \A a \in Range(delayed') : ~IsType(a.decl) /\ a.refs \subseteq prog[a.decl].body
           /\ \A l \in Obj : \A r \in Pending(l) : IsType(r) \/ r \in deps'[l] \cup Bodies(delayed', l)
<1> SUFFICES Goal
  OBVIOUS
<1>0. deps \in [Obj -> SUBSET Obj] /\ \A o \in Obj : deps[o] \subseteq Refs(o)
  BY DEF VarTypes, DepsInv
<1>1. ASSUME deps' = deps, delayed' = delayed PROVE Goal
  BY <1>1 DEF DepsInv, Pending, Bodies
<1>2. CASE \/ \E o \in Obj : Begins(o) \/ Passes(o) \/ Looks(o) \/ Cycles(o)
           \/ Returns \/ InitEnds \/ StartDelayed \/ OrderSteps
  BY <1>1, <1>2 DEF Begins, Passes, Looks, Cycles, Rest, Returns, Return, InitEnds, InitDone,
                    StartDelayed, OrderSteps, declVars
<1>3. CASE Depends
  <2>1. /\ stack # <<>> /\ Top = LastCall /\ LastCall.wait \in Obj /\ delayed' = delayed
        /\ deps' = IF decl = NoDecl \/ IsType(LastCall.wait) THEN deps
                   ELSE [deps EXCEPT ![decl] = @ \cup {LastCall.wait}]
    BY <1>3, LastCallIs DEF Depends, IdentReturns
  <2>2. CASE decl = NoDecl \/ IsType(LastCall.wait)
    BY <1>1, <2>1, <2>2
  <2>3. CASE ~(decl = NoDecl \/ IsType(LastCall.wait))
    <3>1. /\ decl = prog[LastCall.obj].lhs /\ decl \in Obj /\ IsValue(LastCall.obj)
          /\ LastCall.obj \in Obj /\ prog[decl] = prog[LastCall.obj]
      BY <2>1, <2>3, Environment
    <3>2. LastCall.wait \in StageRefs(LastCall.obj, LastCall.stage)
      <4>1. FrameInv(Len(stack))
        BY <2>1, LastCallIs
      <4>2. LastCall.wait # NoDecl
        BY <2>1, Program DEF VarTypes
      <4> QED
        BY <4>1, <4>2 DEF FrameInv, LastCall
    <3>3. \A r \in prog[LastCall.obj].type : IsType(r)
      BY <3>1, Program DEF VarTypes, IsType, IsValue
    <3>4. LastCall.wait \in prog[LastCall.obj].init
      BY <2>3, <3>2, <3>3 DEF StageRefs
    <3>5. LastCall.wait \in Refs(decl)
      BY <2>3, <3>1, <3>4 DEF Refs, IsType, IsValue, Kind
    <3>6. /\ \A o \in Obj : o # decl => deps'[o] = deps[o]
          /\ deps'[decl] = deps[decl] \cup {LastCall.wait}
      BY <1>0, <2>1, <2>3, <3>1
    <3>7. \A o \in Obj : deps'[o] \subseteq Refs(o) /\ deps[o] \subseteq deps'[o]
      BY <1>0, <3>5, <3>6
    <3> QED
      BY <2>1, <3>7 DEF DepsInv, Pending, Bodies
  <2> QED
    BY <2>2, <2>3
<1>4. ASSUME NEW l \in Obj, ~IsType(l), NEW S \in SUBSET Obj, S \subseteq prog[l].body, deps' = deps,
             delayed' = Append(delayed, [decl |-> l, refs |-> S])
      PROVE  Goal
  <2>1. /\ Range(delayed') = Range(delayed) \cup {[decl |-> l, refs |-> S]}
        /\ \A k \in Obj : Pending(k) \subseteq Bodies(delayed', k)
    BY <1>4, DelaysPending
  <2>2. PICK a : a = [decl |-> l, refs |-> S]
    OBVIOUS
  <2>3. a.decl = l /\ a.refs = S /\ Range(delayed') = Range(delayed) \cup {a}
    BY <2>1, <2>2
  <2> QED
    BY <1>0, <1>4, <2>1, <2>3 DEF DepsInv
<1>5. CASE TypeEnds
  <2>1. /\ stack # <<>> /\ Top = LastCall /\ IsValue(LastCall.obj) /\ deps' = deps
        /\ \/ delayed' = delayed
           \/ delayed' = Append(delayed, [decl |-> decl, refs |-> prog[LastCall.obj].body])
    BY <1>5, StageEnds DEF TypeEnds, TypeDone, Later
  <2>2. /\ decl \in Obj /\ prog[decl] = prog[LastCall.obj] /\ LastCall.obj \in Obj
    BY <2>1, Environment
  <2>3. ~IsType(decl) /\ prog[LastCall.obj].body \subseteq Obj
    BY <2>1, <2>2, Program DEF IsType, IsValue, Kind, VarTypes
  <2> QED
    BY <1>1, <1>4, <2>1, <2>2, <2>3
<1>6. CASE SignatureEnds
  <2>1. /\ stack # <<>> /\ Top = LastCall /\ LastCall.obj \in Obj /\ deps' = deps
        /\ \/ delayed' = delayed
           \/ /\ Kind(LastCall.obj) = "func"
              /\ delayed' = Append(delayed, [decl |-> LastCall.obj, refs |-> prog[LastCall.obj].body])
    BY <1>6, StageEnds DEF SignatureEnds, SignatureDone, Later
  <2>2. prog[LastCall.obj].body \subseteq Obj
    BY <2>1, Program DEF VarTypes
  <2> QED
    BY <1>1, <1>4, <2>1, <2>2 DEF IsType
<1>7. CASE FuncBody
  <2>1. /\ delayed \in Seq(DelayedType) /\ delayed # <<>> /\ delayed' = Tail(delayed)
    BY <1>7 DEF FuncBody, VarTypes
  <2>2. PICK a : a = Head(delayed)
    OBVIOUS
  <2>3. /\ a \in DelayedType /\ Range(delayed) = {a} \cup Range(delayed')
    BY <2>1, <2>2, HeadRange
  <2>4. a.decl \in Obj /\ a.refs \subseteq Obj /\ a.decl # NoDecl
    <3>1. a.decl \in Obj /\ a.refs \subseteq Obj
      BY <2>3 DEF DelayedType
    <3> QED
      BY <3>1, Program DEF VarTypes
  <2>5. ~IsType(a.decl) /\ a.refs \subseteq prog[a.decl].body
    BY <2>3 DEF DepsInv
  <2>6. deps' = [deps EXCEPT ![a.decl] = @ \cup {r \in a.refs : ~IsType(r)}]
    BY <1>7, <2>2, <2>4 DEF FuncBody
  <2>7. /\ \A o \in Obj : o # a.decl => deps'[o] = deps[o]
        /\ deps'[a.decl] = deps[a.decl] \cup {r \in a.refs : ~IsType(r)}
    BY <1>0, <2>4, <2>6
  <2>8. {r \in a.refs : ~IsType(r)} \subseteq Refs(a.decl)
    BY <2>5 DEF Refs
  <2>9. \A o \in Obj : deps'[o] \subseteq Refs(o) /\ deps[o] \subseteq deps'[o]
    BY <1>0, <2>7, <2>8
  <2>10. ASSUME NEW l \in Obj, NEW r \in Pending(l), ~IsType(r)
         PROVE  r \in deps'[l] \cup Bodies(delayed', l)
    <3>1. PICK b \in Range(delayed) : b.decl = l /\ r \in b.refs
      BY <2>10 DEF Pending, Bodies
    <3>2. CASE b = a
      BY <2>7, <2>10, <3>1, <3>2
    <3>3. CASE b # a
      BY <2>3, <3>1, <3>3 DEF Pending, Bodies
    <3> QED
      BY <3>2, <3>3
  <2> QED
    BY <2>3, <2>9, <2>10 DEF DepsInv
<1> QED
  BY <1>2, <1>3, <1>5, <1>6, <1>7 DEF DeclSteps

\* An object that is invalid stays so, unless it is the one whose type has just been checked.
LEMMA InvalidStays ==
    ASSUME VarTypes, DeclSteps \/ OrderSteps, NEW l \in Obj, Kind(l) = "const", typ[l] = "invalid",
           ~(TypeEnds /\ l = LastCall.obj)
    PROVE  typ'[l] = "invalid"
<1>0. IsValue(l) /\ typ \in [Obj -> {"none", "ok", "invalid"}]
  BY DEF IsValue, VarTypes
<1>1. ASSUME NEW r \in Obj, Begins(r) PROVE typ'[l] = "invalid"
  BY <1>0, <1>1 DEF Begins, White
<1>2. ASSUME NEW r \in Obj, Passes(r) \/ Looks(r) PROVE typ'[l] = "invalid"
  BY <1>2 DEF Passes, Looks
<1>3. ASSUME NEW r \in Obj, Cycles(r) PROVE typ'[l] = "invalid"
  BY <1>0, <1>3 DEF Cycles, Grey
<1>4. CASE Depends \/ SignatureEnds \/ Returns
  BY <1>4 DEF Depends, IdentReturns, SignatureEnds, SignatureDone, Returns, Return
<1>5. CASE TypeEnds
  <2>1. Top = LastCall /\ LastCall.obj \in Obj
    BY <1>5, StageEnds DEF TypeEnds, TypeDone
  <2>2. ASSUME l \in Siblings(LastCall.obj) PROVE FALSE
    <3>1. prog[l] = prog[LastCall.obj]
      BY <2>1, <2>2, SiblingsAre DEF Siblings, VarTypes
    <3>2. Kind(LastCall.obj) = "const"
      BY <3>1 DEF Kind
    <3>3. prog[l].lhs = l /\ prog[LastCall.obj].lhs = LastCall.obj
      BY <2>1, <3>2, Program DEF VarTypes
    <3> QED
      BY <1>5, <3>1, <3>3
  <2> QED
    BY <1>5, <2>1, <2>2 DEF TypeEnds, TypeDone
<1>6. CASE InitEnds
  BY <1>6 DEF InitEnds, InitDone
<1>7. CASE StartDelayed \/ FuncBody \/ OrderSteps
  BY <1>7 DEF StartDelayed, FuncBody, OrderSteps, declVars
<1> QED
  BY <1>1, <1>2, <1>3, <1>4, <1>5, <1>6, <1>7 DEF DeclSteps

\* What has been declared has its dependencies.
LEMMA DepsStep ==
    ASSUME VarTypes, VarTypes', StackInv, \A n \in 1 .. Len(stack) : FrameInv(n), ColorInv, DepsInv,
           DeclSteps \/ OrderSteps
    PROVE  DepsInv'
<1> DEFINE Cov(l) == \/ Refs(l) \subseteq deps'[l] \cup Bodies(delayed', l)
                     \/ Kind(l) = "const" /\ typ'[l] = "invalid" /\ Reported'
           Dec(l) == \E n \in 1 .. Len(stack') : prog[stack'[n].obj].lhs = l
           Col(n) ==
              LET fr == stack'[n]
                  l == prog[fr.obj].lhs
              IN  /\ fr.stage = "init" =>
                        /\ NonTypes(prog[l].init) \subseteq deps'[l] \cup fr.refs \cup {fr.wait}
                        /\ NonTypes(prog[l].body) \subseteq deps'[l] \cup Bodies(delayed', l)
                  /\ fr.stage = "end" => Cov(l)
           Goal ==
              /\ \A n \in 1 .. Len(stack') : Col(n)
              /\ \A o \in Obj : color'[o] # white \/ typ'[o] # "none" =>
                                  Dec(prog[o].lhs) \/ Cov(prog[o].lhs)
           Gives(l) == TypeEnds /\ l = LastCall.obj /\ Kind(l) = "const"
<1>a. /\ \A o \in Obj : deps'[o] \subseteq Refs(o) /\ deps[o] \subseteq deps'[o]
      /\ \A a \in Range(delayed') : ~IsType(a.decl) /\ a.refs \subseteq prog[a.decl].body
      /\ \A l \in Obj : \A r \in Pending(l) : IsType(r) \/ r \in deps'[l] \cup Bodies(delayed', l)
  BY Collecting
<1> SUFFICES Goal
  <2>2. prog' = prog
    BY SameProgram
  <2>3. ASSUME Goal, NEW n \in 1 .. Len(stack') PROVE Collects(n)'
    <3>1. Col(n)
      BY <2>3
    <3> HIDE DEF Goal
    <3> QED
      BY <2>2, <3>1 DEF Collects, Covered, Refs, NonTypes, IsType, Kind, Pending
  <2>4. ASSUME Goal PROVE \A o \in Obj' : color'[o] # white \/ typ'[o] # "none" =>
                                Declaring(prog[o].lhs)' \/ Covered(prog[o].lhs)'
    BY <2>2, <2>4 DEF Covered, Declaring, Refs, IsType, Kind, Obj, Pending
  <2>5. \A o \in Obj' : deps'[o] \subseteq Refs(o)'
    BY <1>a, <2>2 DEF Refs, IsType, Kind, Obj
  <2>6. \A a \in Range(delayed') : ~IsType(a.decl)' /\ a.refs \subseteq prog'[a.decl].body
    BY <1>a, <2>2 DEF IsType, Kind
  <2> QED
    BY <2>3, <2>4, <2>5, <2>6 DEF DepsInv, white
<1>0. /\ Len(stack) \in Nat /\ Len(stack') \in Nat
      /\ \A k \in 1 .. Len(stack) : stack[k] \in FrameType /\ stack[k].obj \in Obj
      /\ color \in [Obj -> Nat] /\ typ \in [Obj -> {"none", "ok", "invalid"}]
      /\ \A o \in Obj : prog[o].lhs \in Obj
  <2>1. \A k \in 1 .. Len(stack) : stack[k] \in FrameType
    BY ElementOfSeq DEF VarTypes
  <2>2. \A o \in Obj : prog[o].lhs \in Obj
    BY Program DEF VarTypes
  <2> QED
    BY <2>1, <2>2 DEF VarTypes, FrameType
<1>b. ASSUME NEW l \in Obj, NEW S, \A r \in S : ~IsType(r), S \subseteq deps[l] \cup Pending(l)
      PROVE  S \subseteq deps'[l] \cup Bodies(delayed', l)
  BY <1>a, <1>b
<1>c. ASSUME NEW l \in Obj, Covered(l), ~(TypeEnds /\ l = LastCall.obj /\ Kind(l) = "const") PROVE Cov(l)
  <2>1. CASE Refs(l) \subseteq deps[l] \cup Pending(l)
    BY <1>b, <2>1 DEF Refs
  <2>2. CASE Kind(l) = "const" /\ typ[l] = "invalid" /\ Reported
    BY <1>c, <2>2, InvalidStays, ReportedStays
  <2> QED
    BY <1>c, <2>1, <2>2 DEF Covered
<1>d. ASSUME NEW n \in 1 .. Len(stack), n \in 1 .. Len(stack'),
             stack'[n].obj = stack[n].obj, stack'[n].stage = stack[n].stage,
             stack[n].stage = "init" =>
                \A r \in stack[n].refs \cup {stack[n].wait} :
                    r = NoDecl \/ IsType(r) \/ r \in deps'[prog[stack[n].obj].lhs] \cup stack'[n].refs \cup {stack'[n].wait},
             ~Gives(prog[stack[n].obj].lhs)
      PROVE  Col(n)
  <2> HIDE DEF Cov, Gives
  <2>1. PICK l \in Obj : l = prog[stack[n].obj].lhs
    BY <1>0
  <2>0. \A k \in Obj : Covered(k) /\ ~Gives(k) => Cov(k)
    BY <1>c DEF Gives
  <2>2. stack[n].stage = "end" => Cov(l)
    BY <2>0, <1>d, <2>1 DEF DepsInv, Collects
  <2>3. ASSUME stack[n].stage = "init" PROVE NonTypes(prog[l].body) \subseteq deps'[l] \cup Bodies(delayed', l)
    <3>1. NonTypes(prog[l].body) \subseteq deps[l] \cup Pending(l)
      BY <2>1, <2>3 DEF DepsInv, Collects
    <3> QED
      BY <3>1, <1>b DEF NonTypes
  <2>4. ASSUME stack[n].stage = "init"
        PROVE  NonTypes(prog[l].init) \subseteq deps'[l] \cup stack'[n].refs \cup {stack'[n].wait}
    <3>1. NonTypes(prog[l].init) \subseteq deps[l] \cup stack[n].refs \cup {stack[n].wait}
      BY <2>1, <2>4 DEF DepsInv, Collects
    <3>2. NoDecl \notin NonTypes(prog[l].init)
      BY Program DEF VarTypes, NonTypes
    <3> QED
      BY <1>a, <1>d, <2>1, <2>4, <3>1, <3>2 DEF NonTypes
  <2> QED
    BY <1>d, <2>1, <2>2, <2>3, <2>4
<1>e. ASSUME \A n \in 1 .. Len(stack) : Dec(prog[stack[n].obj].lhs) \/ Cov(prog[stack[n].obj].lhs),
             \A o \in Obj : color'[o] # white \/ typ'[o] # "none" =>
                               color[o] # white \/ typ[o] # "none" \/ Dec(prog[o].lhs)
      PROVE  \A o \in Obj : color'[o] # white \/ typ'[o] # "none" =>
                               Dec(prog[o].lhs) \/ Cov(prog[o].lhs)
  <2> HIDE DEF Cov, Dec, Gives
  <2> SUFFICES ASSUME NEW o \in Obj, color'[o] # white \/ typ'[o] # "none", ~Dec(prog[o].lhs)
               PROVE  Cov(prog[o].lhs)
    OBVIOUS
  <2>0. \A k \in Obj : Covered(k) /\ ~Gives(k) => Cov(k)
    BY <1>c DEF Gives
  <2>1. Declaring(prog[o].lhs) \/ Covered(prog[o].lhs)
    BY <1>e DEF DepsInv
  <2>2. CASE Declaring(prog[o].lhs)
    BY <1>e, <2>2 DEF Declaring
  <2>3. CASE Covered(prog[o].lhs)
    <3>1. CASE ~Gives(prog[o].lhs)
      BY <1>0, <2>0, <2>3, <3>1
    <3>2. CASE Gives(prog[o].lhs)
      <4>1. stack # <<>> /\ LastCall.obj \in Obj /\ Len(stack) \in 1 .. Len(stack) /\ TypeEnds
            /\ LastCall.obj = prog[o].lhs
        BY <3>2, StageEnds, LastCallIs DEF TypeEnds, TypeDone, Gives
      <4>2. prog[LastCall.obj].lhs = LastCall.obj
        BY <3>2, <4>1, Program DEF VarTypes, Gives
      <4> QED
        BY <1>e, <4>1, <4>2 DEF LastCall
    <3> QED
      BY <3>1, <3>2
  <2> QED
    BY <2>1, <2>2, <2>3
<1> HIDE DEF Cov, Dec, Col
<1>f. ASSUME ~TypeEnds PROVE \A l : ~Gives(l)
  BY <1>f
<1> HIDE DEF Gives
\* A call that stays is still declaring.
<1>g. ASSUME \A n \in 1 .. Len(stack) : n \in 1 .. Len(stack') /\ stack'[n].obj = stack[n].obj
      PROVE  \A n \in 1 .. Len(stack) : Dec(prog[stack[n].obj].lhs)
  BY <1>g DEF Dec
<1>h. ASSUME NEW n \in 1 .. Len(stack), n \in 1 .. Len(stack'), stack'[n] = stack[n], ~TypeEnds
      PROVE  Col(n)
  BY <1>d, <1>f, <1>h
<1>1. ASSUME NEW o \in Obj, Begins(o) PROVE Goal
  <2>1. Pushed(o) /\ ~TypeEnds
    BY <1>1 DEF Begins, TypeEnds, TypeDone, White, Pushed, Moved
  <2>2. ASSUME NEW n \in 1 .. Len(stack') PROVE Col(n)
    <3>1. CASE n = Len(stack) + 1
      BY <2>1, <3>1, FrameIs DEF Pushed, Col
    <3>2. CASE n = Len(stack)
      <4>1. n \in 1 .. Len(stack) /\ stack[n].wait = NoDecl
        BY <1>0, <1>1, <3>2 DEF Begins, Meets
      <4>2. /\ stack'[n].obj = stack[n].obj /\ stack'[n].stage = stack[n].stage
            /\ stack'[n].refs = stack[n].refs \ {o} /\ stack'[n].wait = o
        BY <2>1, <3>2, <4>1 DEF Pushed
      <4> QED
        BY <1>d, <1>f, <2>1, <4>1, <4>2
    <3>3. CASE n # Len(stack) /\ n # Len(stack) + 1
      <4>1. n \in 1 .. Len(stack) /\ stack'[n] = stack[n]
        BY <1>0, <2>1, <3>3 DEF Pushed
      <4> QED
        BY <1>h, <2>1, <4>1
    <3> QED
      BY <3>1, <3>2, <3>3
  <2>3. Dec(prog[o].lhs)
    <3>1. stack'[Len(stack) + 1] = Frame(o) /\ Len(stack) + 1 \in 1 .. Len(stack')
      BY <1>0, <2>1 DEF Pushed
    <3>2. Frame(o).obj = o
      BY FrameIs
    <3> QED
      BY <3>1, <3>2 DEF Dec
  <2>4. \A q \in Obj : color'[q] # white \/ typ'[q] # "none" =>
                          color[q] # white \/ typ[q] # "none" \/ Dec(prog[q].lhs)
    BY <1>0, <1>1, <2>3 DEF Begins, White
  <2>5. \A n \in 1 .. Len(stack) : Dec(prog[stack[n].obj].lhs)
    BY <1>0, <1>g, <2>1 DEF Pushed
  <2> QED
    BY <1>e, <2>2, <2>4, <2>5
\* Steps of the last call.
<1>2. ASSUME Len(stack') = Len(stack), Len(stack) # 0 => Col(Len(stack)),
             \A n \in 1 .. Len(stack) : stack'[n].obj = stack[n].obj,
             \A n \in 1 .. Len(stack) : n # Len(stack) => stack'[n] = stack[n],
             \A l \in Obj : Gives(l) => l = LastCall.obj /\ LastCall.obj = prog[LastCall.obj].lhs /\ Kind(l) = "const",
             \A o \in Obj : color'[o] # white \/ typ'[o] # "none" =>
                               color[o] # white \/ typ[o] # "none" \/ Dec(prog[o].lhs)
      PROVE  Goal
  <2>1. \A n \in 1 .. Len(stack) : Dec(prog[stack[n].obj].lhs)
    BY <1>2, <1>g
  <2>2. ASSUME NEW n \in 1 .. Len(stack') PROVE Col(n)
    <3>1. CASE n = Len(stack)
      BY <1>0, <1>2, <3>1
    <3>2. CASE n # Len(stack)
      <4>1. ~Gives(prog[stack[n].obj].lhs)
        <5> SUFFICES ASSUME Gives(prog[stack[n].obj].lhs) PROVE FALSE
          OBVIOUS
        <5>1. PICK l \in Obj : l = prog[stack[n].obj].lhs
          BY <1>0, <1>2
        <5>2. /\ l = LastCall.obj /\ Kind(l) = "const" /\ stack[n].obj \in Obj
              /\ prog[l] = prog[stack[n].obj]
          BY <1>0, <1>2, <5>1, Program DEF VarTypes
        <5>3. stack[n].obj = l
          BY <5>1, <5>2, Program DEF VarTypes, Kind
        <5> QED
          BY <1>0, <1>2, <3>2, <5>2, <5>3 DEF StackInv, LastCall
      <4> QED
        BY <1>2, <1>d, <3>2, <4>1
    <3> QED
      BY <3>1, <3>2
  <2> QED
    BY <1>2, <1>e, <2>1, <2>2
<1>3. ASSUME NEW r \in Obj, Looks(r) \/ Cycles(r) PROVE Goal
  <2>1. Waits(r) /\ Meets(r) /\ ~TypeEnds /\ Len(stack) \in 1 .. Len(stack)
    <3>1. Waits(r) /\ Meets(r)
      BY <1>3 DEF Looks, Cycles
    <3>2. NoDecl # r
      BY Program DEF VarTypes
    <3>3. Len(stack) \in 1 .. Len(stack)
      BY <1>0, <3>1 DEF Meets
    <3>4. stack'[Len(stack)].wait = r
      BY <3>1 DEF Waits, Moved
    <3>5. TypeEnds => stack'[Len(stack)].wait = NoDecl
      BY DEF TypeEnds, Moved
    <3> QED
      BY <3>1, <3>2, <3>3, <3>4, <3>5
  <2>2. Col(Len(stack))
    BY <1>0, <1>d, <1>f, <2>1 DEF Waits, Moved, Meets
  <2>3. \A q \in Obj : color'[q] # white \/ typ'[q] # "none" => color[q] # white \/ typ[q] # "none"
    BY <1>0, <1>3 DEF Looks, Cycles, Grey, IsGrey, white, grey
  <2> QED
    BY <1>2, <1>f, <2>1, <2>2, <2>3 DEF Waits, Moved
<1>4. CASE Depends
  <2>1. /\ Moved(LastCall.stage, LastCall.refs, NoDecl, LastCall.bad \/ typ[LastCall.wait] = "invalid")
        /\ LastCall.wait \in Obj /\ color' = color /\ typ' = typ /\ stack # <<>> /\ Top = LastCall
        /\ deps' = IF decl = NoDecl \/ IsType(LastCall.wait) THEN deps
                   ELSE [deps EXCEPT ![decl] = @ \cup {LastCall.wait}]
    BY <1>4, LastCallIs DEF Depends, IdentReturns
  <2>2. Len(stack) \in 1 .. Len(stack)
    BY <2>1, LastCallIs
  <2>3. CASE ~TypeEnds
    <3>1. ASSUME LastCall.stage = "init"
          PROVE  IsType(LastCall.wait) \/ LastCall.wait \in deps'[prog[LastCall.obj].lhs]
      <4>1. FrameInv(Len(stack))
        BY <2>2
      <4>2. decl = prog[LastCall.obj].lhs /\ decl \in Obj /\ decl # NoDecl
        <5>1. IsValue(LastCall.obj)
          BY <3>1, <4>1 DEF FrameInv, LastCall
        <5>2. decl = prog[LastCall.obj].lhs /\ decl \in Obj
          BY <2>1, <5>1, Environment
        <5> QED
          BY <5>2, Program DEF VarTypes
      <4> QED
        BY <2>1, <4>2 DEF VarTypes
    <3>2. Col(Len(stack))
      BY <1>0, <1>d, <1>f, <2>1, <2>2, <2>3, <3>1 DEF Moved, LastCall
    <3> QED
      BY <1>2, <1>f, <2>1, <2>3, <3>2 DEF Moved
  <2>4. CASE TypeEnds
    BY <1>4, <2>4, StageEnds DEF TypeEnds, TypeDone, Depends, IdentReturns
  <2> QED
    BY <2>3, <2>4
\* A stage of the declaration of LastCall.obj ends.
<1>5. ASSUME TypeEnds \/ InitEnds \/ SignatureEnds
      PROVE  /\ stack # <<>> /\ Top = LastCall /\ LastCall.obj \in Obj
             /\ Len(stack) \in 1 .. Len(stack) /\ FrameInv(Len(stack)) /\ Collects(Len(stack))
             /\ Len(stack') = Len(stack)
             /\ \A n \in 1 .. Len(stack) : stack'[n].obj = stack[n].obj
             /\ \A n \in 1 .. Len(stack) : n # Len(stack) => stack'[n] = stack[n]
             /\ prog[prog[LastCall.obj].lhs] = prog[LastCall.obj]
             /\ \A q \in Obj : prog[q].lhs = prog[LastCall.obj].lhs => Dec(prog[q].lhs)
             /\ color' = color /\ \A o \in Obj : deps'[o] = deps[o]
  <2>1. stack # <<>> /\ Top = LastCall /\ LastCall.obj \in Obj
    BY <1>5, StageEnds DEF TypeEnds, TypeDone, InitEnds, InitDone, SignatureEnds, SignatureDone
  <2>2. Len(stack) \in 1 .. Len(stack) /\ FrameInv(Len(stack)) /\ Collects(Len(stack))
    BY <2>1, LastCallIs DEF DepsInv
  <2>3. /\ Len(stack') = Len(stack)
        /\ \A n \in 1 .. Len(stack) : stack'[n].obj = stack[n].obj
        /\ \A n \in 1 .. Len(stack) : n # Len(stack) => stack'[n] = stack[n]
    BY <1>5 DEF TypeEnds, InitEnds, SignatureEnds, Moved
  <2>4. prog[prog[LastCall.obj].lhs] = prog[LastCall.obj]
    BY <2>1, Program DEF VarTypes
  <2>5. Dec(prog[LastCall.obj].lhs)
    BY <2>2, <2>3 DEF Dec, LastCall
  <2>6. color' = color /\ deps' = deps
    BY <1>5 DEF TypeEnds, TypeDone, InitEnds, InitDone, SignatureEnds, SignatureDone
  <2> QED
    BY <2>1, <2>2, <2>3, <2>4, <2>5, <2>6
<1>6. CASE TypeEnds
  <2>1. PICK l : l = prog[LastCall.obj].lhs
    OBVIOUS
  <2>2. /\ l \in Obj /\ prog[l] = prog[LastCall.obj] /\ IsValue(LastCall.obj) /\ decl = l
        /\ Kind(l) = Kind(LastCall.obj) /\ LastCall.obj \in Obj
    BY <1>5, <1>6, <2>1, Environment DEF TypeEnds, TypeDone, Kind
  <2>3. stack'[Len(stack)].obj = LastCall.obj
    BY <1>5, <1>6 DEF LastCall
  <2>4. ASSUME Goes(LastCall.obj) PROVE Col(Len(stack))
    <3>1. Moved("init", prog[LastCall.obj].init, NoDecl, FALSE)
      BY <1>6, <2>4 DEF TypeEnds
    <3>2. prog[l].body \subseteq Bodies(delayed', l)
      <4>1. CASE prog[l].body = {}
        BY <4>1
      <4>2. CASE prog[l].body # {}
        <5>1. delayed' = Append(delayed, [decl |-> l, refs |-> prog[l].body])
          BY <1>5, <1>6, <2>2, <2>4, <4>2 DEF TypeEnds, TypeDone, Later, Goes
        <5> QED
          BY <2>2, <5>1, DelaysPending, Program DEF VarTypes
      <4> QED
        BY <4>1, <4>2
    <3> QED
      BY <1>5, <1>6, <2>1, <2>2, <2>3, <3>1, <3>2 DEF Col, Moved, NonTypes
  <2>5. ASSUME ~Goes(LastCall.obj) PROVE Col(Len(stack))
    <3>1. Moved("end", {}, NoDecl, FALSE)
      BY <1>6, <2>5 DEF TypeEnds
    <3>2. Cov(l)
      <4>1. CASE ~prog[LastCall.obj].hasInit
        <5>1. prog[l].init = {} /\ prog[l].body = {}
          BY <2>2, <4>1, Program DEF VarTypes
        <5> QED
          BY <5>1 DEF Cov, Refs
      <4>2. CASE prog[LastCall.obj].hasInit
        <5>1. Kind(LastCall.obj) = "const" /\ LastCall.bad
          BY <2>5, <4>2 DEF Goes
        <5>2. l = LastCall.obj
          BY <2>1, <2>2, <5>1, Program DEF VarTypes
        <5>3. TypeKnown(LastCall.obj)
          BY <1>5, <1>6, <5>1 DEF TypeEnds, TypeKnown, FrameInv, LastCall
        <5>4. typ'[LastCall.obj] = "invalid"
          BY <1>5, <1>6, <5>1, <5>3 DEF TypeEnds, TypeDone, TypeKnown
        <5>5. Reported
          BY <1>5, <1>6, <5>1 DEF TypeEnds, FrameInv, LastCall, IsType
        <5> QED
          BY <5>1, <5>2, <5>4, <5>5, ReportedStays DEF Cov
      <4> QED
        BY <4>1, <4>2
    <3> QED
      BY <1>5, <1>6, <2>1, <2>3, <3>1, <3>2 DEF Col, Moved
  <2>6. \A o \in Obj : typ'[o] # typ[o] => Dec(prog[o].lhs)
    BY <1>0, <1>5, <1>6, <2>2 DEF TypeEnds, TypeDone, Siblings
  <2>7. \A k \in Obj : Gives(k) => k = LastCall.obj /\ LastCall.obj = prog[LastCall.obj].lhs /\ Kind(k) = "const"
    BY <2>2, Program DEF Gives, VarTypes
  <2> QED
    BY <1>2, <1>5, <1>6, <2>4, <2>5, <2>6, <2>7
<1>7. CASE InitEnds
  <2>1. PICK l : l = prog[LastCall.obj].lhs
    OBVIOUS
  <2>2. l \in Obj /\ ~TypeEnds /\ stack'[Len(stack)].obj = LastCall.obj
    BY <1>0, <1>5, <1>7, <2>1 DEF InitEnds, TypeEnds, LastCall
  <2>3. /\ NonTypes(prog[l].init) \subseteq deps[l] \cup {NoDecl}
        /\ NonTypes(prog[l].body) \subseteq deps[l] \cup Pending(l)
    BY <1>5, <1>7, <2>1 DEF InitEnds, Collects, LastCall
  <2>4. NoDecl \notin NonTypes(prog[l].init)
    BY <2>2, Program DEF VarTypes, NonTypes
  <2>5. Refs(l) \subseteq deps[l] \cup Pending(l)
    BY <2>3, <2>4 DEF Refs, NonTypes
  <2>6. Cov(l)
    <3>1. Covered(l)
      BY <2>5 DEF Covered
    <3> QED
      BY <1>c, <2>2, <3>1 DEF Cov
  <2>7. Col(Len(stack))
    BY <1>7, <2>1, <2>2, <2>6, <1>5 DEF InitEnds, Moved, Col
  <2>8. \A o \in Obj : typ'[o] # typ[o] => Dec(prog[o].lhs)
    BY <1>0, <1>5, <1>7 DEF InitEnds, InitDone, Siblings
  <2> QED
    BY <1>2, <1>5, <1>7, <1>f, <2>2, <2>7, <2>8
<1>8. CASE SignatureEnds
  <2>1. PICK l : l = LastCall.obj
    OBVIOUS
  <2>2. /\ l \in Obj /\ ~IsValue(l) /\ stack'[Len(stack)].obj = l /\ prog[l].lhs = l
    <3>1. l \in Obj /\ ~IsValue(l)
      BY <1>5, <1>8, <2>1 DEF SignatureEnds, SignatureDone
    <3>2. prog[l].lhs = l
      BY <3>1, Program DEF VarTypes, IsValue
    <3>3. stack'[Len(stack)].obj = l
      BY <1>5, <1>8, <2>1 DEF LastCall
    <3> QED
      BY <3>1, <3>2, <3>3
  <2>3. Moved("end", {}, NoDecl, LastCall.bad) /\ typ' = typ
    BY <1>8 DEF SignatureEnds, SignatureDone
  <2>4. ~TypeEnds
    BY <1>5, <1>8, <2>1, <2>2 DEF TypeEnds, TypeDone
  <2>5. Cov(l)
    <3>1. CASE Kind(l) = "func"
      <4>1. prog[l].init = {} /\ prog[l].body \subseteq Obj
        BY <2>2, <3>1, Program DEF VarTypes
      <4>2. delayed' = Append(delayed, [decl |-> l, refs |-> prog[l].body])
        BY <1>5, <1>8, <2>1, <3>1 DEF SignatureEnds, SignatureDone, Later
      <4>3. prog[l].body \subseteq Bodies(delayed', l)
        BY <2>2, <4>1, <4>2, DelaysPending
      <4> QED
        BY <4>1, <4>3 DEF Cov, Refs
    <3>2. CASE Kind(l) # "func"
      <4>1. IsType(l)
        BY <2>2, <3>2, Program DEF VarTypes, IsType, IsValue
      <4> QED
        BY <4>1 DEF Cov, Refs
    <3> QED
      BY <3>1, <3>2
  <2>6. Col(Len(stack))
    BY <2>2, <2>3, <2>5, <1>5, <1>8 DEF Moved, Col
  <2> QED
    BY <1>2, <1>5, <1>8, <1>f, <2>3, <2>4, <2>6
<1>9. CASE Returns
  <2>1. /\ ~TypeEnds /\ Len(stack) >= 1 /\ Len(stack') = Len(stack) - 1
        /\ \A n \in 1 .. Len(stack) - 1 : stack'[n] = stack[n]
        /\ LastCall.stage = "end" /\ typ' = typ
        /\ color' = [color EXCEPT ![LastCall.obj] = black]
    BY <1>9 DEF Returns, Return, TypeEnds
  <2>2. Len(stack) \in 1 .. Len(stack) /\ LastCall.obj \in Obj
    BY <1>0, <2>1 DEF LastCall
  <2>3. Cov(prog[LastCall.obj].lhs) /\ typ[LastCall.obj] # "none"
    <3>1. Covered(prog[LastCall.obj].lhs) /\ typ[LastCall.obj] # "none"
      BY <2>1, <2>2 DEF DepsInv, Collects, FrameInv, LastCall
    <3> QED
      BY <1>0, <1>c, <2>1, <2>2, <3>1 DEF Cov
  <2>4. ASSUME NEW n \in 1 .. Len(stack'), n \in 1 .. Len(stack) PROVE Col(n)
    BY <1>h, <2>1, <2>4
  <2>5. ASSUME NEW n \in 1 .. Len(stack) PROVE Dec(prog[stack[n].obj].lhs) \/ Cov(prog[stack[n].obj].lhs)
    <3>1. CASE n = Len(stack)
      BY <2>3, <3>1 DEF LastCall
    <3>2. CASE n # Len(stack)
      <4>1. n \in 1 .. Len(stack') /\ stack'[n] = stack[n]
        BY <1>0, <2>1, <3>2
      <4> QED
        BY <4>1 DEF Dec
    <3> QED
      BY <3>1, <3>2
  <2>6. \A o \in Obj : color'[o] # white \/ typ'[o] # "none" => color[o] # white \/ typ[o] # "none"
    BY <1>0, <2>1, <2>2, <2>3
  <2>7. \A n \in 1 .. Len(stack') : n \in 1 .. Len(stack)
    BY <1>0, <2>1
  <2> QED
    BY <1>e, <2>4, <2>5, <2>6, <2>7
<1>10. CASE (\E o \in Obj : Passes(o)) \/ StartDelayed \/ FuncBody \/ OrderSteps
  <2>1. stack' = stack /\ typ' = typ
    BY <1>10 DEF Passes, StartDelayed, FuncBody, OrderSteps, declVars
  <2>2. \A o \in Obj : color'[o] # white => color[o] # white \/ typ[o] # "none"
    BY <1>0, <1>10 DEF Passes, StartDelayed, FuncBody, OrderSteps, declVars, white, black
  <2>3. CASE ~TypeEnds
    <3>1. \A n \in 1 .. Len(stack) : Col(n)
      BY <1>h, <2>1, <2>3
    <3>2. \A n \in 1 .. Len(stack) : Dec(prog[stack[n].obj].lhs)
      BY <1>g, <2>1
    <3> QED
      BY <1>e, <2>1, <2>2, <3>1, <3>2
  <2>4. CASE TypeEnds
    BY <1>6, <2>4
  <2> QED
    BY <2>3, <2>4
<1> QED
  BY <1>1, <1>3, <1>4, <1>6, <1>7, <1>8, <1>9, <1>10 DEF DeclSteps

-----------------------------------------------------------------------------
(***************************************************************************)
(* The order: the count of a node is that of its dependencies that wait.   *)
(***************************************************************************)

\* The functions in any order: each of them once.
LEMMA AnyOrder ==
    ASSUME NEW S, IsFiniteSet(S), NEW f \in SetToSeqs(S)
    PROVE  f \in Seq(S) /\ Range(f) = S
<1>1. Cardinality(S) \in Nat
  BY FS_CardinalityType
<1>2. PICK k \in Nat : k = Cardinality(S)
  BY <1>1
<1>3. f \in [1 .. k -> S] /\ \A i, j \in 1 .. k : i # j => f[i] # f[j]
  BY <1>2 DEF SetToSeqs
<1>4. f \in Injection(1 .. k, S)
  BY <1>3 DEF Injection, IsInjective
<1>5. Cardinality(1 .. k) = k
  BY FS_Interval
<1>6. f \in Surjection(1 .. k, S)
  BY <1>2, <1>4, <1>5, FS_Injection
<1>7. Range(f) = S
  BY <1>3, <1>6 DEF Surjection, Range
<1>8. f \in Seq(S)
  BY <1>3
<1> QED
  BY <1>7, <1>8

\* The nodes are finitely many.
LEMMA FiniteNodes ==
    ASSUME VarTypes
    PROVE  /\ IsFiniteSet(Nodes) /\ IsFiniteSet(Funcs) /\ Funcs \subseteq Nodes /\ Nodes \subseteq Obj
           /\ \A S : S \subseteq Nodes => IsFiniteSet(S) /\ Cardinality(S) \in Nat
<1>1. IsFiniteSet(Obj)
  BY DEF VarTypes, IsProgram, Obj
<1>2. Nodes \subseteq Obj /\ Funcs \subseteq Nodes
  BY DEF Nodes, Funcs, IsType
<1>3. IsFiniteSet(Nodes)
  BY <1>1, <1>2, FS_Subset
<1>4. \A S : S \subseteq Nodes => IsFiniteSet(S)
  BY <1>3, FS_Subset
<1> QED
  BY <1>2, <1>3, <1>4, FS_CardinalityType

\* Declarations come before the order.
LEMMA DeclsAreFirst ==
    ASSUME VarTypes, DeclSteps
    PROVE  UNCHANGED orderVars /\ phase' \in DeclPhase /\ phase \in DeclPhase
  BY DEF DeclSteps, Begins, Passes, Looks, Cycles, Rest, Depends, IdentReturns, TypeEnds, TypeDone,
         InitEnds, InitDone, SignatureEnds, SignatureDone, Returns, Return, StartDelayed, FuncBody, DeclPhase

\* The invariant of the order.
LEMMA OrderStep ==
    ASSUME VarTypes, VarTypes', OrderInv,
           \/ DeclSteps \/ DependencyGraph \/ RemoveFunc \/ FillQueue \/ PopNode \/ Finish
           \/ UNCHANGED vars
    PROVE  OrderInv'
<1> DEFINE Suc(n) == {s \in Nodes : <<n, s>> \in edges'}
           Goal ==
             /\ edges' \subseteq Nodes \X Nodes
             /\ funcG' \in Seq(Funcs) /\ queue' \subseteq Nodes \ Funcs
             /\ ndeps' \in [Obj -> Int]
             /\ InitOrderOut' \in Seq(Obj) /\ IsInjective(InitOrderOut')
             /\ initErrors' \subseteq Nodes
             /\ phase' = "graph" => \A e \in edges' : \A o \in Funcs :
                                        o \in {e[1], e[2]} => o \in Range(funcG')
             /\ phase' # "order" => queue' = {}
             /\ \A o \in queue' : ndeps'[o] = Cardinality(Suc(o) \cap queue')
<1>0. prog' = prog
  BY SameProgram, OrderStepsAre
<1> SUFFICES Goal
  BY <1>0 DEF OrderInv, Nodes, Funcs, Succ, IsType, Kind, Obj
<1>a. /\ edges \subseteq Nodes \X Nodes
      /\ funcG \in Seq(Funcs) /\ queue \subseteq Nodes \ Funcs
      /\ ndeps \in [Obj -> Int]
      /\ InitOrderOut \in Seq(Obj) /\ IsInjective(InitOrderOut)
      /\ initErrors \subseteq Nodes
      /\ phase = "graph" => \A e \in edges : \A o \in Funcs :
                                 o \in {e[1], e[2]} => o \in Range(funcG)
      /\ phase # "order" => queue = {}
      /\ \A o \in queue : ndeps[o] = Cardinality(Succ(edges, o) \cap queue)
  BY DEF OrderInv
<1>1. CASE DeclSteps
  <2>1. UNCHANGED orderVars /\ phase \in DeclPhase /\ phase' \in DeclPhase
    BY <1>1, DeclsAreFirst
  <2> QED
    BY <1>a, <2>1 DEF orderVars, DeclPhase, Succ
<1>2. CASE DependencyGraph
  <2>1. PICK fs \in SetToSeqs(Funcs) : funcG' = fs
    BY <1>2 DEF DependencyGraph
  <2>2. funcG' \in Seq(Funcs) /\ Range(funcG') = Funcs
    BY <2>1, AnyOrder, FiniteNodes
  <2> QED
    BY <1>2, <1>a, <2>2 DEF DependencyGraph
<1>3. CASE RemoveFunc
  <2>1. PICK f : f = Head(funcG)
    OBVIOUS
  <2>2. Range(funcG) = {f} \cup Range(funcG') /\ funcG' \in Seq(Funcs) /\ f \in Funcs
    BY <1>3, <1>a, <2>1, HeadRange DEF RemoveFunc
  <2>3. edges' = {e \in edges \cup ((Pred(edges, f) \ {f}) \X (Succ(edges, f) \ {f})) : f \notin {e[1], e[2]}}
    BY <1>3, <2>1 DEF RemoveFunc, Without
  <2>4. edges' \subseteq Nodes \X Nodes
    BY <1>a, <2>3 DEF Pred, Succ
  <2>5. ASSUME NEW e \in edges', NEW o \in Funcs, o \in {e[1], e[2]} PROVE o \in Range(funcG')
    <3>1. o # f
      BY <2>3, <2>5
    <3>2. CASE e \in edges
      BY <1>3, <1>a, <2>2, <2>5, <3>1, <3>2 DEF RemoveFunc
    <3>3. CASE e \in (Pred(edges, f) \ {f}) \X (Succ(edges, f) \ {f})
      <4>1. PICK p \in Pred(edges, f), s \in Succ(edges, f) : e = <<p, s>>
        BY <3>3
      <4>2. <<p, f>> \in edges /\ <<f, s>> \in edges /\ o \in {p, s}
        BY <2>5, <4>1 DEF Pred, Succ
      <4>3. o \in Range(funcG)
        BY <1>3, <1>a, <4>2 DEF RemoveFunc
      <4> QED
        BY <2>2, <3>1, <4>3
    <3> QED
      BY <2>3, <3>2, <3>3
  <2> QED
    BY <1>3, <1>a, <2>2, <2>4, <2>5 DEF RemoveFunc
<1>4. CASE FillQueue
  <2>1. \A o \in Nodes : \A s \in Succ(edges, o) : s \in Nodes \ Funcs
    <3> SUFFICES ASSUME NEW o \in Nodes, NEW s \in Succ(edges, o), s \in Funcs PROVE FALSE
      BY DEF Succ
    <3>1. <<o, s>> \in edges
      BY DEF Succ
    <3>2. s \in Range(funcG)
      BY <1>4, <1>a, <3>1 DEF FillQueue
    <3>3. Range(funcG) = {}
      BY <1>4 DEF FillQueue, Range
    <3> QED
      BY <3>2, <3>3
  <2>2. edges' = edges /\ queue' = Nodes \ Funcs
    BY <1>4 DEF FillQueue
  <2>3. \A o \in Nodes : Suc(o) = Succ(edges, o) /\ Suc(o) \cap queue' = Succ(edges, o)
    BY <2>1, <2>2 DEF Succ
  <2>4. \A o \in Nodes : Cardinality(Succ(edges, o)) \in Nat
    <3>1. \A o \in Nodes : Succ(edges, o) \subseteq Nodes
      BY DEF Succ
    <3> QED
      BY <3>1, FiniteNodes
  <2>5. ndeps' = [o \in Obj |-> IF o \in Nodes \ Funcs THEN Cardinality(Succ(edges, o)) ELSE 0]
    BY <1>4 DEF FillQueue
  <2>6. ndeps' \in [Obj -> Int]
    BY <2>4, <2>5
  <2>7. \A o \in queue' : ndeps'[o] = Cardinality(Suc(o) \cap queue')
    BY <2>2, <2>3, <2>5, FiniteNodes
  <2> QED
    BY <1>4, <1>a, <2>2, <2>6, <2>7 DEF FillQueue
<1>5. CASE PopNode
  <2>1. PICK n \in Obj : Pop(n)
    BY <1>5 DEF PopNode
  <2>2. /\ n \in queue /\ queue' = queue \ {n} /\ edges' = edges /\ funcG' = funcG
        /\ phase' = phase /\ phase = "order"
        /\ ndeps' = [o \in Obj |-> IF o \in Pred(edges, n) THEN ndeps[o] - 1 ELSE ndeps[o]]
    BY <2>1 DEF Pop
  <2>3. initErrors' \subseteq Nodes
    BY <1>a, <2>1, <2>2 DEF Pop
  <2>4. InitOrderOut' \in Seq(Obj) /\ IsInjective(InitOrderOut')
    <3>1. PICK l : l = prog[n].lhs
      OBVIOUS
    <3>2. l \in Obj
      BY <3>1, Program DEF VarTypes
    <3>3. \/ InitOrderOut' = InitOrderOut
          \/ InitOrderOut' = Append(InitOrderOut, l) /\ l \notin Range(InitOrderOut)
      BY <2>1, <3>1 DEF Pop
    <3>4. CASE InitOrderOut' = Append(InitOrderOut, l) /\ l \notin Range(InitOrderOut)
      <4>1. PICK k \in Nat : k = Len(InitOrderOut)
        BY <1>a
      <4>2. /\ InitOrderOut' \in Seq(Obj) /\ Len(InitOrderOut') = k + 1
            /\ \A i \in 1 .. k : InitOrderOut'[i] = InitOrderOut[i]
            /\ InitOrderOut'[k + 1] = l
        BY <1>a, <3>2, <3>4, <4>1, AppendProperties
      <4>3. DOMAIN InitOrderOut = 1 .. k /\ DOMAIN InitOrderOut' = 1 .. k + 1
        BY <1>a, <4>1, <4>2, LenProperties
      <4>4. \A i \in 1 .. k : InitOrderOut[i] # l
        BY <3>4, <4>3 DEF Range
      <4>5. ASSUME NEW i \in 1 .. k + 1, NEW j \in 1 .. k + 1, InitOrderOut'[i] = InitOrderOut'[j]
            PROVE  i = j
        <5>1. CASE i \in 1 .. k /\ j \in 1 .. k
          BY <1>a, <4>2, <4>3, <4>5, <5>1 DEF IsInjective
        <5>2. CASE i = k + 1 \/ j = k + 1
          BY <4>2, <4>4, <4>5, <5>2
        <5> QED
          BY <4>1, <5>1, <5>2
      <4> QED
        BY <4>2, <4>3, <4>5 DEF IsInjective
    <3> QED
      BY <1>a, <3>3, <3>4
  <2>5. ndeps' \in [Obj -> Int]
    BY <1>a, <2>2
  <2>6. ASSUME NEW o \in queue' PROVE ndeps'[o] = Cardinality(Suc(o) \cap queue')
    <3>1. o \in queue /\ o \in Nodes /\ o \in Obj
      BY <1>a, <2>2, FiniteNodes
    <3>2. PICK S : S = Succ(edges, o) \cap queue
      OBVIOUS
    <3>3. S \subseteq Nodes /\ IsFiniteSet(S) /\ ndeps[o] = Cardinality(S)
      BY <1>a, <3>1, <3>2, FiniteNodes DEF Succ
    <3>4. Suc(o) \cap queue' = S \ {n}
      BY <2>2, <3>2 DEF Succ
    <3>5. n \in S <=> o \in Pred(edges, n)
      BY <1>a, <2>2, <3>1, <3>2 DEF Succ, Pred
    <3>6. Cardinality(S \ {n}) = IF n \in S THEN Cardinality(S) - 1 ELSE Cardinality(S)
      BY <3>3, FS_RemoveElement
    <3>7. ndeps'[o] = IF o \in Pred(edges, n) THEN ndeps[o] - 1 ELSE ndeps[o]
      BY <2>2, <3>1
    <3> QED
      BY <3>3, <3>4, <3>5, <3>6, <3>7
  <2> QED
    BY <1>a, <2>2, <2>3, <2>4, <2>5, <2>6
<1>6. CASE Finish \/ UNCHANGED vars
  BY <1>6, <1>a DEF Finish, vars, orderVars, Succ
<1> QED
  BY <1>1, <1>2, <1>3, <1>4, <1>5, <1>6

-----------------------------------------------------------------------------
(***************************************************************************)
(* The cycles that are found are cycles of the source.                     *)
(***************************************************************************)

\* Each call is for a reference of the one below it.
LEMMA PathRefers ==
    ASSUME VarTypes, StackInv, \A n \in 1 .. Len(stack) : FrameInv(n),
           NEW n \in 1 .. Len(stack), NEW r \in Obj,
           r \in stack[n].refs \/ r = stack[n].wait
    PROVE  RefersTo(stack[n].obj, r)
<1>1. FrameInv(n) /\ r # NoDecl
  BY Program DEF VarTypes
<1> QED
  BY <1>1 DEF FrameInv, StageRefs, RefersTo

\* The cycle is the end of the path, from r on.
LEMMA CycleIs ==
    ASSUME VarTypes, StackInv, ColorInv, \A n \in 1 .. Len(stack) : FrameInv(n),
           NEW r \in Obj, Cycles(r)
    PROVE  /\ CycleOf(r) \in Seq(Obj) /\ Len(CycleOf(r)) = Len(stack) - Place(r) + 1
           /\ Place(r) \in 1 .. Len(stack) /\ stack[Place(r)].obj = r
           /\ \A i \in 1 .. Len(CycleOf(r)) : /\ Place(r) + i - 1 \in 1 .. Len(stack)
                                              /\ CycleOf(r)[i] = stack[Place(r) + i - 1].obj
           /\ CycleOf(r)[1] = r /\ IsCycle(CycleOf(r))
           /\ DOMAIN CycleOf(r) = 1 .. Len(CycleOf(r))
<1>1. PICK L \in Nat : L = Len(stack)
  BY DEF VarTypes
<1>2. PICK p \in 1 .. L : p = Place(r) /\ stack[p].obj = r
  BY <1>1 DEF Cycles, ColorInv
<1>3. Len(objPath) = L /\ \A n \in 1 .. L : objPath[n] = stack[n].obj /\ objPath[n] \in Obj
  BY <1>1, ElementOfSeq DEF StackInv, VarTypes
<1>4. PICK path : path = SubSeq(objPath, p, L)
  OBVIOUS
<1>5. CycleOf(r) = path
  BY <1>2, <1>3, <1>4 DEF CycleOf, Place
<1>6. /\ path \in Seq(Obj) /\ Len(path) = L - p + 1
      /\ \A i \in 1 .. L - p + 1 : path[i] = objPath[p + i - 1]
  BY <1>1, <1>2, <1>3, <1>4, SubSeqProperties
<1>7. \A i \in 1 .. Len(path) : p + i - 1 \in 1 .. L /\ path[i] = stack[p + i - 1].obj
  BY <1>1, <1>2, <1>3, <1>6
<1>8. path[1] = r /\ 1 \in 1 .. Len(path)
  BY <1>1, <1>2, <1>6, <1>7
<1>9. ASSUME NEW i \in 1 .. Len(path)
      PROVE  RefersTo(path[i], path[IF i = Len(path) THEN 1 ELSE i + 1])
  <2>1. CASE i = Len(path)
    <3>0. p + i - 1 = L /\ L >= 1
      BY <1>1, <1>2, <1>6, <2>1
    <3>1. p + i - 1 = L /\ L \in 1 .. Len(stack) /\ path[i] = stack[L].obj
      <4>1. path[i] = stack[p + i - 1].obj
        BY <1>7
      <4> QED
        BY <1>1, <3>0, <4>1
    <3>2. r \in stack[L].refs
      BY <1>1 DEF Cycles, Meets
    <3> QED
      BY <1>8, <2>1, <3>1, <3>2, PathRefers
  <2>2. CASE i # Len(path)
    <3>1. i + 1 \in 1 .. Len(path) /\ p + i - 1 \in 1 .. L /\ p + (i + 1) - 1 = (p + i - 1) + 1
      BY <1>1, <1>2, <1>6, <2>2
    <3>2. PICK k \in 1 .. L : k = p + i - 1
      BY <3>1
    <3>3. k + 1 \in 1 .. L /\ path[i] = stack[k].obj /\ path[i + 1] = stack[k + 1].obj
      BY <1>7, <3>1, <3>2
    <3>4. stack[k].wait = stack[k + 1].obj
      BY <1>1, <3>3 DEF StackInv
    <3>5. path[i + 1] \in Obj
      BY <1>6, <3>1, ElementOfSeq
    <3> QED
      BY <1>1, <2>2, <3>3, <3>4, <3>5, PathRefers
  <2> QED
    BY <2>1, <2>2
<1>10. IsCycle(path)
  <2>1. path # <<>>
    BY <1>8
  <2> QED
    BY <1>6, <1>9, <2>1 DEF IsCycle
<1>11. DOMAIN path = 1 .. Len(path)
  BY <1>6, LenProperties
<1> QED
  BY <1>1, <1>2, <1>5, <1>6, <1>7, <1>8, <1>10, <1>11

\* Only a cycle makes a type invalid.
LEMMA TypesAreValid ==
    ASSUME VarTypes, StackInv, \A n \in 1 .. Len(stack) : FrameInv(n), DeclSteps \/ OrderSteps,
           \A r \in Obj : ~Cycles(r)
    PROVE  /\ cycles' = cycles
           /\ \A o \in Obj : IsType(o) /\ typ'[o] = "invalid" => typ[o] = "invalid"
<1> DEFINE Goal == /\ cycles' = cycles
                   /\ \A o \in Obj : IsType(o) /\ typ'[o] = "invalid" => typ[o] = "invalid"
<1> SUFFICES Goal
  OBVIOUS
<1>0. typ \in [Obj -> {"none", "ok", "invalid"}]
  BY DEF VarTypes
<1>1. ASSUME NEW r \in Obj, Begins(r) PROVE Goal
  BY <1>0, <1>1 DEF Begins, White
<1>2. ASSUME NEW r \in Obj, Passes(r) \/ Looks(r) PROVE Goal
  BY <1>2 DEF Passes, Looks
<1>3. CASE Depends \/ SignatureEnds \/ Returns
  BY <1>3 DEF Depends, IdentReturns, SignatureEnds, SignatureDone, Returns, Return
<1>4. CASE TypeEnds \/ InitEnds
  <2>1. /\ Top = LastCall /\ LastCall.obj \in Obj /\ stack # <<>> /\ Len(stack) \in 1 .. Len(stack)
    BY <1>4, StageEnds, LastCallIs DEF TypeEnds, TypeDone, InitEnds, InitDone
  <2>2. IsValue(LastCall.obj)
    BY <1>4, <2>1 DEF TypeEnds, TypeDone, InitEnds, FrameInv, LastCall
  <2>3. \A q \in Siblings(LastCall.obj) : IsValue(q)
    <3>1. \A q \in Siblings(LastCall.obj) : prog[q] = prog[LastCall.obj]
      BY <2>1, SiblingsAre DEF Siblings, VarTypes
    <3> QED
      BY <2>2, <3>1 DEF IsValue, Kind
  <2>4. cycles' = cycles /\ \A q \in Obj : typ'[q] # typ[q] => q = LastCall.obj \/ q \in Siblings(LastCall.obj)
    BY <1>0, <1>4, <2>1 DEF TypeEnds, TypeDone, InitEnds, InitDone
  <2> QED
    BY <2>2, <2>3, <2>4 DEF IsValue, IsType
<1>5. CASE StartDelayed \/ FuncBody \/ OrderSteps
  BY <1>5 DEF StartDelayed, FuncBody, OrderSteps, declVars
<1> QED
  BY <1>1, <1>2, <1>3, <1>4, <1>5 DEF DeclSteps

\* A cycle that is reported is one that cannot be.
LEMMA CycleStep ==
    ASSUME VarTypes, VarTypes', StackInv, ColorInv, \A n \in 1 .. Len(stack) : FrameInv(n), CycleInv,
           DeclSteps \/ OrderSteps
    PROVE  CycleInv'
<1> DEFINE Just(c) ==
             /\ \E n \in DOMAIN c.path : ~IsValue(c.path[n])
             /\ \/ \E n \in DOMAIN c.path : IsValue(c.path[n])
                \/ \A n \in DOMAIN c.path : Kind(c.path[n]) = "type" =>
                      \E d \in cycles' \ {c} : ~d.valid /\ c.path[n] \in Range(d.path)
           Goal ==
             /\ \A c \in cycles' : IsCycle(c.path) /\ (~c.valid => Just(c))
             /\ \A o \in Obj : IsType(o) /\ typ'[o] = "invalid" =>
                   \E d \in cycles' : ~d.valid /\ o \in Range(d.path)
<1> SUFFICES Goal
  BY SameProgram DEF CycleInv, Justified, IsCycle, RefersTo, IsType, IsValue, Kind, Obj
<1>1. CASE \A r \in Obj : ~Cycles(r)
  BY <1>1, TypesAreValid DEF CycleInv, Justified
<1>2. ASSUME NEW r \in Obj, Cycles(r) PROVE Goal
  <2>1. PICK path : path = CycleOf(r)
    OBVIOUS
  <2>2. PICK c : c = [path |-> path, valid |-> ValidCycle(path)]
    OBVIOUS
  <2>3. c.path = path /\ c.valid = ValidCycle(path) /\ cycles' = cycles \cup {c}
    BY <1>2, <2>1, <2>2 DEF Cycles, Grey
  <2>4. /\ IsCycle(path) /\ path[1] = r /\ DOMAIN path = 1 .. Len(path) /\ path \in Seq(Obj)
        /\ 1 \in DOMAIN path
        /\ \A i \in 1 .. Len(path) : \E k \in 1 .. Len(stack) : path[i] = stack[k].obj
    <3>1. /\ IsCycle(path) /\ path[1] = r /\ DOMAIN path = 1 .. Len(path) /\ path \in Seq(Obj)
          /\ \A i \in 1 .. Len(path) : \E k \in 1 .. Len(stack) : path[i] = stack[k].obj
      BY <1>2, <2>1, CycleIs
    <3>2. 1 \in DOMAIN path
      <4>1. path # <<>> /\ Len(path) \in Nat
        <5>1. path # <<>>
          BY <3>1 DEF IsCycle
        <5>2. Len(path) \in Nat
          BY <3>1, LenProperties
        <5> QED
          BY <5>1, <5>2
      <4>2. Len(path) # 0
        BY <3>1, <4>1, EmptySeq
      <4> QED
        BY <3>1, <4>1, <4>2
    <3> QED
      BY <3>1, <3>2
  <2>5. ASSUME ~c.valid, c \notin cycles PROVE Just(c)
    <3>1. \E n \in DOMAIN path : ~IsValue(path[n])
      BY <2>3, <2>5 DEF ValidCycle
    <3>2. ASSUME \A n \in DOMAIN path : ~IsValue(path[n]), NEW n \in DOMAIN path, Kind(path[n]) = "type"
          PROVE  \E d \in cycles' \ {c} : ~d.valid /\ path[n] \in Range(d.path)
      <4>1. typ[path[n]] # "ok"
        BY <2>3, <2>5, <3>2 DEF ValidCycle
      <4>2. path[n] \in Obj /\ ~IsValue(path[n])
        BY <2>4, <3>2, ElementOfSeq
      <4>3. typ[path[n]] # "none"
        <5>1. PICK k \in 1 .. Len(stack) : path[n] = stack[k].obj
          BY <2>4, <3>2
        <5>2. FrameInv(k)
          OBVIOUS
        <5> QED
          BY <4>2, <5>1, <5>2 DEF FrameInv
      <4>4. typ[path[n]] = "invalid"
        BY <4>1, <4>2, <4>3 DEF VarTypes
      <4> QED
        BY <2>3, <2>5, <3>2, <4>2, <4>4 DEF CycleInv, IsType
    <3> QED
      BY <2>3, <3>1, <3>2
  <2>6. ASSUME NEW d \in cycles PROVE IsCycle(d.path) /\ (~d.valid => Just(d))
    BY <2>3, <2>6 DEF CycleInv, Justified
  <2>7. ASSUME NEW o \in Obj, IsType(o), typ'[o] = "invalid"
        PROVE  \E d \in cycles' : ~d.valid /\ o \in Range(d.path)
    <3>1. CASE typ[o] = "invalid"
      BY <2>3, <2>7, <3>1 DEF CycleInv
    <3>2. CASE typ[o] # "invalid"
      <4>1. o = r /\ ~ValidCycle(path)
        BY <1>2, <2>1, <2>7, <3>2 DEF Cycles, Grey, VarTypes, IsValue, IsType
      <4>2. o \in Range(path)
        BY <2>4, <4>1 DEF Range
      <4> QED
        BY <2>3, <4>1, <4>2
    <3> QED
      BY <3>1, <3>2
  <2> HIDE DEF Just
  <2> QED
    BY <2>3, <2>4, <2>5, <2>6, <2>7
<1> QED
  BY <1>1, <1>2

-----------------------------------------------------------------------------
(***************************************************************************)
(* No cycle of aliases goes unreported, if none of them is on a cycle with *)
(* a type definition, too.                                                 *)
(***************************************************************************)

\* Kinds of objects.
LEMMA Kinds ==
    ASSUME VarTypes
    PROVE  /\ \A o \in Aliases : o \in Obj /\ Kind(o) = "alias" /\ IsType(o) /\ ~IsValue(o)
           /\ \A n \in 1 .. Len(stack) : stack[n] \in FrameType /\ stack[n].obj \in Obj
           /\ Len(stack) \in Nat /\ color \in [Obj -> Nat]
           /\ LoneAliases \subseteq Aliases
<1>1. \A n \in 1 .. Len(stack) : stack[n] \in FrameType
  BY ElementOfSeq DEF VarTypes
<1> QED
  BY <1>1 DEF VarTypes, FrameType, Aliases, LoneAliases, IsType, IsValue

\* Around a cycle without values, the references in types lead from each object to each.
LEMMA CycleLeads ==
    ASSUME NEW path, IsCycle(path), DOMAIN path = 1 .. Len(path), Len(path) \in Nat,
           \A n \in DOMAIN path : ~IsValue(path[n]),
           NEW i \in 1 .. Len(path), NEW j \in 1 .. Len(path)
    PROVE  TypeLeads(path[i], path[j])
<1> SUFFICES ASSUME NEW S \in SUBSET Obj, path[i] \in S, \A o \in S : prog[o].type \subseteq S
             PROVE  path[j] \in S
  BY DEF TypeLeads
<1>1. PICK L \in Nat : L = Len(path)
  OBVIOUS
<1>2. ASSUME NEW n \in 1 .. L, path[n] \in S
      PROVE  path[IF n = L THEN 1 ELSE n + 1] \in S
  <2>1. RefersTo(path[n], path[IF n = L THEN 1 ELSE n + 1])
    BY <1>1 DEF IsCycle
  <2>2. ~IsValue(path[n])
    BY <1>1
  <2> QED
    BY <1>2, <2>1, <2>2 DEF RefersTo
<1>3. ASSUME NEW k \in 1 .. L, path[k] \in S, NEW l \in k .. L PROVE path[l] \in S
  <2> DEFINE Out == {n \in Nat : n \in k .. L /\ path[n] \notin S}
  <2> SUFFICES ASSUME Out # {} PROVE FALSE
    BY <1>1
  <2>1. PICK m \in Out : \A n \in Out : ~(<<n, m>> \in OpToRel(<, Nat))
    BY WFMin, NatLessThanWellFounded
  <2>2. m \in k .. L /\ path[m] \notin S /\ m \in Nat
    OBVIOUS
  <2>3. m # k
    BY <1>3, <2>2
  <2>a. PICK n : n = m - 1
    OBVIOUS
  <2>b. k \in Nat /\ 1 <= k /\ L \in Nat
    OBVIOUS
  <2>4. n \in Nat /\ n \in k .. L /\ n \in 1 .. L /\ n # L /\ n < m /\ n + 1 = m
    BY <2>2, <2>3, <2>a, <2>b
  <2>5. path[n] \in S
    BY <2>1, <2>4 DEF OpToRel
  <2>6. path[n + 1] \in S
    BY <1>2, <2>4, <2>5
  <2> QED
    BY <2>2, <2>4, <2>6
<1>4. L \in 1 .. L /\ L \in i .. L /\ 1 \in 1 .. L /\ j \in 1 .. L /\ i \in 1 .. L
  BY <1>1
<1>5. path[L] \in S
  BY <1>3, <1>4
<1>6. path[1] \in S
  BY <1>2, <1>4, <1>5
<1> QED
  BY <1>3, <1>4, <1>6

\* A lone alias that meets an alias that is being declared: an invalid cycle.
LEMMA AliasMeetsAlias ==
    ASSUME VarTypes, StackInv, ColorInv, \A n \in 1 .. Len(stack) : FrameInv(n),
           NEW r \in Aliases, Cycles(r), LastCall.obj \in LoneAliases
    PROVE  \E c \in cycles' : ~c.valid
<1>1. PICK path : path = CycleOf(r)
  OBVIOUS
<1>2. PICK p \in 1 .. Len(stack) : p = Place(r)
  BY Kinds, CycleIs
<1>3. /\ DOMAIN path = 1 .. Len(path) /\ Len(path) = Len(stack) - p + 1 /\ path[1] = r
      /\ \A i \in 1 .. Len(path) : p + i - 1 \in 1 .. Len(stack) /\ path[i] = stack[p + i - 1].obj
      /\ path \in Seq(Obj) /\ IsCycle(path)
  BY <1>1, <1>2, Kinds, CycleIs
<1>4. /\ Len(path) \in Nat /\ 1 \in 1 .. Len(path) /\ Len(path) \in 1 .. Len(path)
      /\ path[Len(path)] = LastCall.obj
  <2>1. Len(stack) \in Nat /\ p \in 1 .. Len(stack)
    BY Kinds
  <2>2. Len(path) \in Nat /\ Len(path) \in 1 .. Len(path) /\ p + Len(path) - 1 = Len(stack)
    BY <1>3, <2>1
  <2> QED
    BY <1>3, <2>2 DEF LastCall
<1>5. ASSUME ValidCycle(path) PROVE FALSE
  <2>1. 1 \in DOMAIN path /\ ~IsValue(path[1])
    BY <1>3, <1>4, Kinds
  <2>2. /\ \A i \in DOMAIN path : ~IsValue(path[i])
        /\ \E i \in DOMAIN path : Kind(path[i]) = "type"
    BY <1>5, <2>1 DEF ValidCycle
  <2>3. PICK i \in 1 .. Len(path) : Kind(path[i]) = "type"
    BY <1>3, <2>2
  <2>4. TypeLeads(path[i], LastCall.obj) /\ TypeLeads(LastCall.obj, path[i])
    BY <1>3, <1>4, <2>2, CycleLeads
  <2>5. path[i] \in Obj
    BY <1>3, ElementOfSeq
  <2> QED
    BY <2>3, <2>4, <2>5 DEF LoneAliases
<1>6. PICK c : c = [path |-> path, valid |-> ValidCycle(path)]
  OBVIOUS
<1>7. c.valid = ValidCycle(path) /\ cycles' = cycles \cup {c}
  BY <1>1, <1>6 DEF Cycles, Grey
<1> QED
  BY <1>5, <1>7

\* Cycles of aliases are reported before the last of them is black.
LEMMA AliasStep ==
    ASSUME VarTypes, VarTypes', StackInv, StackInv', ColorInv, \A n \in 1 .. Len(stack) : FrameInv(n),
           AliasInv, DeclSteps \/ OrderSteps
    PROVE  AliasInv'
<1> DEFINE Met2(n) == {r \in Aliases : r \in prog[stack'[n].obj].type /\ r \notin stack'[n].refs}
           M2 == \A n \in 1 .. Len(stack') : stack'[n].obj \in LoneAliases =>
                    \A r \in Met2(n) : color'[r] = black \/ (n < Len(stack') /\ r = stack'[n + 1].obj)
           B2 == \A o \in LoneAliases, r \in Aliases :
                    color'[o] = black /\ RefersTo(o, r) => color'[r] = black
           C2 == \A S \in SUBSET LoneAliases : (\A o \in S : color'[o] = black) /\ Closed(S) => S = {}
           Goal == (\E c \in cycles' : ~c.valid) \/ (M2 /\ B2 /\ C2)
<1>a. prog' = prog
  BY SameProgram
<1> SUFFICES Goal
  <2>1. Aliases' = Aliases /\ LoneAliases' = LoneAliases
    BY <1>a DEF Aliases, LoneAliases, TypeLeads, Obj, Kind
  <2>2. (\E c \in cycles' : ~c.valid) => Reported'
    BY DEF Reported
  <2>3. M2 => MetAreBlack'
    BY <1>a, <2>1 DEF MetAreBlack, Met, Kind, black
  <2>4. B2 => BlackIsClosed'
    BY <1>a, <2>1 DEF BlackIsClosed, RefersTo, IsValue, Kind, black
  <2>5. C2 => BlackIsAcyclic'
    BY <1>a, <2>1 DEF BlackIsAcyclic, Closed, RefersTo, IsValue, Kind, black
  <2> HIDE DEF M2, B2, C2
  <2> QED
    BY <2>2, <2>3, <2>4, <2>5 DEF AliasInv
<1>0. /\ Len(stack) \in Nat /\ Len(stack') \in Nat /\ color \in [Obj -> Nat]
      /\ \A n \in 1 .. Len(stack) : stack[n].obj \in Obj
      /\ \A o \in Aliases : o \in Obj /\ Kind(o) = "alias" /\ IsType(o) /\ ~IsValue(o)
      /\ LoneAliases \subseteq Aliases
  BY Kinds DEF VarTypes
\* It is enough to look at a state in which no cycle has been reported.
<1>b. ASSUME MetAreBlack /\ BlackIsClosed /\ BlackIsAcyclic => Goal PROVE Goal
  <2>1. cycles \subseteq cycles'
    BY ReportedStays
  <2>2. CASE Reported
    BY <2>1, <2>2 DEF Reported
  <2>3. CASE ~Reported
    BY <1>b, <2>3 DEF AliasInv
  <2> QED
    BY <2>2, <2>3
<1> HIDE DEF M2, B2, C2
<1> SUFFICES ASSUME MetAreBlack, BlackIsClosed, BlackIsAcyclic PROVE Goal
  BY <1>b
\* Black aliases stay black; if there are no others, what they refer to is as before.
<1>c. ASSUME \A a \in Aliases : color'[a] = black <=> color[a] = black
      PROVE  B2 /\ C2
  <2>1. B2
    BY <1>0, <1>c DEF B2, BlackIsClosed
  <2>2. C2
    BY <1>0, <1>c DEF C2, BlackIsAcyclic
  <2> QED
    BY <2>1, <2>2
\* Calls that meet nothing.
<1>d. ASSUME NEW n \in 1 .. Len(stack'), n \in 1 .. Len(stack), stack'[n].obj \in LoneAliases,
             stack'[n].obj = stack[n].obj, stack'[n].refs = stack[n].refs, NEW r \in Met2(n)
      PROVE  color[r] = black \/ (n < Len(stack) /\ r = stack[n + 1].obj)
  BY <1>d DEF MetAreBlack, Met
<1>1. ASSUME NEW o \in Obj, Begins(o) PROVE Goal
  <2>1. /\ Len(stack') = Len(stack) + 1 /\ Pushed(o)
        /\ \A n \in 1 .. Len(stack) : stack'[n].obj = stack[n].obj
        /\ stack'[Len(stack) + 1] = Frame(o) /\ Frame(o).obj = o /\ Frame(o).refs = prog[o].type
    BY <1>1, FrameIs DEF Begins, Pushed
  <2>2. /\ \A a \in Obj : a # o => color'[a] = color[a]
        /\ color[o] = white
        /\ color'[o] = IF Kind(o) = "func" THEN black ELSE grey + Len(objPath)
    BY <1>0, <1>1 DEF Begins, White
  <2>3. \A a \in Aliases : color'[a] = black <=> color[a] = black
    <3>1. Len(objPath) \in Nat
      BY DEF VarTypes
    <3>2. o \in Aliases => color'[o] # black /\ color[o] # black
      BY <1>0, <2>2, <3>1 DEF grey, black, white
    <3> QED
      BY <1>0, <2>2, <3>2
  <2>4. ASSUME NEW n \in 1 .. Len(stack'), stack'[n].obj \in LoneAliases, NEW r \in Met2(n)
        PROVE  color'[r] = black \/ (n < Len(stack') /\ r = stack'[n + 1].obj)
    <3>1. CASE n = Len(stack) + 1
      BY <2>1, <2>4, <3>1
    <3>2. CASE n = Len(stack)
      <4>1. n \in 1 .. Len(stack) /\ stack'[n].refs = stack[n].refs \ {o} /\ stack'[n].obj = stack[n].obj
        BY <1>0, <2>1, <2>4, <3>2 DEF Pushed
      <4>2. CASE r = o
        BY <1>0, <2>1, <3>2, <4>2
      <4>3. CASE r # o
        <5>1. r \in Met(n)
          BY <2>4, <4>1, <4>3 DEF Met
        <5>2. color[r] = black
          BY <1>0, <2>4, <3>2, <4>1, <5>1 DEF MetAreBlack
        <5> QED
          BY <2>3, <2>4, <5>2
      <4> QED
        BY <4>2, <4>3
    <3>3. CASE n # Len(stack) /\ n # Len(stack) + 1
      <4>1. n \in 1 .. Len(stack) /\ stack'[n] = stack[n] /\ n < Len(stack) /\ n + 1 \in 1 .. Len(stack)
        BY <1>0, <2>1, <3>3 DEF Pushed
      <4>2. color[r] = black \/ (n < Len(stack) /\ r = stack[n + 1].obj)
        BY <1>d, <2>4, <4>1
      <4> QED
        BY <1>0, <2>1, <2>3, <2>4, <4>1, <4>2
    <3> QED
      BY <3>1, <3>2, <3>3
  <2>5. M2
    BY <2>4 DEF M2
  <2> QED
    BY <1>c, <2>3, <2>5
\* Steps that keep the calls and the black aliases.
<1>2. ASSUME Len(stack') = Len(stack),
             \A n \in 1 .. Len(stack) : stack'[n].obj = stack[n].obj,
             \A n \in 1 .. Len(stack) : n # Len(stack) => stack'[n] = stack[n],
             \A a \in Aliases : color'[a] = black <=> color[a] = black,
             Len(stack) \in 1 .. Len(stack) /\ LastCall.obj \in LoneAliases =>
                \A r \in Met2(Len(stack)) : r \in LastCall.refs => color[r] = black
      PROVE  M2 /\ B2 /\ C2
  <2>1. ASSUME NEW n \in 1 .. Len(stack'), stack'[n].obj \in LoneAliases, NEW r \in Met2(n)
        PROVE  color'[r] = black \/ (n < Len(stack') /\ r = stack'[n + 1].obj)
    <3>0. n \in 1 .. Len(stack) /\ (n < Len(stack) => n + 1 \in 1 .. Len(stack)) /\ r \in Aliases
      BY <1>0, <1>2, <2>1
    <3>1. CASE n = Len(stack)
      <4>1. CASE r \in LastCall.refs
        <5>1. LastCall.obj \in LoneAliases
          BY <1>0, <1>2, <2>1, <3>0, <3>1 DEF LastCall
        <5> QED
          BY <1>2, <2>1, <3>0, <3>1, <4>1, <5>1
      <4>2. CASE r \notin LastCall.refs
        <5>1. r \in Met(n)
          BY <1>2, <2>1, <3>0, <3>1, <4>2 DEF Met, LastCall
        <5>2. color[r] = black
          BY <1>0, <1>2, <2>1, <3>0, <3>1, <5>1 DEF MetAreBlack
        <5> QED
          BY <1>2, <3>0, <5>2
      <4> QED
        BY <4>1, <4>2
    <3>2. CASE n # Len(stack)
      <4>1. color[r] = black \/ (n < Len(stack) /\ r = stack[n + 1].obj)
        BY <1>2, <1>d, <2>1, <3>0, <3>2
      <4> QED
        BY <1>2, <3>0, <4>1
    <3> QED
      BY <3>1, <3>2
  <2>2. M2
    BY <2>1 DEF M2
  <2> QED
    BY <1>2, <1>c, <2>2
<1>3. ASSUME NEW r \in Obj, Looks(r) \/ Cycles(r) PROVE Goal
  <2>1. Waits(r) /\ color' = color
    BY <1>3 DEF Looks, Cycles, Grey
  <2>2. Len(stack) \in 1 .. Len(stack) => stack'[Len(stack)].refs = LastCall.refs \ {r}
    BY <2>1 DEF Waits, Moved, LastCall
  <2>3. CASE Cycles(r) /\ LastCall.obj \in LoneAliases /\ r \in Aliases
    BY <2>3, AliasMeetsAlias
  <2>4. CASE ~ (Cycles(r) /\ LastCall.obj \in LoneAliases /\ r \in Aliases)
    <3>1. ASSUME Len(stack) \in 1 .. Len(stack), LastCall.obj \in LoneAliases,
                 NEW x \in Met2(Len(stack)), x \in LastCall.refs
          PROVE  color[x] = black
      <4>1. x = r /\ r \in Aliases
        BY <2>2, <3>1
      <4>2. Looks(r)
        BY <1>3, <2>4, <3>1, <4>1
      <4> QED
        BY <1>0, <4>1, <4>2 DEF Looks
    <3> HIDE DEF Met2
    <3>2. M2 /\ B2 /\ C2
      BY <1>2, <2>1, <3>1 DEF Waits, Moved
    <3> QED
      BY <3>2
  <2> QED
    BY <2>3, <2>4
<1>4. CASE Depends \/ TypeEnds \/ InitEnds \/ SignatureEnds
  <2>1. /\ color' = color /\ Len(stack') = Len(stack)
        /\ \A n \in 1 .. Len(stack) : stack'[n].obj = stack[n].obj
        /\ \A n \in 1 .. Len(stack) : n # Len(stack) => stack'[n] = stack[n]
    BY <1>4 DEF Depends, IdentReturns, TypeEnds, TypeDone, InitEnds, InitDone, SignatureEnds,
                SignatureDone, Moved
  <2>2. ASSUME Len(stack) \in 1 .. Len(stack), LastCall.obj \in LoneAliases,
               NEW x \in Met2(Len(stack)), x \in LastCall.refs
        PROVE  FALSE
    <3>1. ~IsValue(LastCall.obj)
      BY <1>0, <2>2
    <3>2. ~TypeEnds
      BY <1>4, <2>2, <3>1, StageEnds DEF TypeEnds, TypeDone
    <3>3. ~InitEnds
      BY <2>2, <3>1 DEF InitEnds, FrameInv, LastCall
    <3>4. ~SignatureEnds
      BY <2>2 DEF SignatureEnds
    <3>5. stack'[Len(stack)].refs = LastCall.refs
      BY <1>4, <3>2, <3>3, <3>4 DEF Depends, Moved
    <3> QED
      BY <2>2, <3>5
  <2> HIDE DEF Met2
  <2>3. M2 /\ B2 /\ C2
    BY <1>2, <2>1, <2>2
  <2> QED
    BY <2>3
<1>5. CASE (\E o \in Obj : Passes(o)) \/ StartDelayed \/ FuncBody \/ OrderSteps
  <2>1. stack' = stack
    BY <1>5 DEF Passes, StartDelayed, FuncBody, OrderSteps, declVars
  <2>2. \A a \in Aliases : color'[a] = black <=> color[a] = black
    <3>1. CASE color' = color
      BY <3>1
    <3>2. ASSUME NEW o \in Obj, Passes(o), color' # color
          PROVE  \A a \in Aliases : color'[a] = black <=> color[a] = black
      <4>1. color' = [color EXCEPT ![o] = black]
        BY <3>2 DEF Passes
      <4>2. color[o] # black
        BY <1>0, <3>2, <4>1
      <4>3. IsValue(o)
        BY <3>2, <4>2 DEF Passes, ColorInv
      <4> QED
        BY <1>0, <4>1, <4>3
    <3>3. CASE StartDelayed \/ FuncBody \/ OrderSteps
      BY <3>3 DEF StartDelayed, FuncBody, OrderSteps, declVars
    <3> QED
      BY <1>5, <3>1, <3>2, <3>3
  <2>3. ASSUME Len(stack) \in 1 .. Len(stack), NEW x \in Met2(Len(stack)), x \in LastCall.refs PROVE FALSE
    BY <2>1, <2>3 DEF LastCall
  <2> HIDE DEF Met2
  <2>4. M2 /\ B2 /\ C2
    BY <1>2, <2>1, <2>2, <2>3
  <2> QED
    BY <2>4
<1>6. CASE Returns
  <2>1. PICK t : t = LastCall.obj
    OBVIOUS
  <2>2. /\ Len(stack) >= 1 /\ Len(stack') = Len(stack) - 1 /\ Len(stack) \in 1 .. Len(stack)
        /\ \A n \in 1 .. Len(stack) - 1 : stack'[n] = stack[n]
        /\ color' = [color EXCEPT ![t] = black] /\ t = stack[Len(stack)].obj /\ t \in Obj
        /\ LastCall.stage = "end"
    <3>1. /\ Len(stack) >= 1 /\ Len(stack') = Len(stack) - 1
          /\ \A n \in 1 .. Len(stack) - 1 : stack'[n] = stack[n]
          /\ color' = [color EXCEPT ![t] = black] /\ LastCall.stage = "end"
      BY <1>6, <2>1 DEF Returns
    <3>2. Len(stack) \in 1 .. Len(stack)
      BY <1>0, <3>1
    <3>3. t = stack[Len(stack)].obj /\ t \in Obj
      BY <1>0, <2>1, <3>2 DEF LastCall
    <3> QED
      BY <3>1, <3>2, <3>3
  <2>3. color'[t] = black /\ \A a \in Obj : color[a] = black \/ a # t => color'[a] = color[a]
    BY <1>0, <2>2
  <2>4. ASSUME NEW n \in 1 .. Len(stack'), stack'[n].obj \in LoneAliases, NEW r \in Met2(n)
        PROVE  color'[r] = black \/ (n < Len(stack') /\ r = stack'[n + 1].obj)
    <3>1. n \in 1 .. Len(stack) /\ stack'[n] = stack[n] /\ r \in Aliases
      BY <1>0, <2>2, <2>4
    <3>2. color[r] = black \/ r = stack[n + 1].obj
      BY <1>d, <2>4, <3>1
    <3>3. CASE n + 1 = Len(stack)
      BY <1>0, <2>2, <2>3, <3>1, <3>2, <3>3
    <3>4. CASE n + 1 # Len(stack)
      <4>1. n < Len(stack') /\ stack'[n + 1] = stack[n + 1]
        BY <1>0, <2>2, <3>4
      <4> QED
        BY <1>0, <2>3, <3>1, <3>2, <4>1
    <3> QED
      BY <3>3, <3>4
  <2>5. ASSUME t \in LoneAliases, NEW r \in Aliases, RefersTo(t, r) PROVE color[r] = black
    <3>1. r \in prog[t].type
      BY <1>0, <2>5 DEF RefersTo
    <3>2. r \notin stack[Len(stack)].refs
      BY <2>2 DEF FrameInv, StageRefs, LastCall
    <3>3. r \in Met(Len(stack))
      BY <2>2, <2>5, <3>1, <3>2 DEF Met
    <3> QED
      BY <1>0, <2>2, <2>5, <3>3 DEF MetAreBlack
  <2>6. ASSUME t \in Aliases PROVE color[t] # black
    BY <1>0, <2>2, <2>6 DEF ColorInv, IsGrey, grey, black
  <2>7. M2
    BY <2>4 DEF M2
  <2>8. B2
    <3> SUFFICES ASSUME NEW o \in LoneAliases, NEW r \in Aliases, color'[o] = black, RefersTo(o, r)
                 PROVE  color'[r] = black
      BY DEF B2
    <3>1. color[r] = black
      BY <1>0, <2>3, <2>5 DEF BlackIsClosed
    <3> QED
      BY <1>0, <2>3, <3>1
  <2>9. C2
    <3> SUFFICES ASSUME NEW S \in SUBSET LoneAliases, \A o \in S : color'[o] = black, Closed(S)
                 PROVE  S = {}
      BY DEF C2
    <3>1. CASE t \notin S
      BY <1>0, <2>3, <3>1 DEF BlackIsAcyclic
    <3>2. CASE t \in S
      <4>1. \A o \in S : o # t => color[o] = black
        BY <1>0, <2>3
      <4>2. \A o \in S : \E r \in S : RefersTo(o, r) /\ r # t
        <5> SUFFICES ASSUME NEW o \in S PROVE \E r \in S : RefersTo(o, r) /\ r # t
          OBVIOUS
        <5>1. PICK r \in S : RefersTo(o, r)
          BY DEF Closed
        <5>2. color[r] = black
          BY <1>0, <2>5, <4>1, <5>1 DEF BlackIsClosed
        <5> QED
          BY <1>0, <2>6, <3>2, <5>1, <5>2
      <4>3. Closed(S \ {t}) /\ \A o \in S \ {t} : color[o] = black
        BY <4>1, <4>2 DEF Closed
      <4>4. S \ {t} = {}
        BY <4>3 DEF BlackIsAcyclic
      <4> QED
        BY <3>2, <4>2, <4>4
    <3> QED
      BY <3>1, <3>2
  <2> QED
    BY <2>7, <2>8, <2>9
<1> QED
  BY <1>1, <1>3, <1>4, <1>5, <1>6 DEF DeclSteps

-----------------------------------------------------------------------------
(***************************************************************************)
(* The order is right: what the graph says of cycles and needs is what the *)
(* dependencies say, however the functions are taken out of it.            *)
(***************************************************************************)

\* From n the edges E between the nodes N lead to m, on the way through nodes of X.
Leads(N, E, n, m, X) ==
    \A S \in SUBSET N :
        /\ \A s \in N : <<n, s>> \in E => s \in S
        /\ \A k \in S \cap X : \A s \in N : <<k, s>> \in E => s \in S
        => m \in S

Plain == Nodes \ Funcs
Depend == {e \in Nodes \X Nodes : e[2] \in DepsOf(e[1])}
NoCycles == \A n \in Plain : ~Leads(Nodes, edges, n, n, Nodes)
Ordering == {"order", "done"}

\* Without the functions that are gone, edges lead where they led.
GraphInv ==
    phase \in OrderPhase =>
        /\ \A n, m \in Plain : Leads(Nodes, edges, n, m, Nodes) <=> Leads(Nodes, Depend, n, m, Nodes)
        /\ \A n, m \in Plain : Leads(Nodes, edges, n, m, Funcs) <=> Leads(Nodes, Depend, n, m, Funcs)
        /\ phase \in Ordering => edges \subseteq Plain \X Plain

\* A node on a cycle does not leave the heap without an error.
ErrorInv ==
    /\ phase \notin Ordering => initErrors = {}
    /\ phase \in Ordering /\ initErrors = {} =>
          \A n \in Plain \ queue : ~Leads(Nodes, edges, n, n, Nodes)
    /\ \A n \in initErrors : n \in Plain /\ Leads(Nodes, Depend, n, n, Nodes)

\* Variables are taken after all constants and, without cycles, after what they need.
Taken == Vars \ queue
TakenInv ==
    phase \in Ordering =>
        /\ \A v \in Taken : \A c \in queue : Kind(c) # "const"
        /\ NoCycles => \A v \in Taken : \A s \in queue : <<v, s>> \notin edges

\* What the initialization of a variable needs, through functions.
Requires == {e \in Vars \X Vars : Leads(Nodes, Depend, e[1], e[2], Funcs)}

\* The list has the declarations of the variables taken, each after what it needs.
OutInv ==
    /\ phase \notin Ordering => InitOrderOut = <<>>
    /\ phase \in Ordering =>
          /\ \A l \in Obj : l \in Range(InitOrderOut) <=>
                              \E v \in Taken : prog[v].hasInit /\ prog[v].lhs = l
          /\ NoCycles => \A k \in 1 .. Len(InitOrderOut) : \A w \in Vars :
                <<InitOrderOut[k], w>> \in Requires /\ prog[w].hasInit =>
                    \E j \in 1 .. Len(InitOrderOut) : j < k /\ InitOrderOut[j] = prog[w].lhs

\* The variables P of V have their places, in the order of the language for the needs R.
Placed(place, V, P, R, out) ==
    /\ \A v \in P : place[v] \in 1 .. Cardinality(P)
    /\ \A v, w \in P : place[v] = place[w] => v = w
    /\ \A v \in P : \A w \in V : <<v, w>> \in R => w \in P /\ place[w] < place[v]
    /\ \A v \in P : \A u \in V : (u \notin P \/ place[v] < place[u]) /\ u < v =>
          \E w \in V : <<u, w>> \in R /\ (w \notin P \/ place[v] <= place[w])
    /\ \A k, n \in 1 .. Len(out) : k < n => place[out[k]] < place[out[n]]

Placeable(V, P, R, out) == \E place \in [V -> Nat] : Placed(place, V, P, R, out)

\* The variable v can be the next one: it requires nothing that is left, others before it do.
Fits(v, V, P, R) ==
    /\ v \in V \ P
    /\ \A w \in V : <<v, w>> \in R => w \in P
    /\ \A u \in V \ P : u < v => \E w \in V \ P : <<u, w>> \in R

PlaceInv ==
    phase \in Ordering /\ NoCycles /\ (\A v \in Vars : prog[v].lhs = v) =>
        Placeable(Vars, Taken, Requires, InitOrderOut)

SoundInv == GraphInv /\ ErrorInv /\ TakenInv /\ OutInv /\ PlaceInv

-----------------------------------------------------------------------------
\* Edges lead where they led when one function f is taken out of the graph.
LEMMA WithoutLeads ==
    ASSUME NEW N, NEW E \in SUBSET (N \X N), NEW X, NEW f \in X, f \in N, NEW E2,
           E2 = {e \in E \cup (({p \in N : <<p, f>> \in E} \ {f}) \X ({s \in N : <<f, s>> \in E} \ {f})) :
                    f \notin {e[1], e[2]}},
           NEW n \in N, NEW m \in N, n # f, m # f
    PROVE  Leads(N, E2, n, m, X) <=> Leads(N, E, n, m, X)
<1>0. \A a, b \in N : <<a, b>> \in E2 <=>
         a # f /\ b # f /\ (<<a, b>> \in E \/ (<<a, f>> \in E /\ <<f, b>> \in E))
  OBVIOUS
<1>1. ASSUME Leads(N, E2, n, m, X),
             NEW S \in SUBSET N,
             \A s \in N : <<n, s>> \in E => s \in S,
             \A k \in S \cap X : \A s \in N : <<k, s>> \in E => s \in S
      PROVE  m \in S
  <2>1. \A s \in N : <<n, s>> \in E2 => s \in S
    BY <1>0, <1>1
  <2>2. \A k \in S \cap X : \A s \in N : <<k, s>> \in E2 => s \in S
    BY <1>0, <1>1
  <2> QED
    BY <1>1, <2>1, <2>2 DEF Leads
<1>2. ASSUME Leads(N, E, n, m, X),
             NEW S \in SUBSET N,
             \A s \in N : <<n, s>> \in E2 => s \in S,
             \A k \in S \cap X : \A s \in N : <<k, s>> \in E2 => s \in S
      PROVE  m \in S
  <2>1. PICK T \in SUBSET N : \A k \in N : k \in T <=>
           IF k = f THEN \E a \in ((S \ {f}) \cap X) \cup {n} : <<a, f>> \in E ELSE k \in S
    <3>1. {k \in N : IF k = f THEN \E a \in ((S \ {f}) \cap X) \cup {n} : <<a, f>> \in E ELSE k \in S}
             \in SUBSET N
      OBVIOUS
    <3> QED
      BY <3>1
  <2>2. \A s \in N : <<n, s>> \in E => s \in T
    BY <1>0, <1>2, <2>1
  <2>3. ASSUME NEW k \in T \cap X, NEW s \in N, <<k, s>> \in E PROVE s \in T
    <3>1. CASE k # f
      BY <1>0, <1>2, <2>1, <2>3, <3>1
    <3>2. CASE k = f
      <4>1. PICK a \in ((S \ {f}) \cap X) \cup {n} : <<a, f>> \in E
        BY <2>1, <2>3, <3>2
      <4>2. a \in N /\ a # f
        BY <1>2, <4>1
      <4>3. s # f => <<a, s>> \in E2
        BY <1>0, <2>3, <3>2, <4>1, <4>2
      <4>4. s # f => s \in S
        BY <1>2, <4>1, <4>3
      <4> QED
        BY <2>1, <2>3, <3>2, <4>4
    <3> QED
      BY <3>1, <3>2
  <2>4. m \in T
    BY <1>2, <2>2, <2>3 DEF Leads
  <2> QED
    BY <2>1, <2>4
<1> QED
  BY <1>1, <1>2 DEF Leads

\* Without functions in it an edge is all that leads through functions.
LEMMA LeadsIsEdge ==
    ASSUME NEW N, NEW F, NEW E, E \subseteq (N \ F) \X (N \ F), NEW n \in N, NEW m \in N
    PROVE  Leads(N, E, n, m, F) <=> <<n, m>> \in E
<1>1. ASSUME Leads(N, E, n, m, F) PROVE <<n, m>> \in E
  <2>1. PICK S \in SUBSET N : \A s \in N : s \in S <=> <<n, s>> \in E
    <3>1. {s \in N : <<n, s>> \in E} \in SUBSET N
      OBVIOUS
    <3> QED
      BY <3>1
  <2>2. S \cap F = {}
    BY <2>1
  <2>3. m \in S
    BY <1>1, <2>1, <2>2 DEF Leads
  <2> QED
    BY <2>1, <2>3
<1>2. ASSUME <<n, m>> \in E PROVE Leads(N, E, n, m, F)
  BY <1>2 DEF Leads
<1> QED
  BY <1>1, <1>2

\* A node on a cycle has an edge to one on the cycle.
LEMMA CycleGoesOn ==
    ASSUME NEW N, NEW E, NEW n \in N, Leads(N, E, n, n, N)
    PROVE  \E m \in N : <<n, m>> \in E /\ Leads(N, E, m, m, N)
<1>1. PICK S \in SUBSET N : \A s \in N : s \in S <=>
         \E m \in N : <<n, m>> \in E /\ (s = m \/ Leads(N, E, m, s, N))
  <2>1. {s \in N : \E m \in N : <<n, m>> \in E /\ (s = m \/ Leads(N, E, m, s, N))} \in SUBSET N
    OBVIOUS
  <2> QED
    BY <2>1
<1>2. \A s \in N : <<n, s>> \in E => s \in S
  BY <1>1
<1>3. ASSUME NEW k \in S, NEW s \in N, <<k, s>> \in E PROVE s \in S
  <2>1. PICK m \in N : <<n, m>> \in E /\ (k = m \/ Leads(N, E, m, k, N))
    BY <1>1, <1>3
  <2>2. Leads(N, E, m, s, N)
    BY <1>3, <2>1 DEF Leads
  <2> QED
    BY <1>1, <2>1, <2>2
<1>4. n \in S
  BY <1>2, <1>3 DEF Leads
<1>5. PICK m \in N : <<n, m>> \in E /\ (n = m \/ Leads(N, E, m, n, N))
  BY <1>1, <1>4
<1>6. Leads(N, E, m, m, N)
  <2>1. CASE n = m
    BY <1>5, <2>1
  <2>2. CASE Leads(N, E, m, n, N)
    BY <1>5, <2>2 DEF Leads
  <2> QED
    BY <1>5, <2>1, <2>2
<1> QED
  BY <1>5, <1>6

\* Of nodes that all have an edge to one of them, one is on a cycle.
LEMMA CycleExists ==
    ASSUME NEW N, IsFiniteSet(N), NEW E, NEW Q \in SUBSET N, Q # {},
           \A n \in Q : \E m \in Q : <<n, m>> \in E
    PROVE  \E n \in Q : Leads(N, E, n, n, N)
<1> DEFINE R(n) == {m \in N : Leads(N, E, n, m, N)}
<1>1. \A n \in Q : R(n) \subseteq N /\ IsFiniteSet(R(n)) /\ Cardinality(R(n)) \in Nat
  BY FS_Subset, FS_CardinalityType
<1>2. PICK T \in SUBSET Nat : \A c : c \in T <=> \E n \in Q : c = Cardinality(R(n))
  <2> HIDE DEF R
  <2>1. {Cardinality(R(n)) : n \in Q} \in SUBSET Nat
    BY <1>1
  <2> QED
    BY <2>1
<1>3. T # {}
  BY <1>2
<1>4. PICK c \in T : \A d \in T : ~(<<d, c>> \in OpToRel(<, Nat))
  BY <1>3, WFMin, NatLessThanWellFounded
<1>5. \A d \in T : ~(d < c)
  BY <1>4 DEF OpToRel
<1>6. PICK n \in Q : c = Cardinality(R(n))
  BY <1>2
<1>7. PICK m \in Q : <<n, m>> \in E
  OBVIOUS
<1>8. m \in R(n)
  BY <1>7 DEF Leads
<1>9. R(m) \subseteq R(n)
  BY <1>7 DEF Leads
<1>10. ~(Cardinality(R(m)) < Cardinality(R(n)))
  BY <1>2, <1>5, <1>6
<1>11. Cardinality(R(m)) <= Cardinality(R(n)) /\ (Cardinality(R(m)) = Cardinality(R(n)) => R(n) = R(m))
  <2> HIDE DEF R
  <2> QED
    BY <1>1, <1>9, FS_Subset
<1>12. R(n) = R(m)
  <2> HIDE DEF R
  <2> QED
    BY <1>1, <1>10, <1>11
<1> QED
  BY <1>8, <1>12

\* The variable v takes the next place.
LEMMA PlaceNext ==
    ASSUME NEW V \in SUBSET Nat, IsFiniteSet(V), NEW P \in SUBSET V, NEW v, NEW R, NEW out \in Seq(P),
           Placeable(V, P, R, out), Fits(v, V, P, R),
           NEW out2 \in {out, Append(out, v)}
    PROVE  Placeable(V, P \cup {v}, R, out2)
<1>a. v \in V /\ v \notin P
  BY DEF Fits
<1>b. \A w \in V : <<v, w>> \in R => w \in P
  BY DEF Fits
<1>c. \A u \in V \ P : u < v => \E w \in V \ P : <<u, w>> \in R
  BY DEF Fits
<1>d. PICK place \in [V -> Nat] : Placed(place, V, P, R, out)
  BY DEF Placeable
<1>1. IsFiniteSet(P) /\ Cardinality(P) \in Nat
  BY FS_Subset, FS_CardinalityType
<1>2. PICK c \in Nat : c = Cardinality(P)
  BY <1>1
<1>3. Cardinality(P \cup {v}) = c + 1
  BY <1>1, <1>2, <1>a, FS_AddElement
<1>4. PICK pl : pl = [place EXCEPT ![v] = c + 1]
  OBVIOUS
<1>5. pl \in [V -> Nat] /\ pl[v] = c + 1 /\ \A w \in V \ {v} : pl[w] = place[w]
  BY <1>2, <1>4, <1>a, <1>d
<1>6. /\ \A w \in P : place[w] \in 1 .. c
      /\ \A u, w \in P : place[u] = place[w] => u = w
      /\ \A u \in P : \A w \in V : <<u, w>> \in R => w \in P /\ place[w] < place[u]
      /\ \A x \in P : \A u \in V : (u \notin P \/ place[x] < place[u]) /\ u < x =>
            \E w \in V : <<u, w>> \in R /\ (w \notin P \/ place[x] <= place[w])
      /\ \A k, n \in 1 .. Len(out) : k < n => place[out[k]] < place[out[n]]
  BY <1>2, <1>d DEF Placed
<1>7. \A w \in P : pl[w] = place[w] /\ pl[w] \in 1 .. c /\ w \in V /\ w # v
  BY <1>5, <1>6, <1>a
<1>8. \A w \in P \cup {v} : pl[w] \in 1 .. c + 1
  BY <1>2, <1>5, <1>7
<1>9. \A u, w \in P \cup {v} : pl[u] = pl[w] => u = w
  BY <1>2, <1>5, <1>6, <1>7
<1>10. \A u \in P \cup {v} : \A w \in V : <<u, w>> \in R => w \in P \cup {v} /\ pl[w] < pl[u]
  BY <1>2, <1>5, <1>6, <1>7, <1>b
<1>11. ASSUME NEW x \in P \cup {v}, NEW u \in V, u \notin P \cup {v} \/ pl[x] < pl[u], u < x
       PROVE  \E w \in V : <<u, w>> \in R /\ (w \notin P \cup {v} \/ pl[x] <= pl[w])
  <2>1. CASE x = v
    <3>1. u \notin P
      BY <1>2, <1>5, <1>7, <1>11, <2>1
    <3>2. PICK w \in V \ P : <<u, w>> \in R
      BY <1>11, <2>1, <3>1, <1>c
    <3>3. w = v => pl[x] <= pl[w]
      BY <1>2, <1>5, <2>1
    <3> QED
      BY <3>2, <3>3
  <2>2. CASE x \in P
    <3>1. u \notin P \/ place[x] < place[u]
      BY <1>5, <1>7, <1>11, <2>2
    <3>2. PICK w \in V : <<u, w>> \in R /\ (w \notin P \/ place[x] <= place[w])
      BY <1>6, <1>11, <2>2, <3>1
    <3>3. CASE w = v
      <4>1. pl[x] \in 1 .. c /\ pl[w] = c + 1
        BY <1>5, <1>7, <2>2, <3>3
      <4>2. pl[x] <= pl[w]
        BY <1>2, <4>1
      <4> QED
        BY <3>2, <4>2
    <3>4. CASE w # v
      BY <1>5, <1>7, <2>2, <3>2, <3>4
    <3> QED
      BY <3>3, <3>4
  <2> QED
    BY <1>11, <2>1, <2>2
<1>12. \A k, n \in 1 .. Len(out2) : k < n => pl[out2[k]] < pl[out2[n]]
  <2>1. PICK L \in Nat : L = Len(out)
    OBVIOUS
  <2>2. \A k \in 1 .. L : out[k] \in P
    BY <2>1, ElementOfSeq
  <2>3. \A k, n \in 1 .. L : k < n => pl[out[k]] < pl[out[n]]
    BY <1>6, <1>7, <2>1, <2>2
  <2>4. CASE out2 = out
    BY <2>1, <2>3, <2>4
  <2>5. CASE out2 = Append(out, v)
    <3>1. Len(out2) = L + 1 /\ out2[L + 1] = v /\ \A k \in 1 .. L : out2[k] = out[k]
      BY <2>1, <2>5, AppendProperties
    <3>2. \A k \in 1 .. L : pl[out[k]] \in 1 .. c
      BY <1>7, <2>2
    <3>3. ASSUME NEW k \in 1 .. L + 1, NEW n \in 1 .. L + 1, k < n PROVE pl[out2[k]] < pl[out2[n]]
      <4>1. k \in 1 .. L
        BY <3>3
      <4>2. CASE n = L + 1
        <5>1. pl[out2[k]] \in 1 .. c /\ pl[out2[n]] = c + 1
          BY <1>5, <3>1, <3>2, <4>1, <4>2
        <5> QED
          BY <1>2, <5>1
      <4>3. CASE n # L + 1
        <5>1. n \in 1 .. L
          BY <3>3, <4>3
        <5> QED
          BY <2>3, <3>1, <3>3, <4>1, <5>1
      <4> QED
        BY <4>2, <4>3
    <3> QED
      BY <3>1, <3>3
  <2> QED
    BY <2>4, <2>5
<1>13. Placed(pl, V, P \cup {v}, R, out2)
  BY <1>3, <1>8, <1>9, <1>10, <1>11, <1>12 DEF Placed
<1> QED
  BY <1>5, <1>13 DEF Placeable

-----------------------------------------------------------------------------
\* The nodes and what they depend on are those of the program when the order begins.
LEMMA SameData ==
    ASSUME OrderSteps
    PROVE  /\ prog' = prog /\ Obj' = Obj /\ Nodes' = Nodes /\ Funcs' = Funcs /\ Plain' = Plain
           /\ Vars' = Vars /\ Depend' = Depend /\ Requires' = Requires
<1>1. prog' = prog /\ deps' = deps
  BY DEF OrderSteps, declVars
<1>2. Obj' = Obj /\ Nodes' = Nodes /\ Funcs' = Funcs /\ Plain' = Plain /\ Vars' = Vars
  BY <1>1 DEF Obj, Nodes, Funcs, Plain, Vars, IsType, Kind
<1>3. Depend' = Depend
  BY <1>1, <1>2 DEF Depend, DepsOf
<1> QED
  BY <1>1, <1>2, <1>3 DEF Requires

\* Taking functions out of the graph.
LEMMA GraphStep ==
    ASSUME VarTypes, OrderInv, GraphInv,
           DependencyGraph \/ RemoveFunc \/ FillQueue \/ PopNode \/ Finish \/ UNCHANGED vars
    PROVE  GraphInv'
<1>0. prog' = prog /\ Nodes' = Nodes /\ Funcs' = Funcs /\ Plain' = Plain /\ Depend' = Depend
  BY SameData, OrderStepsAre
<1> DEFINE Goal ==
      phase' \in OrderPhase =>
        /\ \A n, m \in Plain : Leads(Nodes, edges', n, m, Nodes) <=> Leads(Nodes, Depend, n, m, Nodes)
        /\ \A n, m \in Plain : Leads(Nodes, edges', n, m, Funcs) <=> Leads(Nodes, Depend, n, m, Funcs)
        /\ phase' \in Ordering => edges' \subseteq Plain \X Plain
<1> SUFFICES Goal
  BY <1>0 DEF GraphInv, Ordering, OrderPhase
<1>1. CASE DependencyGraph
  BY <1>1 DEF DependencyGraph, Depend, Ordering
<1>2. CASE RemoveFunc
  <2>1. PICK f : f = Head(funcG)
    OBVIOUS
  <2>2. f \in Funcs /\ f \in Nodes /\ f \notin Plain /\ Plain \subseteq Nodes /\ edges \subseteq Nodes \X Nodes
    <3>1. f \in Funcs
      BY <1>2, <2>1, HeadRange DEF RemoveFunc, OrderInv
    <3> QED
      BY <3>1, FiniteNodes DEF Plain, OrderInv
  <2>3. edges' = {e \in edges \cup (({p \in Nodes : <<p, f>> \in edges} \ {f})
                                    \X ({s \in Nodes : <<f, s>> \in edges} \ {f})) : f \notin {e[1], e[2]}}
    BY <1>2, <2>1 DEF RemoveFunc, Without, Pred, Succ
  <2>4. ASSUME NEW n \in Plain, NEW m \in Plain, NEW X, f \in X
        PROVE  Leads(Nodes, edges', n, m, X) <=> Leads(Nodes, edges, n, m, X)
    BY <2>2, <2>3, <2>4, WithoutLeads
  <2>5. phase \in OrderPhase /\ phase' \notin Ordering
    BY <1>2 DEF RemoveFunc, OrderPhase, Ordering
  <2> QED
    BY <2>2, <2>4, <2>5 DEF GraphInv
<1>3. CASE FillQueue
  <2>1. edges \subseteq Plain \X Plain
    <3>1. Range(funcG) = {}
      BY <1>3 DEF FillQueue, Range
    <3>2. ASSUME NEW e \in edges PROVE e[1] \notin Funcs /\ e[2] \notin Funcs
      BY <1>3, <3>1, <3>2 DEF FillQueue, OrderInv
    <3> QED
      BY <3>2 DEF OrderInv, Plain
  <2>2. edges' = edges /\ phase \in OrderPhase
    BY <1>3 DEF FillQueue, OrderPhase
  <2> QED
    BY <2>1, <2>2 DEF GraphInv
<1>4. CASE PopNode \/ Finish \/ UNCHANGED vars
  <2>1. /\ edges' = edges /\ (phase' \in OrderPhase => phase \in OrderPhase)
        /\ (phase' \in Ordering => phase \in Ordering)
    BY <1>4 DEF PopNode, Pop, Finish, vars, orderVars, OrderPhase, Ordering
  <2> QED
    BY <2>1 DEF GraphInv
<1> QED
  BY <1>1, <1>2, <1>3, <1>4

\* What the code looks for is a cycle of dependencies.
LEMMA OnCycleLeads ==
    ASSUME VarTypes, DepsInv, NEW n \in Nodes
    PROVE  OnCycle(n) <=> Leads(Nodes, Depend, n, n, Nodes)
<1>1. \A o \in Nodes : DepsOf(o) \subseteq Nodes
  <2> SUFFICES ASSUME NEW o \in Nodes PROVE DepsOf(o) \subseteq Nodes
    OBVIOUS
  <2>1. prog[o].lhs \in Obj
    BY FiniteNodes, Program DEF VarTypes
  <2>2. DepsOf(o) \subseteq Refs(prog[o].lhs)
    BY <2>1 DEF DepsInv, DepsOf
  <2>3. Refs(prog[o].lhs) \subseteq Nodes
    BY <2>1, Program DEF VarTypes, Refs, Nodes
  <2> QED
    BY <2>2, <2>3
<1>2. \A a, b \in Nodes : <<a, b>> \in Depend <=> b \in DepsOf(a)
  BY DEF Depend
<1>3. \A a \in Nodes : \A S : DepsOf(a) \subseteq S <=> \A b \in Nodes : <<a, b>> \in Depend => b \in S
  BY <1>1, <1>2
<1>4. \A S \in SUBSET Nodes : (\A d \in S : DepsOf(d) \subseteq S) <=>
         \A k \in S \cap Nodes : \A s \in Nodes : <<k, s>> \in Depend => s \in S
  BY <1>3
<1> QED
  BY <1>3, <1>4 DEF OnCycle, Leads

\* A node that is popped.
PopAs(n) ==
    /\ phase = "order" /\ phase' = "order" /\ edges' = edges
    /\ n \in queue /\ n \in Plain /\ n \in Obj /\ queue' = queue \ {n}
    /\ \A m \in queue \ {n} : Less(n, m)
    /\ initErrors' = IF ndeps[n] > 0 /\ OnCycle(n) THEN initErrors \cup {n} ELSE initErrors
    /\ InitOrderOut' = IF Kind(n) = "var" /\ prog[n].hasInit /\ prog[n].lhs \notin Range(InitOrderOut)
                    THEN Append(InitOrderOut, prog[n].lhs) ELSE InitOrderOut

LEMMA PopIs == ASSUME OrderInv, PopNode PROVE \E n \in Obj : PopAs(n)
<1>1. PICK n \in Obj : Pop(n)
  BY DEF PopNode
<1>2. PopAs(n)
  BY <1>1 DEF PopAs, Pop, OrderInv, Plain
<1> QED
  BY <1>2

\* The count says if something that a node waits for is in the heap.
LEMMA CountIs ==
    ASSUME VarTypes, OrderInv, NEW n \in queue
    PROVE  /\ ndeps[n] \in Nat
           /\ ndeps[n] = 0 <=> \A s \in queue : <<n, s>> \notin edges
<1>1. PICK S : S = Succ(edges, n) \cap queue
  OBVIOUS
<1>2. ndeps[n] = Cardinality(S) /\ S \subseteq Nodes
  BY <1>1 DEF OrderInv, Succ
<1>3. IsFiniteSet(S) /\ Cardinality(S) \in Nat
  BY <1>2, FiniteNodes
<1>4. Cardinality(S) = 0 <=> S = {}
  BY <1>3, FS_EmptySet
<1>5. S = {} <=> \A s \in queue : <<n, s>> \notin edges
  BY <1>1 DEF OrderInv, Succ
<1> QED
  BY <1>2, <1>3, <1>4, <1>5

\* The first node of a cycle that is popped still waits for another one.
LEMMA ErrorStep ==
    ASSUME VarTypes, DepsInv, OrderInv, GraphInv, ErrorInv,
           DependencyGraph \/ RemoveFunc \/ FillQueue \/ PopNode \/ Finish \/ UNCHANGED vars
    PROVE  ErrorInv'
<1>0. prog' = prog /\ Nodes' = Nodes /\ Funcs' = Funcs /\ Plain' = Plain /\ Depend' = Depend
  BY SameData, OrderStepsAre
<1> DEFINE Goal ==
      /\ phase' \notin Ordering => initErrors' = {}
      /\ phase' \in Ordering /\ initErrors' = {} =>
            \A n \in Plain \ queue' : ~Leads(Nodes, edges', n, n, Nodes)
      /\ \A n \in initErrors' : n \in Plain /\ Leads(Nodes, Depend, n, n, Nodes)
<1> SUFFICES Goal
  BY <1>0 DEF ErrorInv, Ordering
<1>1. CASE DependencyGraph \/ RemoveFunc \/ FillQueue
  <2>1. initErrors' = {} /\ (phase' \in Ordering => queue' = Plain)
    BY <1>1 DEF DependencyGraph, RemoveFunc, FillQueue, ErrorInv, Ordering, Plain
  <2> QED
    BY <2>1
<1>2. CASE PopNode
  <2>1. PICK n \in Obj : PopAs(n)
    BY <1>2, PopIs
  <2>2. /\ phase \in Ordering /\ phase \in OrderPhase /\ phase' \in Ordering /\ edges' = edges
        /\ n \in queue /\ n \in Plain /\ n \in Nodes /\ queue' = queue \ {n}
        /\ initErrors' = IF ndeps[n] > 0 /\ OnCycle(n) THEN initErrors \cup {n} ELSE initErrors
    BY <2>1 DEF PopAs, Ordering, OrderPhase, Plain
  <2>3. OnCycle(n) <=> Leads(Nodes, edges, n, n, Nodes)
    BY <2>2, OnCycleLeads DEF GraphInv
  <2>4. ASSUME initErrors' = {}, Leads(Nodes, edges, n, n, Nodes) PROVE FALSE
    <3>1. initErrors = {} /\ ~(ndeps[n] > 0)
      BY <2>2, <2>3, <2>4
    <3>2. \A s \in queue : <<n, s>> \notin edges
      BY <2>2, <3>1, CountIs
    <3>3. PICK m \in Nodes : <<n, m>> \in edges /\ Leads(Nodes, edges, m, m, Nodes)
      BY <2>2, <2>4, CycleGoesOn
    <3>4. m \in Plain \ queue
      BY <2>2, <3>2, <3>3 DEF GraphInv
    <3> QED
      BY <2>2, <3>1, <3>3, <3>4 DEF ErrorInv
  <2>5. ASSUME initErrors' = {}, NEW m \in Plain \ queue' PROVE ~Leads(Nodes, edges, m, m, Nodes)
    <3>1. initErrors = {}
      BY <2>2, <2>5
    <3> QED
      BY <2>2, <2>4, <2>5, <3>1 DEF ErrorInv
  <2>6. \A m \in initErrors' : m \in Plain /\ Leads(Nodes, Depend, m, m, Nodes)
    BY <2>2, OnCycleLeads DEF ErrorInv
  <2> QED
    BY <2>2, <2>5, <2>6
<1>3. CASE Finish \/ UNCHANGED vars
  BY <1>3 DEF Finish, vars, orderVars, ErrorInv, Ordering
<1> QED
  BY <1>1, <1>2, <1>3

\* Variables and constants are what is left of the graph.
LEMMA PlainKinds ==
    ASSUME VarTypes
    PROVE  /\ Vars \subseteq Plain /\ Plain \subseteq Nodes /\ Nodes \subseteq Obj
           /\ \A n \in Plain : n \in Vars \/ Kind(n) = "const"
<1>1. \A o \in Obj : Kind(o) \in {"type", "alias", "const", "var", "func"}
  BY Program DEF VarTypes
<1> QED
  BY <1>1 DEF Vars, Plain, Nodes, Funcs, IsType

\* Constants are popped first, and a variable that is popped waits for nothing, unless
\* there is a cycle.
LEMMA FirstWaitsForNothing ==
    ASSUME VarTypes, OrderInv, NEW n \in Vars, PopAs(n)
    PROVE  /\ \A m \in queue : Kind(m) # "const" /\ ndeps[n] <= ndeps[m]
           /\ NoCycles => \A s \in queue : <<n, s>> \notin edges
<1>1. queue \subseteq Plain /\ queue \subseteq Nodes /\ n \in queue /\ Kind(n) = "var"
  BY DEF OrderInv, Plain, PopAs, Vars
<1>2. ASSUME NEW m \in queue PROVE Kind(m) # "const" /\ ndeps[n] <= ndeps[m]
  <2>1. ndeps[n] \in Nat /\ ndeps[m] \in Nat
    BY <1>1, CountIs
  <2>2. CASE m = n
    BY <1>1, <2>1, <2>2
  <2>3. CASE m # n
    BY <1>1, <2>1, <2>3 DEF PopAs, Less
  <2> QED
    BY <2>2, <2>3
<1>3. ASSUME NoCycles, NEW s \in queue, <<n, s>> \in edges PROVE FALSE
  <2>1. ndeps[n] \in Nat /\ ndeps[n] # 0
    BY <1>1, <1>3, CountIs
  <2>2. ASSUME NEW m \in queue PROVE \E t \in queue : <<m, t>> \in edges
    <3>1. ndeps[m] \in Nat /\ ndeps[n] <= ndeps[m]
      BY <1>2, CountIs
    <3>2. ndeps[m] # 0
      BY <2>1, <3>1
    <3> QED
      BY <3>2, CountIs
  <2>3. \E m \in queue : Leads(Nodes, edges, m, m, Nodes)
    BY <1>1, <2>2, CycleExists, FiniteNodes
  <2> QED
    BY <1>1, <1>3, <2>3 DEF NoCycles
<1> QED
  BY <1>2, <1>3

\* The variables that have been taken.
LEMMA TakenStep ==
    ASSUME VarTypes, OrderInv, TakenInv,
           DependencyGraph \/ RemoveFunc \/ FillQueue \/ PopNode \/ Finish \/ UNCHANGED vars
    PROVE  TakenInv'
<1>0. prog' = prog /\ Nodes' = Nodes /\ Plain' = Plain /\ Vars' = Vars
  BY SameData, OrderStepsAre
<1> DEFINE Goal ==
      phase' \in Ordering =>
        /\ \A v \in Vars \ queue' : \A c \in queue' : Kind(c) # "const"
        /\ (\A n \in Plain : ~Leads(Nodes, edges', n, n, Nodes)) =>
              \A v \in Vars \ queue' : \A s \in queue' : <<v, s>> \notin edges'
<1> SUFFICES Goal
  BY <1>0 DEF TakenInv, Taken, NoCycles, Ordering, Kind
<1>1. CASE DependencyGraph \/ RemoveFunc
  BY <1>1 DEF DependencyGraph, RemoveFunc, Ordering
<1>2. CASE FillQueue
  <2>1. Vars \ queue' = {}
    BY <1>2, PlainKinds DEF FillQueue, Plain
  <2> QED
    BY <2>1
<1>3. CASE PopNode
  <2>1. PICK n \in Obj : PopAs(n)
    BY <1>3, PopIs
  <2>2. phase \in Ordering /\ edges' = edges /\ n \in queue /\ queue' = queue \ {n}
    BY <2>1 DEF PopAs, Ordering
  <2>3. ASSUME NEW v \in Vars \ queue', NEW c \in queue'
        PROVE  /\ Kind(c) # "const"
               /\ NoCycles => <<v, c>> \notin edges
    <3>1. CASE v = n
      BY <2>1, <2>2, <2>3, <3>1, FirstWaitsForNothing
    <3>2. CASE v # n
      BY <2>2, <2>3, <3>2 DEF TakenInv, Taken
    <3> QED
      BY <3>1, <3>2
  <2> QED
    BY <2>2, <2>3 DEF NoCycles
<1>4. CASE Finish \/ UNCHANGED vars
  BY <1>4 DEF Finish, vars, orderVars, TakenInv, Taken, NoCycles, Ordering
<1> QED
  BY <1>1, <1>2, <1>3, <1>4

\* The edges that are left are what variables require.
LEMMA RequiresIsEdge ==
    ASSUME VarTypes, GraphInv, phase \in Ordering, NEW v \in Vars, NEW w \in Vars
    PROVE  <<v, w>> \in Requires <=> <<v, w>> \in edges
<1>1. v \in Plain /\ w \in Plain /\ v \in Nodes /\ w \in Nodes
  BY PlainKinds
<1>2. phase \in OrderPhase
  BY DEF Ordering, OrderPhase
<1>3. edges \subseteq (Nodes \ Funcs) \X (Nodes \ Funcs)
  BY <1>2 DEF GraphInv, Plain
<1>4. Leads(Nodes, edges, v, w, Funcs) <=> <<v, w>> \in edges
  BY <1>1, <1>3, LeadsIsEdge
<1> QED
  BY <1>1, <1>2, <1>4 DEF GraphInv, Requires

\* Variables that are declared together require the same.
LEMMA SiblingsRequire ==
    ASSUME VarTypes, NEW v \in Vars
    PROVE  /\ prog[v].lhs \in Vars /\ prog[prog[v].lhs] = prog[v]
           /\ \A w \in Vars : <<prog[v].lhs, w>> \in Requires <=> <<v, w>> \in Requires
<1>1. v \in Obj
  BY DEF Vars
<1>2. PICK l : l = prog[v].lhs
  OBVIOUS
<1>3. l \in Obj /\ prog[l] = prog[v]
  BY <1>1, <1>2, Program DEF VarTypes
<1>4. l \in Vars
  BY <1>3 DEF Vars, Kind
<1>5. v \in Nodes /\ l \in Nodes
  BY <1>4, PlainKinds
<1>6. DepsOf(l) = DepsOf(v)
  BY <1>3 DEF DepsOf
<1>7. \A s \in Nodes : <<l, s>> \in Depend <=> <<v, s>> \in Depend
  BY <1>5, <1>6 DEF Depend
<1>8. \A w : Leads(Nodes, Depend, l, w, Funcs) <=> Leads(Nodes, Depend, v, w, Funcs)
  BY <1>7 DEF Leads
<1> QED
  BY <1>2, <1>3, <1>4, <1>8 DEF Requires

\* Without cycles, what a popped variable requires has been taken.
LEMMA RequiredIsTaken ==
    ASSUME VarTypes, OrderInv, GraphInv, NoCycles, NEW n \in Vars, PopAs(n),
           NEW w \in Vars, <<n, w>> \in Requires
    PROVE  w \in Taken /\ w # n
<1>1. phase \in Ordering /\ n \in Nodes /\ w \in Nodes
  BY PlainKinds DEF PopAs, Ordering
<1>2. <<n, w>> \in edges
  BY <1>1, RequiresIsEdge
<1>3. w \notin queue
  BY <1>2, FirstWaitsForNothing
<1>4. n \in queue
  BY DEF PopAs
<1> QED
  BY <1>3, <1>4 DEF Taken

\* The list of initializers.
LEMMA OutStep ==
    ASSUME VarTypes, OrderInv, GraphInv, TakenInv, OutInv,
           DependencyGraph \/ RemoveFunc \/ FillQueue \/ PopNode \/ Finish \/ UNCHANGED vars
    PROVE  OutInv'
<1>0. /\ prog' = prog /\ Obj' = Obj /\ Nodes' = Nodes /\ Plain' = Plain /\ Vars' = Vars
      /\ Requires' = Requires
  BY SameData, OrderStepsAre
<1> DEFINE Goal ==
      /\ phase' \notin Ordering => InitOrderOut' = <<>>
      /\ phase' \in Ordering =>
          /\ \A l \in Obj : l \in Range(InitOrderOut') <=>
                              \E v \in Vars \ queue' : prog[v].hasInit /\ prog[v].lhs = l
          /\ (\A n \in Plain : ~Leads(Nodes, edges', n, n, Nodes)) =>
              \A k \in 1 .. Len(InitOrderOut') : \A w \in Vars :
                <<InitOrderOut'[k], w>> \in Requires /\ prog[w].hasInit =>
                    \E j \in 1 .. Len(InitOrderOut') : j < k /\ InitOrderOut'[j] = prog[w].lhs
<1> SUFFICES Goal
  BY <1>0 DEF OutInv, Taken, NoCycles, Ordering
<1>1. CASE DependencyGraph \/ RemoveFunc
  BY <1>1 DEF DependencyGraph, RemoveFunc, Ordering, OutInv
<1>2. CASE FillQueue
  <2>1. Vars \ queue' = {}
    BY <1>2, PlainKinds DEF FillQueue, Plain
  <2>2. InitOrderOut' = <<>>
    BY <1>2 DEF FillQueue, OutInv, Ordering
  <2> QED
    BY <2>1, <2>2 DEF Range
<1>3. CASE PopNode
  <2>1. PICK n \in Obj : PopAs(n)
    BY <1>3, PopIs
  <2>2. /\ phase \in Ordering /\ edges' = edges /\ n \in queue /\ n \in Plain
        /\ queue' = queue \ {n} /\ phase' \in Ordering
    BY <2>1 DEF PopAs, Ordering
  <2>3. PICK L \in Nat : L = Len(InitOrderOut) /\ InitOrderOut \in Seq(Obj) /\ DOMAIN InitOrderOut = 1 .. L
    BY LenProperties DEF OrderInv
  <2>4. /\ \A l \in Obj : l \in Range(InitOrderOut) <=>
                              \E v \in Vars \ queue : prog[v].hasInit /\ prog[v].lhs = l
        /\ NoCycles => \A k \in 1 .. L : \A w \in Vars :
                <<InitOrderOut[k], w>> \in Requires /\ prog[w].hasInit =>
                    \E j \in 1 .. L : j < k /\ InitOrderOut[j] = prog[w].lhs
    BY <2>2, <2>3 DEF OutInv, Taken
  <2>5. NoCycles <=> \A m \in Plain : ~Leads(Nodes, edges', m, m, Nodes)
    BY <2>2 DEF NoCycles
  <2>6. PICK l : l = prog[n].lhs
    OBVIOUS
  <2>7. l \in Obj
    BY <2>6, Program DEF VarTypes
  <2>8. CASE n \notin Vars
    <3>1. InitOrderOut' = InitOrderOut /\ Vars \ queue' = Vars \ queue
      BY <2>1, <2>2, <2>8 DEF PopAs, Vars
    <3> QED
      BY <2>2, <2>3, <2>4, <2>5, <3>1
  <2>9. CASE n \in Vars /\ (~prog[n].hasInit \/ l \in Range(InitOrderOut))
    <3>1. InitOrderOut' = InitOrderOut /\ Vars \ queue' = (Vars \ queue) \cup {n}
      BY <2>1, <2>2, <2>6, <2>9 DEF PopAs, Vars
    <3>2. \A k \in Obj : k \in Range(InitOrderOut') <=>
                              \E v \in Vars \ queue' : prog[v].hasInit /\ prog[v].lhs = k
      BY <2>4, <2>6, <2>9, <3>1
    <3> QED
      BY <2>2, <2>3, <2>4, <2>5, <3>1, <3>2
  <2>10. CASE n \in Vars /\ prog[n].hasInit /\ l \notin Range(InitOrderOut)
    <3>1. InitOrderOut' = Append(InitOrderOut, l) /\ Vars \ queue' = (Vars \ queue) \cup {n}
      BY <2>1, <2>2, <2>6, <2>10 DEF PopAs, Vars
    <3>2. /\ Len(InitOrderOut') = L + 1 /\ InitOrderOut'[L + 1] = l
          /\ \A i \in 1 .. L : InitOrderOut'[i] = InitOrderOut[i]
          /\ DOMAIN InitOrderOut' = 1 .. L + 1
      BY <2>3, <2>7, <3>1, AppendProperties, LenProperties
    <3>3. Range(InitOrderOut') = Range(InitOrderOut) \cup {l}
      BY <2>3, <3>2 DEF Range
    <3>4. \A k \in Obj : k \in Range(InitOrderOut') <=>
                              \E v \in Vars \ queue' : prog[v].hasInit /\ prog[v].lhs = k
      BY <2>4, <2>6, <2>10, <3>1, <3>3
    <3>5. ASSUME NoCycles, NEW k \in 1 .. L + 1, NEW w \in Vars,
                 <<InitOrderOut'[k], w>> \in Requires, prog[w].hasInit
          PROVE  \E j \in 1 .. L + 1 : j < k /\ InitOrderOut'[j] = prog[w].lhs
      <4>1. CASE k \in 1 .. L
        <5>1. \E j \in 1 .. L : j < k /\ InitOrderOut[j] = prog[w].lhs
          BY <2>4, <3>2, <3>5, <4>1
        <5> QED
          BY <3>2, <5>1
      <4>2. CASE k = L + 1
        <5>1. <<n, w>> \in Requires
          BY <2>6, <2>10, <3>2, <3>5, <4>2, SiblingsRequire
        <5>2. w \in Vars \ queue
          BY <2>1, <2>10, <3>5, <5>1, RequiredIsTaken DEF Taken
        <5>3. prog[w].lhs \in Obj
          BY <3>5, SiblingsRequire DEF Vars
        <5>4. prog[w].lhs \in Range(InitOrderOut)
          BY <2>4, <3>5, <5>2, <5>3
        <5>5. PICK j \in 1 .. L : InitOrderOut[j] = prog[w].lhs
          BY <2>3, <5>4 DEF Range
        <5> QED
          BY <3>2, <4>2, <5>5
      <4> QED
        BY <3>5, <4>1, <4>2
    <3> QED
      BY <2>2, <2>5, <3>2, <3>4, <3>5
  <2> QED
    BY <2>8, <2>9, <2>10
<1>4. CASE Finish \/ UNCHANGED vars
  BY <1>4 DEF Finish, vars, orderVars, OutInv, Taken, NoCycles, Ordering
<1> QED
  BY <1>1, <1>2, <1>3, <1>4

\* The variables have the places of the language's order.
LEMMA PlaceStep ==
    ASSUME VarTypes, OrderInv, GraphInv, TakenInv, OutInv, PlaceInv,
           DependencyGraph \/ RemoveFunc \/ FillQueue \/ PopNode \/ Finish \/ UNCHANGED vars
    PROVE  PlaceInv'
<1>0. /\ prog' = prog /\ Obj' = Obj /\ Nodes' = Nodes /\ Plain' = Plain /\ Vars' = Vars
      /\ Requires' = Requires
  BY SameData, OrderStepsAre
<1> DEFINE Goal ==
      /\ phase' \in Ordering
      /\ \A n \in Plain : ~Leads(Nodes, edges', n, n, Nodes)
      /\ \A v \in Vars : prog[v].lhs = v
      => Placeable(Vars, Vars \ queue', Requires, InitOrderOut')
<1> SUFFICES Goal
  BY <1>0 DEF PlaceInv, Taken, NoCycles, Ordering
<1>1. CASE DependencyGraph \/ RemoveFunc
  BY <1>1 DEF DependencyGraph, RemoveFunc, Ordering
<1>2. CASE FillQueue
  <2>1. Vars \ queue' = {}
    BY <1>2, PlainKinds DEF FillQueue, Plain
  <2>2. InitOrderOut' = <<>>
    BY <1>2 DEF FillQueue, OutInv, Ordering
  <2>3. [v \in Vars |-> 0] \in [Vars -> Nat]
    OBVIOUS
  <2>4. \A place : Placed(place, Vars, {}, Requires, <<>>)
    BY DEF Placed
  <2>5. Placeable(Vars, {}, Requires, <<>>)
    BY <2>3, <2>4 DEF Placeable
  <2> QED
    BY <2>1, <2>2, <2>5
<1>3. CASE PopNode
  <2> SUFFICES ASSUME phase' \in Ordering, \A n \in Plain : ~Leads(Nodes, edges', n, n, Nodes),
                      \A v \in Vars : prog[v].lhs = v
               PROVE  Placeable(Vars, Vars \ queue', Requires, InitOrderOut')
    OBVIOUS
  <2>1. PICK n \in Obj : PopAs(n)
    BY <1>3, PopIs
  <2>2. phase \in Ordering /\ edges' = edges /\ n \in queue /\ queue' = queue \ {n}
    BY <2>1 DEF PopAs, Ordering
  <2>3. NoCycles
    BY <2>2 DEF NoCycles
  <2>4. Placeable(Vars, Vars \ queue, Requires, InitOrderOut)
    BY <2>2, <2>3 DEF PlaceInv, Taken
  <2>5. CASE n \notin Vars
    <3>1. InitOrderOut' = InitOrderOut /\ Vars \ queue' = Vars \ queue
      BY <2>1, <2>2, <2>5 DEF PopAs, Vars
    <3> QED
      BY <2>4, <3>1
  <2>6. CASE n \in Vars
    <3>1. /\ Vars \ queue' = (Vars \ queue) \cup {n} /\ n \in Vars \ (Vars \ queue)
          /\ InitOrderOut' = InitOrderOut \/ InitOrderOut' = Append(InitOrderOut, n)
      BY <2>1, <2>2, <2>6 DEF PopAs
    <3>2. Vars \in SUBSET Nat /\ IsFiniteSet(Vars)
      <4>1. Vars \subseteq Nat
        BY Program DEF VarTypes, Vars
      <4>2. Vars \subseteq Nodes
        BY PlainKinds
      <4> QED
        BY <4>1, <4>2, FiniteNodes
    <3>3. InitOrderOut \in Seq(Vars \ queue)
      <4>1. PICK L \in Nat : L = Len(InitOrderOut) /\ InitOrderOut \in Seq(Obj) /\ DOMAIN InitOrderOut = 1 .. L
        BY LenProperties DEF OrderInv
      <4>2. ASSUME NEW k \in 1 .. L PROVE InitOrderOut[k] \in Vars \ queue
        <5>1. InitOrderOut[k] \in Range(InitOrderOut) /\ InitOrderOut[k] \in Obj
          BY <4>1, ElementOfSeq DEF Range
        <5>2. PICK v \in Vars \ queue : prog[v].lhs = InitOrderOut[k]
          BY <2>2, <5>1 DEF OutInv, Taken
        <5> QED
          BY <5>2
      <4>3. InitOrderOut \in [1 .. L -> Obj]
        BY <4>1
      <4>4. InitOrderOut \in [1 .. L -> Vars \ queue]
        BY <4>2, <4>3
      <4> QED
        BY <4>4
    <3>4. \A w \in Vars : <<n, w>> \in Requires => w \in Vars \ queue
      BY <2>1, <2>3, <2>6, RequiredIsTaken DEF Taken
    <3>5. ASSUME NEW u \in Vars \ (Vars \ queue), u < n
          PROVE  \E w \in Vars \ (Vars \ queue) : <<u, w>> \in Requires
      <4>1. u \in queue /\ u \in Vars /\ u \in Nat /\ n \in Nat
        BY <2>6, <3>2, <3>5
      <4>2. Kind(u) = "var" /\ Kind(n) = "var" /\ u # n
        BY <2>6, <3>5, <4>1 DEF Vars
      <4>3. ndeps[n] < ndeps[u]
        <5>1. Less(n, u)
          BY <2>1, <4>1, <4>2 DEF PopAs
        <5> QED
          BY <3>5, <4>1, <4>2, <5>1 DEF Less
      <4>4. ndeps[n] \in Nat /\ ndeps[u] \in Nat
        BY <2>2, <4>1, CountIs
      <4>5. ndeps[u] # 0
        BY <4>3, <4>4
      <4>6. PICK s \in queue : <<u, s>> \in edges
        BY <4>1, <4>5, CountIs
      <4>7. s \in Vars
        <5>1. Kind(s) # "const"
          BY <2>1, <2>6, FirstWaitsForNothing
        <5>2. s \in Plain
          BY DEF OrderInv, Plain
        <5> QED
          BY <5>1, <5>2, PlainKinds
      <4>8. <<u, s>> \in Requires
        BY <2>2, <4>1, <4>6, <4>7, RequiresIsEdge
      <4> QED
        BY <4>7, <4>8
    <3>6. PICK P : P = Vars \ queue
      OBVIOUS
    <3>7. PICK out2 : out2 = InitOrderOut'
      OBVIOUS
    <3>8. Fits(n, Vars, P, Requires)
      BY <3>1, <3>4, <3>5, <3>6 DEF Fits
    <3>9. Placeable(Vars, P \cup {n}, Requires, out2)
      BY <2>4, <3>1, <3>2, <3>3, <3>6, <3>7, <3>8, PlaceNext
    <3> QED
      BY <3>1, <3>6, <3>7, <3>8, <3>9
  <2> QED
    BY <2>5, <2>6
<1>4. CASE Finish \/ UNCHANGED vars
  BY <1>4 DEF Finish, vars, orderVars, PlaceInv, Taken, NoCycles, Ordering
<1> QED
  BY <1>1, <1>2, <1>3, <1>4

-----------------------------------------------------------------------------
(***************************************************************************)
(* The theorems.                                                           *)
(***************************************************************************)

\* Nothing has been declared.
LEMMA InitHolds == ASSUME OrderInit PROVE IInv
<1>0. IsProgram(prog)
  BY ProgramsAssumption DEF OrderInit, Init
<1>1. /\ todo = Obj /\ color = [o \in Obj |-> white] /\ typ = [o \in Obj |-> "none"]
      /\ objPath = <<>> /\ stack = <<>> /\ decl = NoDecl /\ deps = [o \in Obj |-> {}]
      /\ delayed = <<>> /\ cycles = {} /\ phase = "objects"
      /\ edges = {} /\ funcG = <<>> /\ queue = {} /\ ndeps = [o \in Obj |-> 0]
      /\ InitOrderOut = <<>> /\ initErrors = {}
  BY DEF OrderInit, Init
<1>2. VarTypes
  BY <1>0, <1>1 DEF VarTypes, white, Decls, DeclPhase
<1>3. StackInv /\ (\A n \in 1 .. Len(stack) : FrameInv(n))
  BY <1>1 DEF StackInv
<1>4. ColorInv
  BY <1>1 DEF ColorInv, IsGrey, white, grey, black
<1>5. DepsInv
  BY <1>1 DEF DepsInv, Range
<1>6. CycleInv
  BY <1>1 DEF CycleInv
<1>7. AliasInv
  <2>1. \A o \in Aliases : color[o] # black
    BY <1>1 DEF Aliases, black, white
  <2> QED
    BY <1>1, <2>1 DEF AliasInv, LoneAliases, MetAreBlack, BlackIsClosed, BlackIsAcyclic
<1>8. OrderInv
  BY <1>1 DEF OrderInv, IsInjective, Range
<1> QED
  BY <1>2, <1>3, <1>4, <1>5, <1>6, <1>7, <1>8 DEF IInv

\* Every step keeps the invariant.
LEMMA NextHolds == ASSUME IInv, [Next]_vars PROVE IInv'
<1>1. /\ VarTypes /\ StackInv /\ (\A n \in 1 .. Len(stack) : FrameInv(n)) /\ ColorInv
      /\ DepsInv /\ CycleInv /\ AliasInv /\ OrderInv
  BY DEF IInv
<1>2. stack' \in Seq(FrameType) /\ (DeclSteps \/ OrderSteps)
  <2>1. CASE DeclNext /\ UNCHANGED orderVars
    BY <1>1, <2>1, DeclStepsAre
  <2>2. CASE DependencyGraph \/ RemoveFunc \/ FillQueue \/ PopNode \/ Finish \/ UNCHANGED vars
    BY <1>1, <2>2, OrderStepsAre DEF VarTypes
  <2> QED
    BY <2>1, <2>2 DEF Next
<1>3. \/ DeclSteps \/ DependencyGraph \/ RemoveFunc \/ FillQueue \/ PopNode \/ Finish
      \/ UNCHANGED vars
  BY <1>1, DeclStepsAre DEF Next
<1>4. VarTypes'
  BY <1>1, <1>2, TypesStep
<1>5. StackInv'
  BY <1>1, <1>2, <1>4, StackStep
<1>6. \A n \in 1 .. Len(stack') : FrameInv(n)'
  BY <1>1, <1>2, <1>4, FrameStep
<1>7. ColorInv'
  BY <1>1, <1>2, <1>4, ColorStep
<1>8. DepsInv'
  BY <1>1, <1>2, <1>4, DepsStep
<1>9. CycleInv'
  BY <1>1, <1>2, <1>4, CycleStep
<1>10. AliasInv'
  BY <1>1, <1>2, <1>4, <1>5, AliasStep
<1>11. OrderInv'
  BY <1>1, <1>3, <1>4, OrderStep
<1> QED
  BY <1>4, <1>5, <1>6, <1>7, <1>8, <1>9, <1>10, <1>11 DEF IInv

\* IInv holds in every state of the checker, for any programs.
THEOREM Invariance == Spec => []IInv
<1>1. OrderInit => IInv
  BY InitHolds
<1>2. IInv /\ [Next]_vars => IInv'
  BY NextHolds
<1> QED
  BY <1>1, <1>2, PTL DEF Spec

\* Before the order begins there is nothing to be wrong.
LEMMA SoundInit == ASSUME OrderInit PROVE SoundInv
<1>1. phase = "objects" /\ InitOrderOut = <<>> /\ initErrors = {}
  BY DEF OrderInit, Init
<1>2. phase \notin OrderPhase /\ phase \notin Ordering
  BY <1>1 DEF OrderPhase, Ordering
<1> QED
  BY <1>1, <1>2 DEF SoundInv, GraphInv, ErrorInv, TakenInv, OutInv, PlaceInv

\* Every step keeps the order right.
LEMMA SoundStep == ASSUME IInv, SoundInv, [Next]_vars PROVE SoundInv'
<1>0. /\ VarTypes /\ StackInv /\ ColorInv /\ DepsInv /\ OrderInv
      /\ GraphInv /\ ErrorInv /\ TakenInv /\ OutInv /\ PlaceInv
  BY DEF IInv, SoundInv
<1>1. CASE DependencyGraph \/ RemoveFunc \/ FillQueue \/ PopNode \/ Finish \/ UNCHANGED vars
  <2>1. GraphInv'
    BY <1>0, <1>1, GraphStep
  <2>2. ErrorInv'
    BY <1>0, <1>1, ErrorStep
  <2>3. TakenInv'
    BY <1>0, <1>1, TakenStep
  <2>4. OutInv'
    BY <1>0, <1>1, OutStep
  <2>5. PlaceInv'
    BY <1>0, <1>1, PlaceStep
  <2> QED
    BY <2>1, <2>2, <2>3, <2>4, <2>5 DEF SoundInv
<1>2. CASE DeclNext /\ UNCHANGED orderVars
  <2>1. UNCHANGED orderVars /\ phase' \in DeclPhase /\ phase \in DeclPhase
    BY <1>0, <1>2, DeclStepsAre, DeclsAreFirst
  <2>2. /\ phase' \notin OrderPhase /\ phase' \notin Ordering /\ phase \notin Ordering
        /\ InitOrderOut' = InitOrderOut /\ initErrors' = initErrors
    BY <2>1 DEF orderVars, DeclPhase, OrderPhase, Ordering
  <2>3. InitOrderOut = <<>> /\ initErrors = {}
    BY <1>0, <2>2 DEF OutInv, ErrorInv
  <2>4. GraphInv'
    BY <2>2 DEF GraphInv, OrderPhase
  <2>5. ErrorInv'
    BY <2>2, <2>3 DEF ErrorInv, Ordering
  <2>6. TakenInv' /\ PlaceInv'
    BY <2>2 DEF TakenInv, PlaceInv, Ordering
  <2>7. OutInv'
    BY <2>2, <2>3 DEF OutInv, Ordering
  <2> QED
    BY <2>4, <2>5, <2>6, <2>7 DEF SoundInv
<1> QED
  BY <1>1, <1>2 DEF Next

\* The list of initializers follows the dependencies in every state.
THEOREM Soundness == Spec => []SoundInv
<1>1. OrderInit => SoundInv
  BY SoundInit
<1>2. IInv /\ SoundInv /\ [Next]_vars => SoundInv'
  BY SoundStep
<1> QED
  BY <1>1, <1>2, Invariance, PTL DEF Spec

\* The types of the variables, and what the heap and the list of initializers are.
LEMMA TypesHold == ASSUME IInv PROVE TypeOK
<1>0. VarTypes /\ StackInv /\ ColorInv /\ OrderInv
  BY DEF IInv
<1>1. PICK L \in Nat : L = Len(stack)
  BY <1>0, Kinds
<1>2. /\ objPath \in Seq(Obj) /\ Len(objPath) = L /\ DOMAIN objPath = 1 .. L
      /\ DOMAIN stack = 1 .. L /\ objPath \in [1 .. L -> Obj]
  BY <1>0, <1>1, LenProperties DEF VarTypes, StackInv
<1>3. L <= Cardinality(Obj) /\ Cardinality(Obj) \in Nat
  <2>1. IsFiniteSet(Obj)
    BY <1>0 DEF VarTypes, IsProgram, Obj
  <2>2. objPath \in Injection(1 .. L, Obj)
    BY <1>0, <1>1, <1>2 DEF StackInv, Injection, IsInjective
  <2>3. Cardinality(1 .. L) = L
    BY FS_Interval
  <2> QED
    BY <2>1, <2>2, <2>3, FS_Injection, FS_CardinalityType
<1>4. color \in [Obj -> 0 .. grey + Cardinality(Obj)]
  <2> SUFFICES ASSUME NEW o \in Obj PROVE color[o] \in 0 .. grey + Cardinality(Obj)
    BY <1>0 DEF VarTypes
  <2>1. color[o] \in Nat
    BY <1>0 DEF VarTypes
  <2>2. CASE IsGrey(o)
    <3>1. color[o] - grey + 1 \in 1 .. L
      BY <1>0, <1>1, <2>2 DEF ColorInv, Place
    <3> QED
      BY <1>3, <2>1, <3>1 DEF grey
  <2>3. CASE ~IsGrey(o)
    BY <1>3, <2>1, <2>3 DEF IsGrey, grey
  <2> QED
    BY <2>2, <2>3
<1>5. \A n \in DOMAIN stack : /\ stack[n].obj \in Obj
                              /\ stack[n].stage \in {"type", "init", "end"}
                              /\ {stack[n].wait, stack[n].env} \subseteq Obj \cup {NoDecl}
  <2>1. \A n \in DOMAIN stack : stack[n] \in FrameType
    BY <1>0, <1>1, <1>2, Kinds
  <2> QED
    BY <2>1 DEF FrameType, Decls
<1>6. \A n \in DOMAIN delayed : delayed[n].decl \in Obj
  <2>1. delayed \in Seq(DelayedType)
    BY <1>0 DEF VarTypes
  <2>2. \A n \in DOMAIN delayed : delayed[n] \in DelayedType
    <3> HIDE DEF DelayedType
    <3>1. DOMAIN delayed = 1 .. Len(delayed)
      BY <2>1, LenProperties
    <3> QED
      BY <2>1, <3>1, ElementOfSeq
  <2> QED
    BY <2>2 DEF DelayedType
<1>7. DeclTypeOK
  BY <1>0, <1>4, <1>5, <1>6 DEF DeclTypeOK, VarTypes, Decls
<1>8. Range(funcG) \subseteq Funcs
  <2>1. funcG \in Seq(Funcs)
    BY <1>0 DEF OrderInv
  <2>2. DOMAIN funcG = 1 .. Len(funcG)
    BY <2>1, LenProperties
  <2> QED
    BY <2>1, <2>2, ElementOfSeq DEF Range
<1> QED
  BY <1>0, <1>7, <1>8 DEF TypeOK, OrderInv, VarTypes, DeclPhase, OrderPhase

\* The path is the list of the calls, and the colors are its inverse.
LEMMA PathHolds == ASSUME IInv PROVE ColorsArePath
<1>0. VarTypes /\ StackInv /\ ColorInv
  BY DEF IInv
<1>1. PICK L \in Nat : L = Len(stack)
  BY <1>0, Kinds
<1>2. /\ objPath \in Seq(Obj) /\ Len(objPath) = L /\ DOMAIN objPath = 1 .. L
      /\ DOMAIN stack = 1 .. L /\ objPath \in [1 .. L -> Obj]
      /\ \A n \in 1 .. L : objPath[n] = stack[n].obj
  BY <1>0, <1>1, LenProperties DEF VarTypes, StackInv
<1>3. objPath = [n \in DOMAIN stack |-> stack[n].obj]
  BY <1>2
<1>4. IsInjective(objPath)
  BY <1>0, <1>1, <1>2 DEF StackInv, IsInjective
<1>5. \A o \in Obj : IsGrey(o) => objPath[color[o] - grey + 1] = o
  BY <1>0, <1>1, <1>2 DEF ColorInv, Place
<1>6. \A o \in Range(objPath) : IsGrey(o) \/ Kind(o) = "func"
  BY <1>0, <1>1, <1>2 DEF ColorInv, Range
<1>7. /\ \A o \in Obj : color[o] = black => typ[o] # "none"
      /\ \A o \in Obj : IsType(o) /\ color[o] = white => typ[o] = "none"
  BY <1>0 DEF ColorInv, IsType, IsValue
<1> QED
  BY <1>3, <1>4, <1>5, <1>6, <1>7 DEF ColorsArePath

\* When all bodies have been checked, the dependencies are those of the text.
LEMMA DepsHold == ASSUME IInv PROVE DepsAreRefs
<1> SUFFICES ASSUME phase \notin {"objects", "delayed"}, NEW o \in Obj
             PROVE  /\ deps[o] \subseteq Refs(o)
                    /\ prog[o].lhs = o /\ typ[o] # "invalid" => deps[o] = Refs(o)
  BY DEF DepsAreRefs
<1>0. VarTypes /\ ColorInv /\ DepsInv
  BY DEF IInv
<1>1. stack = <<>> /\ todo = {} /\ delayed = <<>>
  BY <1>0 DEF VarTypes, DeclPhase
<1>2. color[o] # white
  BY <1>0, <1>1 DEF ColorInv
<1>3. ASSUME prog[o].lhs = o, typ[o] # "invalid" PROVE Refs(o) \subseteq deps[o]
  <2>1. ~Declaring(o)
    BY <1>1 DEF Declaring
  <2>2. Covered(o)
    BY <1>0, <1>2, <1>3, <2>1 DEF DepsInv
  <2>3. Pending(o) = {}
    BY <1>1 DEF Pending, Bodies, Range
  <2> QED
    BY <1>3, <2>2, <2>3 DEF Covered
<1> QED
  BY <1>0, <1>3 DEF DepsInv

\* The cycles that have been found are cycles of references.
LEMMA CyclesHold == ASSUME IInv PROVE ReportedCyclesExist
<1> SUFFICES ASSUME NEW c \in cycles
             PROVE  /\ \A n \in DOMAIN c.path :
                          RefersTo(c.path[n], c.path[IF n = Len(c.path) THEN 1 ELSE n + 1])
                    /\ ~c.valid => Justified(c)
  BY DEF ReportedCyclesExist, Justified
<1>1. IsCycle(c.path) /\ (~c.valid => Justified(c))
  BY DEF IInv, CycleInv
<1>2. DOMAIN c.path = 1 .. Len(c.path)
  BY <1>1, LenProperties DEF IsCycle
<1> QED
  BY <1>1, <1>2 DEF IsCycle

\* At the end all aliases are black: a cycle of them has been reported.
LEMMA AliasCyclesHold == ASSUME IInv PROVE AliasCyclesReported
<1> SUFFICES ASSUME phase \notin {"objects", "delayed"}, ~Reported,
                    NEW S \in SUBSET LoneAliases, S # {}, Closed(S)
             PROVE  FALSE
  BY DEF AliasCyclesReported, Closed, Reported
<1>0. VarTypes /\ ColorInv /\ AliasInv
  BY DEF IInv
<1>1. stack = <<>> /\ todo = {} /\ Len(stack) = 0
  BY <1>0 DEF VarTypes, DeclPhase
<1>2. ASSUME NEW o \in Aliases PROVE color[o] = black
  <2>1. o \in Obj /\ color[o] \in Nat
    BY <1>0, Kinds
  <2>2. color[o] # white
    BY <1>0, <1>1, <2>1 DEF ColorInv
  <2>3. ~IsGrey(o)
    BY <1>0, <1>1, <2>1 DEF ColorInv
  <2> QED
    BY <2>1, <2>2, <2>3 DEF IsGrey, white, grey, black
<1>3. ASSUME BlackIsAcyclic PROVE FALSE
  BY <1>2, <1>3 DEF BlackIsAcyclic, LoneAliases
<1> QED
  BY <1>0, <1>3 DEF AliasInv

\* If no cycle has been reported, the graph is that of the references in the source.
LEMMA DepsOfIs ==
    ASSUME IInv, phase \in OrderPhase, ~Reported, NEW o \in Nodes
    PROVE  DepsOf(o) = Refs(o) /\ Refs(o) \subseteq Nodes
<1>0. VarTypes /\ ColorInv /\ DepsInv
  BY DEF IInv
<1>1. stack = <<>> /\ todo = {} /\ delayed = <<>>
  BY <1>0 DEF VarTypes, OrderPhase
<1>2. PICK l : l = prog[o].lhs
  OBVIOUS
<1>3. o \in Obj /\ l \in Obj /\ prog[l] = prog[o]
  BY <1>0, <1>2, FiniteNodes, Program DEF VarTypes
<1>4. color[l] # white
  BY <1>0, <1>1, <1>3 DEF ColorInv
<1>5. ~Declaring(l)
  BY <1>1 DEF Declaring
<1>6. prog[l].lhs = l
  BY <1>2, <1>3
<1>7. Covered(l)
  BY <1>0, <1>3, <1>4, <1>5, <1>6 DEF DepsInv
<1>8. Pending(l) = {}
  BY <1>1 DEF Pending, Bodies, Range
<1>9. deps[l] = Refs(l)
  BY <1>0, <1>3, <1>7, <1>8 DEF Covered, DepsInv
<1>10. Refs(l) = Refs(o)
  BY <1>3 DEF Refs, IsType, Kind
<1>11. Refs(o) \subseteq Nodes
  BY <1>0, <1>3, Program DEF VarTypes, Refs, Nodes
<1> QED
  BY <1>2, <1>9, <1>10, <1>11 DEF DepsOf

\* Then what a node needs is what the dependencies lead to.
LEMMA NeedsAre ==
    ASSUME IInv, phase \in OrderPhase, ~Reported, NEW o \in Nodes, NEW m \in Nodes, NEW X
    PROVE  m \in Needs(o, X) <=> Leads(Nodes, Depend, o, m, X)
<1>1. \A a, b \in Nodes : <<a, b>> \in Depend <=> b \in Refs(a)
  BY DepsOfIs DEF Depend
<1>2. \A a \in Nodes : \A S : Refs(a) \subseteq S <=> \A b \in Nodes : <<a, b>> \in Depend => b \in S
  BY <1>1, DepsOfIs
<1>3. \A S \in SUBSET Nodes : (\A d \in S \cap X : Refs(d) \subseteq S) <=>
         \A k \in S \cap X : \A s \in Nodes : <<k, s>> \in Depend => s \in S
  BY <1>2
<1> QED
  BY <1>2, <1>3 DEF Needs, Leads

\* When the heap is empty, a cycle has been reported if there is one, and only then.
LEMMA InitCyclesHold == ASSUME IInv, SoundInv PROVE InitCyclesReported
<1> SUFFICES ASSUME phase = "done", ~Reported
             PROVE  initErrors # {} <=> \E o \in Nodes \ Funcs : o \in Needs(o, Nodes)
  BY DEF InitCyclesReported, Reported
<1>0. VarTypes /\ OrderInv /\ GraphInv /\ ErrorInv
  BY DEF IInv, SoundInv
<1>1. phase \in OrderPhase /\ phase \in Ordering /\ queue = {}
  BY <1>0 DEF OrderPhase, Ordering, OrderInv
<1>2. \A o \in Plain : o \in Nodes /\ (o \in Needs(o, Nodes) <=> Leads(Nodes, Depend, o, o, Nodes))
  BY <1>0, <1>1, PlainKinds, NeedsAre
<1>3. \A o \in Plain : Leads(Nodes, edges, o, o, Nodes) <=> Leads(Nodes, Depend, o, o, Nodes)
  BY <1>0, <1>1 DEF GraphInv
<1>4. ASSUME initErrors = {}, NEW o \in Plain PROVE o \notin Needs(o, Nodes)
  BY <1>0, <1>1, <1>2, <1>3, <1>4 DEF ErrorInv
<1>5. ASSUME NEW o \in initErrors PROVE o \in Plain /\ o \in Needs(o, Nodes)
  BY <1>0, <1>2 DEF ErrorInv
<1> QED
  BY <1>4, <1>5 DEF Plain

\* When the heap is empty, the list is in the order of the language.
LEMMA OrderHolds == ASSUME IInv, SoundInv PROVE OrderIsGo
<1> SUFFICES ASSUME phase = "done", NoErrors
             PROVE  /\ Range(InitOrderOut) = {prog[v].lhs : v \in {v \in Vars : prog[v].hasInit}}
                    /\ \A n \in DOMAIN InitOrderOut : \A w \in Needs(InitOrderOut[n], Funcs) \cap Vars :
                          prog[w].hasInit => \E m \in 1 .. n - 1 : InitOrderOut[m] = prog[w].lhs
                    /\ (\A v \in Vars : prog[v].lhs = v) =>
                          LET needs == [v \in Vars |-> Needs(v, Funcs) \cap Vars]
                          IN  \E place \in [Vars -> 1 .. Cardinality(Vars)] :
                                 IsGoOrder(place, needs) /\ IsInitOrder(place)
  BY DEF OrderIsGo
<1>0. VarTypes /\ OrderInv /\ GraphInv /\ ErrorInv /\ OutInv /\ PlaceInv
  BY DEF IInv, SoundInv
<1>1. phase \in OrderPhase /\ phase \in Ordering /\ queue = {} /\ Taken = Vars /\ ~Reported /\ initErrors = {}
  BY <1>0 DEF OrderPhase, Ordering, OrderInv, Taken, NoErrors, Reported
<1>2. NoCycles
  BY <1>0, <1>1 DEF NoCycles, ErrorInv
<1>3. PICK L \in Nat : L = Len(InitOrderOut) /\ InitOrderOut \in Seq(Obj) /\ DOMAIN InitOrderOut = 1 .. L
  BY <1>0, LenProperties DEF OrderInv
<1>4. \A k \in 1 .. L : InitOrderOut[k] \in Obj
  BY <1>3, ElementOfSeq
<1>5. \A l \in Obj : l \in Range(InitOrderOut) <=> \E v \in Vars : prog[v].hasInit /\ prog[v].lhs = l
  BY <1>0, <1>1 DEF OutInv
<1>6. Range(InitOrderOut) \subseteq Obj /\ Vars \subseteq Obj
  BY <1>3, <1>4 DEF Range, Vars
<1>7. \A v \in Vars : prog[v].lhs \in Vars /\ prog[v].lhs \in Obj
  BY <1>0, <1>6, SiblingsRequire
<1>8. Range(InitOrderOut) = {prog[v].lhs : v \in {v \in Vars : prog[v].hasInit}}
  BY <1>5, <1>6, <1>7
<1>9. \A k \in 1 .. L : InitOrderOut[k] \in Vars
  <2> SUFFICES ASSUME NEW k \in 1 .. L PROVE InitOrderOut[k] \in Vars
    OBVIOUS
  <2>1. InitOrderOut[k] \in Range(InitOrderOut) /\ InitOrderOut[k] \in Obj
    BY <1>3, <1>4 DEF Range
  <2>2. PICK v \in Vars : prog[v].lhs = InitOrderOut[k]
    BY <1>5, <2>1
  <2> QED
    BY <1>7, <2>2
<1>10. \A v, w \in Vars : w \in Needs(v, Funcs) <=> <<v, w>> \in Requires
  <2>1. Vars \subseteq Nodes
    BY <1>0, PlainKinds
  <2> QED
    BY <1>1, <2>1, NeedsAre DEF Requires
<1>11. ASSUME NEW n \in DOMAIN InitOrderOut, NEW w \in Needs(InitOrderOut[n], Funcs) \cap Vars,
              prog[w].hasInit
       PROVE  \E m \in 1 .. n - 1 : InitOrderOut[m] = prog[w].lhs
  <2>1. n \in 1 .. L
    BY <1>3
  <2>2. <<InitOrderOut[n], w>> \in Requires
    BY <1>9, <1>10, <1>11, <2>1
  <2>3. PICK j \in 1 .. L : j < n /\ InitOrderOut[j] = prog[w].lhs
    BY <1>0, <1>1, <1>2, <1>3, <1>11, <2>1, <2>2 DEF OutInv
  <2>4. j \in 1 .. n - 1
    BY <2>1, <2>3
  <2> QED
    BY <2>3, <2>4
<1>12. ASSUME \A v \in Vars : prog[v].lhs = v,
              NEW needs, needs = [v \in Vars |-> Needs(v, Funcs) \cap Vars]
       PROVE  \E place \in [Vars -> 1 .. Cardinality(Vars)] : IsGoOrder(place, needs) /\ IsInitOrder(place)
  <2>1. PICK place \in [Vars -> Nat] : Placed(place, Vars, Vars, Requires, InitOrderOut)
    BY <1>0, <1>1, <1>2, <1>12 DEF PlaceInv, Placeable
  <2>2. /\ \A v \in Vars : place[v] \in 1 .. Cardinality(Vars)
        /\ \A v, w \in Vars : place[v] = place[w] => v = w
        /\ \A v \in Vars : \A w \in Vars : <<v, w>> \in Requires => place[w] < place[v]
        /\ \A v \in Vars : \A u \in Vars : place[v] < place[u] /\ u < v =>
              \E w \in Vars : <<u, w>> \in Requires /\ place[v] <= place[w]
        /\ \A k, n \in 1 .. L : k < n => place[InitOrderOut[k]] < place[InitOrderOut[n]]
    BY <1>3, <2>1 DEF Placed
  <2>3. place \in [Vars -> 1 .. Cardinality(Vars)]
    BY <2>1, <2>2
  <2>4. \A v \in Vars : \A w : w \in needs[v] <=> w \in Vars /\ <<v, w>> \in Requires
    BY <1>10, <1>12
  <2>5. IsGoOrder(place, needs)
    BY <2>2, <2>4 DEF IsGoOrder
  <2>6. IsInitOrder(place)
    BY <1>3, <2>2 DEF IsInitOrder
  <2> QED
    BY <2>3, <2>5, <2>6
<1> QED
  BY <1>8, <1>11, <1>12

\* The variables have their types, and the heap counts the dependencies that wait.
THEOREM TypeCorrect == Spec => []TypeOK
<1>1. IInv => TypeOK
  BY TypesHold
<1> QED
  BY <1>1, Invariance, PTL

\* Colors are the places of the path, and each declaration has the dependencies of its text.
THEOREM DeclsTracked == Spec => []DeclsAreTracked
<1>1. IInv => DeclsAreTracked
  BY TypesHold, PathHolds, DepsHold DEF DeclsAreTracked
<1> QED
  BY <1>1, Invariance, PTL

\* The cycles that validCycle and reportCycle report are there.  A cycle of aliases is
\* reported unless one of them is on a cycle with a type definition, too (LoneAliases); an
\* initialization cycle is always reported.
THEOREM CyclesExact == Spec => []CyclesAreExact
<1>1. IInv /\ SoundInv => CyclesAreExact
  BY CyclesHold, AliasCyclesHold, InitCyclesHold DEF CyclesAreExact
<1> QED
  BY <1>1, Invariance, Soundness, PTL

\* Without errors, variables are initialized in the order of the language.
THEOREM OrderCorrect == Spec => []OrderIsGo
<1>1. IInv /\ SoundInv => OrderIsGo
  BY OrderHolds
<1> QED
  BY <1>1, Invariance, Soundness, PTL
================================================================================
