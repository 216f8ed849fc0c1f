------------------------------- MODULE MCShared -------------------------------
(***************************************************************************)
(* Small instances of the counter of running checkers (AliasMode), generic *)
(* types and their instances (Named), a file set with a file of another    *)
(* one (FileSet), and the type sets of programs of interfaces (TypeSets).  *)
(* Each behaviour is one of them (machine), the others do not move.        *)
(*                                                                         *)
(* The types of Named are type A[P] struct{ *B[P] } with a method that     *)
(* mentions C[P] and one that mentions A[P], type B[P] struct{ *C[P] },    *)
(* and type C[P] struct{ *B[P]; *A[P] }.                                   *)
(***************************************************************************)
EXTENDS AliasMode, Sequences, FiniteSetTheorems, TLAPS

CONSTANTS
    Machines,      \* those that run
    A, B, C, g1, g2, g3, f1, f2, foreign, NoFile, NoGoroutine

\* Nil pointers are none of the files and goroutines.
ASSUME NilAssumption ==
    /\ NoFile \notin {f1, f2, foreign}
    /\ NoGoroutine \notin {g1, g2, f1, f2, foreign, NoFile}

VARIABLES
    machine,
    origin, inst, ctxt, npc, op, todo, done, known, funcs, results,
    base, files, last, writer, readers, fbase, fsize, fpc, f, x, i, allocated,
    within, added, retired, gone, stable, lost, seen,
    ifaces, complete, tset, calls, loose

namedVars == <<origin, inst, ctxt, npc, op, todo, done, known, funcs, results>>
fileVars == <<base, files, last, writer, readers, fbase, fsize, fpc, f, x, i, allocated,
              within, added, retired, gone, stable, lost, seen>>
setVars == <<ifaces, complete, tset, calls, loose>>
allVars == <<machine, vars, namedVars, fileVars, setVars>>

Goroutines2 == {g1, g2}
Goroutines3 == {g1, g2, g3}

Declared == {A, B, C}
URefs == [o \in Declared |-> IF o = A THEN <<B>> ELSE IF o = B THEN <<C>> ELSE <<B, A>>]
MRefs == [o \in Declared |-> IF o = A THEN <<<<C>>, <<A>>>> ELSE <<>>]

N == INSTANCE NamedProofs WITH
        Goroutine <- {g1, g2}, Origin <- Declared, Roots <- {A}, pc <- npc

\* Calls, and those of their callbacks; sizes and bases as in MCFileSet.
F == INSTANCE FileSetProofs WITH
        Goroutine <- {g1, g2}, Concurrent <- FALSE, File <- {f1, f2, foreign}, Foreign <- {foreign},
        MaxInt <- 5, Size <- {-1, 1}, BaseArg <- {-1, 2}, Pos <- {1, 3}, pc <- fpc

-----------------------------------------------------------------------------
\* int and slice, named types of each; string, N2 and S2 are in no program.
GoTypes == {"int", "slice", "string", "N", "S", "N2", "S2"}
GoUnder == [t \in GoTypes |-> CASE t \in {"int", "N", "N2"} -> "int"
                                [] t = "string" -> "string"
                                [] OTHER -> "slice"]
GoMethod == [name : {"m", "n"}, sig : 1 .. 2]
M(s) == [name |-> "m", sig |-> s]
GoMethods == [t \in GoTypes |-> CASE t \in {"N", "S2"} -> {M(1)}
                                  [] t = "N2" -> {M(1), [name |-> "n", sig |-> 1]}
                                  [] OTHER -> {}]

OfType(tilde, t) == [kind |-> "type", tilde |-> tilde, typ |-> t]
OfIface(k) == [kind |-> "iface", iface |-> k]
Either(ts) == [kind |-> "union", terms |-> ts]
CMP == [kind |-> "comparable"]
Ifaces(mss, ess) == {[methods |-> ms, elems |-> es] : ms \in mss, es \in ess}

Terms == {OfType(FALSE, "int"), OfType(TRUE, "int"), OfType(FALSE, "N"), OfType(TRUE, "N"),
          OfType(TRUE, "slice"), OfType(FALSE, "S")}
Ones == {Either(<<t>>) : t \in Terms}
Unions == Ones \cup {Either(<<t, u>>) : t \in Terms, u \in Terms}
          \cup {Either(<<OfType(FALSE, "int"), OfType(FALSE, "N"), t>>) :
                   t \in {OfType(TRUE, "int"), OfType(FALSE, "S")}}

\* Interfaces that embed nothing, the first one, and both of these.
First == Ifaces({<<>>, <<M(1)>>}, {<<>>, <<CMP>>} \cup {<<u>> : u \in Ones})
Second == Ifaces({<<>>, <<M(1), M(2)>>}, {<<OfIface(1)>>, <<CMP, OfIface(1)>>})
Third == Ifaces({<<>>, <<M(2)>>}, {<<OfIface(1), OfIface(2)>>, <<OfIface(2), CMP>>})

GoPrograms ==
    {<<>>}
    \cup {<<s>> : s \in Ifaces({<<>>}, {<<u, e>> : u \in Unions, e \in Ones \cup {CMP}})}
    \cup {<<s, t>> : s \in Ifaces({<<>>}, {<<u>> : u \in Ones}),
                     t \in Ifaces({<<M(1)>>}, {<<OfIface(1), u>> : u \in Unions})}
    \cup {<<s, t>> : s \in First, t \in Ifaces({<<>>}, {<<Either(<<OfIface(1), u>>)>> : u \in Terms})}
    \cup {<<s, t, u>> : s \in First, t \in Second, u \in Third}

T == INSTANCE TypeSetsProofs WITH
        Types <- GoTypes, Under <- GoUnder, Comparable <- {"int", "string", "N", "N2"},
        Method <- GoMethod, Methods <- GoMethods,
        MaxTermCount <- 2, Programs <- GoPrograms

\* They are programs, and do not write down all types.
ASSUME GoAssumption == T!ProgramsOK /\ T!RichOK

-----------------------------------------------------------------------------
SharedInit ==
    /\ machine \in Machines
    /\ T!Init /\ (machine # "TypeSets" => ifaces = <<>>)
    /\ Init /\ N!Init /\ F!Init

SharedNext ==
    /\ \/ machine = "AliasMode" /\ Next /\ UNCHANGED <<namedVars, fileVars, setVars>>
       \/ machine = "Named" /\ N!Next /\ UNCHANGED <<vars, fileVars, setVars>>
       \/ machine = "FileSet" /\ F!Next /\ UNCHANGED <<vars, namedVars, setVars>>
       \/ machine = "TypeSets" /\ T!Next /\ UNCHANGED <<vars, namedVars, fileVars>>
    /\ UNCHANGED machine

\* The fairness of Named, in its behaviours.
SharedSpec ==
    /\ SharedInit
    /\ [][SharedNext]_allVars
    /\ \A g \in {g1, g2} :
        /\ WF_namedVars(machine = "Named" /\ N!Step(g))
        /\ SF_namedVars(machine = "Named" /\ N!Lock(g))
        /\ SF_namedVars(machine = "Named" /\ N!LockOrigin(g))
        /\ SF_namedVars(machine = "Named" /\ N!MethodLock(g))

-----------------------------------------------------------------------------
(* Properties of Named, FileSet, TypeSets; they are explained in the modules. *)

\* What the state of a type promises is there, and the assertions hold.
ReadsAreReady == N!ReadsAreReady /\ N!AssertionsHold

\* A method of an instance is one *Func, and references lead back to one instance.
MethodsAreCanonical == N!MethodsAreCanonical /\ N!CyclesClose

\* Every call of Underlying, Method and Instantiate returns.
CallsReturn == N!CallsReturn

\* Calls of a file set that do not overlap, but for those that callbacks make,
\* never see a removed file.
ImplementsStrictAbs == F!ImplementsStrictAbs

\* Type sets are those of the language, and implementing an interface is inclusion.
SetsAreExact == T!SetsAreExact /\ T!ImplementsIsInclusion

-----------------------------------------------------------------------------
(***************************************************************************)
(* What NamedProofs, FileSetProofs and TypeSetsProofs prove for all        *)
(* instances holds of these: while another machine moves, one does not.    *)
(***************************************************************************)

\* A behaviour, seen by the types, is one of Named.
LEMMA SharedIsNamed == SharedSpec => N!Spec
<1>1. SharedInit => N!Init
  BY DEF SharedInit
<1>2. [SharedNext]_allVars => [N!Next]_(N!vars)
  BY DEF SharedNext, allVars, namedVars, N!vars
<1> QED
  BY <1>1, <1>2, PTL DEF SharedSpec, N!Spec

\* A behaviour, seen by the files, is one of FileSet.
LEMMA SharedIsFileSet == SharedSpec => F!Spec
<1>1. SharedInit => F!Init
  BY DEF SharedInit
<1>2. [SharedNext]_allVars => [F!Next]_(F!vars)
  BY DEF SharedNext, allVars, fileVars, F!vars, F!setVars, F!lockVars, F!callVars, F!history
<1> QED
  BY <1>1, <1>2, PTL DEF SharedSpec, F!Spec

\* A behaviour, seen by the interfaces, is one of TypeSets.
LEMMA SharedIsTypeSets == SharedSpec => T!Spec
<1>1. SharedInit => T!Init
  BY DEF SharedInit
<1>2. [SharedNext]_allVars => [T!Next]_(T!vars)
  BY DEF SharedNext, allVars, setVars, T!vars
<1> QED
  BY <1>1, <1>2, PTL DEF SharedSpec, T!Spec

\* The three types are a program.
LEMMA Program == N!ProgramOK
<1>1. \A o \in Declared : URefs[o] \in Seq(Declared) /\ MRefs[o] \in Seq(Seq(Declared))
  <2>1. <<A>> \in Seq(Declared) /\ <<B>> \in Seq(Declared) /\ <<C>> \in Seq(Declared)
        /\ <<B, A>> \in Seq(Declared)
    BY DEF Declared
  <2>2. <<<<C>>, <<A>>>> \in Seq(Seq(Declared)) /\ <<>> \in Seq(Seq(Declared))
    BY <2>1
  <2> QED
    BY <2>1, <2>2 DEF URefs, MRefs
<1>2. URefs \in [Declared -> Seq(Declared)] /\ MRefs \in [Declared -> Seq(Seq(Declared))]
  BY <1>1 DEF URefs, MRefs
<1> QED
  BY <1>2, NilAssumption DEF N!ProgramOK, Declared

\* The constants of the files are as FileSet assumes.
LEMMA FileConstants == F!ConstantsAssumption
  BY NilAssumption DEF F!ConstantsAssumption

\* Nobody sees a half expanded type, whatever the goroutines do.
THEOREM ReadsReady == SharedSpec => []ReadsAreReady
  BY Program, SharedIsNamed, N!ReadsReady, PTL DEF ReadsAreReady

\* Methods of instances are one *Func each, and references close.
THEOREM Canonical == SharedSpec => []MethodsAreCanonical
  BY Program, SharedIsNamed, N!Canonical, PTL DEF MethodsAreCanonical

\* A look-up finds no removed file, even while Iterate's callback adds and removes
\* files.
THEOREM StrictRefinement == SharedSpec => ImplementsStrictAbs
  BY FileConstants, SharedIsFileSet, F!StrictRefinement, PTL DEF ImplementsStrictAbs

\* Type sets are those of the language.
THEOREM SetsExact == SharedSpec => []SetsAreExact
  BY GoAssumption, SharedIsTypeSets, T!SetsExact, T!ImplementsExact, PTL DEF SetsAreExact

-----------------------------------------------------------------------------
(***************************************************************************)
(* Proofs about AliasMode for any finite number of goroutines, whether the *)
(* panics are recovered or not.  The invariant that makes the rest hold    *)
(* says what _aliasAny counts: the checkers with aliases less those        *)
(* without, the refused ones included, for ever (CountInv).                *)
(***************************************************************************)

\* The states of a checker that has changed the counter.
Counted == {"check", "aliasAny", "mutated", "refused"}

Plus == {g \in Goroutine : pc[g] \in Counted /\ enable[g]}
Minus == {g \in Goroutine : pc[g] \in Counted /\ ~ enable[g]}

CountInv == inuse = Cardinality(Plus) - Cardinality(Minus) + leaked[1] - leaked[-1]

IInv == TypeOK /\ CountInv /\ ModesAgree

-----------------------------------------------------------------------------
\* There are finitely many counted checkers of either kind, and none of a
\* kind exactly when their number is 0.
LEMMA Finite ==
    /\ IsFiniteSet(Plus) /\ IsFiniteSet(Minus)
    /\ Cardinality(Plus) \in 0 .. Cardinality(Goroutine)
    /\ Cardinality(Minus) \in 0 .. Cardinality(Goroutine)
    /\ Cardinality(Goroutine) \in Nat
    /\ Cardinality(Plus) = 0 <=> Plus = {}
    /\ Cardinality(Minus) = 0 <=> Minus = {}
<1>1. Plus \subseteq Goroutine /\ Minus \subseteq Goroutine
  BY DEF Plus, Minus
<1> HIDE DEF Plus, Minus
<1>2. IsFiniteSet(Plus) /\ IsFiniteSet(Minus)
  BY <1>1, AliasAssumption, FS_Subset
<1>3. /\ Cardinality(Plus) \in Nat /\ Cardinality(Plus) <= Cardinality(Goroutine)
      /\ Cardinality(Minus) \in Nat /\ Cardinality(Minus) <= Cardinality(Goroutine)
      /\ Cardinality(Goroutine) \in Nat
  BY <1>1, <1>2, AliasAssumption, FS_Subset, FS_CardinalityType
<1>4. /\ Cardinality(Plus) = 0 <=> Plus = {}
      /\ Cardinality(Minus) = 0 <=> Minus = {}
  BY <1>2, FS_EmptySet
<1> QED
  BY <1>2, <1>3, <1>4

\* A step of g that enters (or leaves) the count changes one of the numbers.
LEMMA CountChanges ==
    ASSUME NEW g \in Goroutine, TypeOK, UNCHANGED enable,
           NEW l, Goto(g, l)
    PROVE  /\ pc[g] \notin Counted /\ l \in Counted =>
                 IF enable[g]
                 THEN /\ Cardinality(Plus') = Cardinality(Plus) + 1
                      /\ Cardinality(Minus') = Cardinality(Minus)
                 ELSE /\ Cardinality(Plus') = Cardinality(Plus)
                      /\ Cardinality(Minus') = Cardinality(Minus) + 1
           /\ pc[g] \in Counted /\ l \notin Counted =>
                 IF enable[g]
                 THEN /\ Cardinality(Plus') = Cardinality(Plus) - 1
                      /\ Cardinality(Minus') = Cardinality(Minus)
                 ELSE /\ Cardinality(Plus') = Cardinality(Plus)
                      /\ Cardinality(Minus') = Cardinality(Minus) - 1
           /\ (pc[g] \in Counted) = (l \in Counted) =>
                 Plus' = Plus /\ Minus' = Minus
<1>1. pc'[g] = l /\ \A h \in Goroutine : h # g => pc'[h] = pc[h]
  BY DEF Goto, TypeOK
<1>2. IsFiniteSet(Plus) /\ IsFiniteSet(Minus)
  BY Finite
<1>3. CASE pc[g] \notin Counted /\ l \in Counted
  <2>1. g \notin Plus /\ g \notin Minus
    BY <1>3 DEF Plus, Minus
  <2>2. CASE enable[g]
    <3>1. Plus' = Plus \cup {g} /\ Minus' = Minus
      BY <1>1, <1>3, <2>2 DEF Plus, Minus
    <3> QED
      BY <1>2, <1>3, <2>1, <2>2, <3>1, FS_AddElement
  <2>3. CASE ~ enable[g]
    <3>1. Plus' = Plus /\ Minus' = Minus \cup {g}
      BY <1>1, <1>3, <2>3 DEF Plus, Minus
    <3> QED
      BY <1>2, <1>3, <2>1, <2>3, <3>1, FS_AddElement
  <2> QED
    BY <2>2, <2>3
<1>4. CASE pc[g] \in Counted /\ l \notin Counted
  <2>1. CASE enable[g]
    <3>1. g \in Plus /\ Plus' = Plus \ {g} /\ Minus' = Minus
      BY <1>1, <1>4, <2>1 DEF Plus, Minus
    <3> QED
      BY <1>2, <1>4, <2>1, <3>1, FS_RemoveElement
  <2>2. CASE ~ enable[g]
    <3>1. g \in Minus /\ Plus' = Plus /\ Minus' = Minus \ {g}
      BY <1>1, <1>4, <2>2 DEF Plus, Minus
    <3> QED
      BY <1>2, <1>4, <2>2, <3>1, FS_RemoveElement
  <2> QED
    BY <2>1, <2>2
<1>5. CASE (pc[g] \in Counted) = (l \in Counted)
  BY <1>1, <1>5 DEF Plus, Minus
<1> QED
  BY <1>3, <1>4, <1>5

\* Without a refused checker, the counter shows the mode of those that run.
LEMMA Sign ==
    ASSUME IInv, NoneRefused
    PROVE  /\ inuse = 0 <=> \A g \in Goroutine : ~ Checking(g)
           /\ \A g \in Goroutine : Checking(g) => (inuse > 0) = enable[g]
<1>1. \A g \in Goroutine : Checking(g) <=> g \in Plus \cup Minus
  BY DEF IInv, TypeOK, Checking, Refused, NoneRefused, Plus, Minus, Counted
<1>2. Plus = {} \/ Minus = {}
  <2>1. ASSUME NEW g \in Plus, NEW h \in Minus PROVE FALSE
    <3>1. g \in Goroutine /\ h \in Goroutine /\ Checking(g) /\ Checking(h)
      BY <1>1, <2>1 DEF Plus, Minus
    <3> QED
      BY <2>1, <3>1 DEF IInv, ModesAgree, Plus, Minus
  <2> QED
    BY <2>1
<1>3. inuse = Cardinality(Plus) - Cardinality(Minus)
  BY Finite DEF IInv, CountInv, NoneRefused
<1>4. CASE Plus = {}
  <2>1. inuse <= 0 /\ (inuse = 0 <=> Minus = {})
    BY <1>3, <1>4, Finite
  <2>2. \A g \in Goroutine : Checking(g) => ~ enable[g]
    BY <1>1, <1>4 DEF Minus
  <2> QED
    BY <1>1, <1>4, <2>1, <2>2 DEF Minus, IInv, TypeOK
<1>5. CASE Minus = {}
  <2>1. inuse >= 0 /\ (inuse = 0 <=> Plus = {})
    BY <1>3, <1>5, Finite
  <2>2. \A g \in Goroutine : Checking(g) => enable[g]
    BY <1>1, <1>5 DEF Plus
  <2>3. \A g \in Goroutine : Checking(g) => inuse > 0
    BY <1>1, <1>5, <2>1 DEF IInv, TypeOK
  <2> QED
    BY <1>1, <1>5, <2>1, <2>2, <2>3 DEF Plus, IInv, TypeOK
<1> QED
  BY <1>2, <1>4, <1>5

\* The invariant holds before any checker runs.
LEMMA InitIInv == Init => IInv
<1> SUFFICES ASSUME Init PROVE IInv
  OBVIOUS
<1>1. TypeOK
  <2>1. enable \in [Goroutine -> BOOLEAN] /\ v \in [Goroutine -> BOOLEAN]
    BY Zenon DEF Init
  <2>2. inuse \in Int /\ leaked \in [{1, -1} -> Nat]
    BY DEF Init
  <2> QED
    BY <2>1, <2>2, Zenon DEF Init, TypeOK
<1>2. Plus = {} /\ Minus = {}
  BY DEF Init, Plus, Minus, Counted
<1>3. CountInv
  <2>1. Cardinality(Plus) = 0 /\ Cardinality(Minus) = 0
    BY <1>2, Finite
  <2> QED
    BY <2>1 DEF Init, CountInv
<1>4. ModesAgree
  BY DEF Init, ModesAgree, Checking
<1> QED
  BY <1>1, <1>3, <1>4 DEF IInv

\* A checker that is let in agrees with those that run, unless one has been
\* refused.
LEMMA Admission ==
    ASSUME IInv, NoneRefused,
           NEW g \in Goroutine, CheckFiles(g), pc'[g] = "check",
           NEW h \in Goroutine, Checking(h)
    PROVE  enable[h] = enable[g]
<1>1. /\ inuse \in Int /\ enable \in [Goroutine -> BOOLEAN]
      /\ pc \in [Goroutine -> {"idle", "checkFiles", "check", "aliasAny",
                               "mutated", "refused", "panic"}]
  BY DEF IInv, TypeOK
<1>2. (inuse + Delta(g)) * Delta(g) > 0
  <2>1. IF (inuse + Delta(g)) * Delta(g) > 0 THEN Goto(g, "check") ELSE Goto(g, "refused")
    BY DEF CheckFiles
  <2> QED
    BY <1>1, <2>1 DEF Goto
<1>3. inuse # 0 /\ (inuse > 0) = enable[h]
  BY Sign
<1>4. CASE enable[g]
  <2>1. (inuse + 1) * 1 > 0
    BY <1>2, <1>4 DEF Delta
  <2>2. inuse > 0
    BY <1>1, <1>3, <2>1
  <2> QED
    BY <1>1, <1>3, <1>4, <2>2
<1>5. CASE ~ enable[g]
  <2>1. (inuse + (-1)) * (-1) > 0
    BY <1>2, <1>5 DEF Delta
  <2>2. ~ (inuse > 0)
    BY <1>1, <1>3, <2>1
  <2> QED
    BY <1>1, <1>3, <1>5, <2>2
<1> QED
  BY <1>1, <1>4, <1>5

\* Every step keeps the invariant.
LEMMA IInvStep ==
    ASSUME IInv, [Next]_vars
    PROVE  IInv'
<1>1. TypeOK /\ CountInv /\ ModesAgree /\ leaked[1] \in Nat /\ leaked[-1] \in Nat
  BY DEF IInv, TypeOK
<1>2. TypeOK'
  <2>1. ASSUME NEW g \in Goroutine, Step(g) PROVE TypeOK'
    <3> USE <1>1, <2>1 DEF TypeOK, Goto
    <3>1. CASE NewChecker(g)
      BY <3>1 DEF NewChecker
    <3>2. CASE CheckFiles(g)
      BY <3>2 DEF CheckFiles, Delta
    <3>3. CASE LookupAny(g)
      BY <3>3 DEF LookupAny
    <3>4. CASE AliasAny(g)
      BY <3>4 DEF AliasAny
    <3>5. CASE Finish(g)
      BY <3>5 DEF Finish, Delta
    <3>6. CASE Recover(g)
      BY <3>6 DEF Recover, Delta
    <3>7. CASE Panic(g)
      BY <3>7 DEF Panic
    <3> QED
      BY <3>1, <3>2, <3>3, <3>4, <3>5, <3>6, <3>7 DEF Step
  <2>2. CASE SetGoDebug
    BY <1>1, <2>2 DEF SetGoDebug, TypeOK
  <2>3. CASE UNCHANGED vars
    BY <1>1, <2>3 DEF vars, TypeOK
  <2> QED
    BY <2>1, <2>2, <2>3 DEF Next
<1>3. CASE UNCHANGED <<inuse, pc, enable, leaked>>
  BY <1>1, <1>2, <1>3
     DEF IInv, CountInv, Plus, Minus, ModesAgree, Checking, NoneRefused, Refused
<1>4. ASSUME NEW g \in Goroutine, NewChecker(g) PROVE IInv'
  <2>1. /\ pc[g] = "idle" /\ pc' = [pc EXCEPT ![g] = "checkFiles"]
        /\ \A h \in Goroutine : h # g => enable'[h] = enable[h]
        /\ inuse' = inuse /\ leaked' = leaked
    BY <1>1, <1>4 DEF NewChecker, Goto, TypeOK
  <2>2. Plus' = Plus /\ Minus' = Minus
    BY <1>1, <2>1 DEF Plus, Minus, Counted, TypeOK
  <2>3. ModesAgree'
    BY <1>1, <2>1 DEF ModesAgree, Checking, NoneRefused, Refused, TypeOK
  <2> QED
    BY <1>1, <1>2, <2>1, <2>2, <2>3 DEF IInv, CountInv
<1>5. ASSUME NEW g \in Goroutine, CheckFiles(g) PROVE IInv'
  <2>1. PICK l \in {"check", "refused"} : Goto(g, l)
    BY <1>5 DEF CheckFiles
  <2>2. /\ pc[g] = "checkFiles" /\ pc'[g] = l
        /\ \A h \in Goroutine : h # g => pc'[h] = pc[h]
        /\ UNCHANGED <<enable, leaked>>
        /\ inuse' = inuse + Delta(g)
    BY <1>1, <1>5, <2>1 DEF CheckFiles, Goto, TypeOK
  <2>3. CountInv'
    <3>1. IF enable[g]
          THEN /\ Cardinality(Plus') = Cardinality(Plus) + 1
               /\ Cardinality(Minus') = Cardinality(Minus)
          ELSE /\ Cardinality(Plus') = Cardinality(Plus)
               /\ Cardinality(Minus') = Cardinality(Minus) + 1
      BY <1>1, <2>1, <2>2, CountChanges DEF Counted
    <3>2. Cardinality(Plus) \in Int /\ Cardinality(Minus) \in Int
      BY Finite
    <3> QED
      BY <1>1, <2>2, <3>1, <3>2 DEF CountInv, Delta
  <2>4. ModesAgree'
    <3>1. CASE l = "refused"
      BY <2>2, <3>1 DEF ModesAgree, NoneRefused, Refused
    <3>2. CASE ~ NoneRefused
      BY <2>2, <3>2 DEF ModesAgree, NoneRefused, Refused
    <3>3. CASE l = "check" /\ NoneRefused
      <4>1. \A h \in Goroutine : Checking(h) => enable[h] = enable[g]
        BY <1>5, <2>2, <3>3, Admission DEF IInv
      <4>2. \A h \in Goroutine : Checking(h)' => enable'[h] = enable'[g]
        BY <2>2, <4>1 DEF Checking
      <4> QED
        BY <4>2 DEF ModesAgree
    <3> QED
      BY <2>1, <3>1, <3>2, <3>3
  <2> QED
    BY <1>2, <2>3, <2>4 DEF IInv
<1>6. ASSUME NEW g \in Goroutine, LookupAny(g) \/ AliasAny(g) PROVE IInv'
  <2>1. PICK l \in {"check", "aliasAny", "mutated"} : Goto(g, l)
    BY <1>6 DEF LookupAny, AliasAny
  <2>2. /\ Checking(g) /\ pc'[g] = l
        /\ \A h \in Goroutine : h # g => pc'[h] = pc[h]
        /\ UNCHANGED <<enable, inuse, leaked>>
    BY <1>1, <1>6, <2>1 DEF LookupAny, AliasAny, Goto, TypeOK, Checking
  <2>3. CountInv'
    BY <1>1, <2>1, <2>2, CountChanges DEF CountInv, Counted, Checking
  <2>4. ModesAgree'
    BY <1>1, <2>1, <2>2 DEF ModesAgree, Checking, NoneRefused, Refused
  <2> QED
    BY <1>2, <2>3, <2>4 DEF IInv
<1>7. ASSUME NEW g \in Goroutine, Finish(g) PROVE IInv'
  <2>1. PICK l \in {"idle", "panic"} : Goto(g, l)
    BY <1>7 DEF Finish
  <2>2. /\ pc[g] \in {"check", "mutated"} /\ pc'[g] = l
        /\ \A h \in Goroutine : h # g => pc'[h] = pc[h]
        /\ UNCHANGED <<enable, leaked>>
        /\ inuse' = inuse - Delta(g)
    BY <1>1, <1>7, <2>1 DEF Finish, Goto, TypeOK
  <2>3. CountInv'
    <3>1. IF enable[g]
          THEN /\ Cardinality(Plus') = Cardinality(Plus) - 1
               /\ Cardinality(Minus') = Cardinality(Minus)
          ELSE /\ Cardinality(Plus') = Cardinality(Plus)
               /\ Cardinality(Minus') = Cardinality(Minus) - 1
      BY <1>1, <2>1, <2>2, CountChanges DEF Counted
    <3>2. Cardinality(Plus) \in Int /\ Cardinality(Minus) \in Int
      BY Finite
    <3> QED
      BY <1>1, <2>2, <3>1, <3>2 DEF CountInv, Delta
  <2>4. ModesAgree'
    BY <1>1, <2>1, <2>2 DEF ModesAgree, Checking, NoneRefused, Refused
  <2> QED
    BY <1>2, <2>3, <2>4 DEF IInv
<1>8. ASSUME NEW g \in Goroutine, Recover(g) PROVE IInv'
  <2>1. /\ pc[g] \in {"refused", "panic"} /\ Goto(g, "idle") /\ pc'[g] = "idle"
        /\ \A h \in Goroutine : h # g => pc'[h] = pc[h]
        /\ UNCHANGED <<enable, inuse>>
    BY <1>1, <1>8 DEF Recover, Goto, TypeOK
  <2>2. CASE pc[g] = "refused"
    <3>1. /\ enable[g] => leaked'[1] = leaked[1] + 1 /\ leaked'[-1] = leaked[-1]
          /\ ~ enable[g] => leaked'[-1] = leaked[-1] + 1 /\ leaked'[1] = leaked[1]
      <4>1. /\ leaked' = [leaked EXCEPT ![Delta(g)] = @ + 1]
            /\ leaked \in [{1, -1} -> Nat]
        BY <1>1, <1>8, <2>2 DEF Recover, TypeOK
      <4> QED
        BY <4>1 DEF Delta
    <3>2. IF enable[g]
          THEN /\ Cardinality(Plus') = Cardinality(Plus) - 1
               /\ Cardinality(Minus') = Cardinality(Minus)
          ELSE /\ Cardinality(Plus') = Cardinality(Plus)
               /\ Cardinality(Minus') = Cardinality(Minus) - 1
      BY <1>1, <2>1, <2>2, CountChanges DEF Counted
    <3>3. CountInv'
      BY <1>1, <2>1, <3>1, <3>2, Finite DEF CountInv
    <3>4. ~ NoneRefused'
      <4>1. leaked'[1] # 0 \/ leaked'[-1] # 0
        BY <1>1, <3>1
      <4> QED
        BY <4>1 DEF NoneRefused
    <3> QED
      BY <1>2, <3>3, <3>4 DEF IInv, ModesAgree
  <2>3. CASE pc[g] = "panic"
    <3>1. leaked' = leaked
      BY <1>8, <2>3 DEF Recover
    <3>2. Plus' = Plus /\ Minus' = Minus
      BY <1>1, <2>1, <2>3, CountChanges DEF Counted
    <3>3. ModesAgree'
      BY <1>1, <2>1, <2>3, <3>1 DEF ModesAgree, Checking, NoneRefused, Refused
    <3> QED
      BY <1>1, <1>2, <2>1, <3>1, <3>2, <3>3 DEF IInv, CountInv
  <2> QED
    BY <2>1, <2>2, <2>3
<1>9. ASSUME NEW g \in Goroutine, Panic(g) PROVE UNCHANGED <<inuse, pc, enable, leaked>>
  BY <1>9 DEF Panic
<1> QED
  BY <1>3, <1>4, <1>5, <1>6, <1>7, <1>8, <1>9 DEF Next, Step, SetGoDebug, vars

-----------------------------------------------------------------------------
\* _aliasAny is the sum of the modes of the checkers counted in it (checkFiles).
THEOREM Inductive == Spec => []IInv
<1>1. IInv /\ [Next]_vars => IInv'
  BY IInvStep
<1> QED
  BY <1>1, InitIInv, PTL DEF Spec

\* The variables keep their types.
THEOREM TypeCorrect == Spec => []TypeOK
<1>1. IInv => TypeOK
  BY DEF IInv
<1> QED
  BY <1>1, Inductive, PTL

\* Checkers that run at the same time agree about aliases until one is refused.
THEOREM CheckersAgree == Spec => []ModesAgree
<1>1. IInv => ModesAgree
  BY DEF IInv
<1> QED
  BY <1>1, Inductive, PTL

\* _aliasAny counts the checkers that run and, for ever, those that were refused;
\* as long as there are none, it is what its comment says it is.
THEOREM CounterIsRight == Spec => []CounterNamesMode
<1>1. ASSUME IInv PROVE CounterIsExact
  <2> DEFINE S == {g \in Goroutine : Checking(g) \/ Refused(g)}
  <2>1. {g \in S : enable[g]} = Plus /\ {g \in S : ~ enable[g]} = Minus
    BY DEF Plus, Minus, Counted, Checking, Refused
  <2> HIDE DEF S
  <2>2. Balance(S) = Cardinality(Plus) - Cardinality(Minus)
    BY <2>1 DEF Balance
  <2>3. inuse = Balance(S) + leaked[1] - leaked[-1]
    BY <1>1, <2>2 DEF IInv, CountInv
  <2> QED
    BY <2>3 DEF CounterIsExact, S
<1>2. IInv => CounterNamesMode
  BY <1>1, Sign DEF CounterNamesMode
<1> QED
  BY <1>2, Inductive, PTL

\* A running checker never gets the "any" of the other mode, until one is refused.
THEOREM AnyIsRight == Spec => AnyMatchesMode
<1>1. ASSUME IInv, [Next]_vars
      PROVE  [\A g \in Goroutine :
                 pc[g] = "aliasAny" /\ pc'[g] = "check" /\ NoneRefused
                 => v[g] = enable[g]]_vars
  <2> SUFFICES ASSUME Next, NEW g \in Goroutine, pc[g] = "aliasAny", pc'[g] = "check",
                      NoneRefused
               PROVE  v[g] = enable[g]
    BY <1>1
  <2>1. TypeOK
    BY <1>1 DEF IInv
  <2>2. AliasAny(g)
    <3>1. PICK h \in Goroutine : Step(h)
      BY <2>1 DEF Next, SetGoDebug
    <3>2. h = g
      <4>1. \E l : Goto(h, l) \/ pc' = pc
        BY <3>1 DEF Step, NewChecker, CheckFiles, LookupAny, AliasAny, Finish, Recover, Panic
      <4> QED
        BY <2>1, <4>1 DEF Goto, TypeOK
    <3> QED
      BY <3>1, <3>2
         DEF Step, NewChecker, CheckFiles, LookupAny, Finish, Recover, Panic, Goto, TypeOK
  <2>3. inuse # 0 /\ (inuse > 0) = enable[g]
    BY <1>1, Sign DEF Checking
  <2>4. v[g] = (inuse > 0)
    BY <2>1, <2>2, <2>3 DEF AliasAny, Goto, TypeOK
  <2> QED
    BY <2>3, <2>4
<1> QED
  BY <1>1, Inductive, PTL DEF Spec, AnyMatchesMode
==============================================================================
