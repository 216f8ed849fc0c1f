-------------------------------- MODULE MCTypes --------------------------------
(***************************************************************************)
(* Small instances of sequential algorithms of the type checker. Each      *)
(* behaviour is one of them (algorithm) on one input; the variables of     *)
(* their modules are v1, v2, ..., of which it leaves some alone.           *)
(***************************************************************************)
EXTENDS Naturals, Sequences, FiniteSets

CONSTANTS
    Algorithms,   \* those that are run
    TgoPrograms,  \* the programs that TgoStmt runs
    InferCalls    \* the calls that Infer looks at

VARIABLES algorithm, v1, v2, v3, v4, v5, v6, v7

Cases == INSTANCE MCTypesCases

L == INSTANCE LookUp WITH
        Programs <- Cases!MCHierarchies, Selectors <- {"m", "M"},
        types <- v1, returned <- v2
S == INSTANCE Sizes WITH
        MaxInt <- 127, Layouts <- Cases!MCLayouts, Structs <- Cases!MCStructs,
        sizes <- v1, typ <- v2, returned <- v3
I == INSTANCE Infer WITH
        Calls <- InferCalls, Under <- Cases!MCUnder, Declared <- Cases!MCDeclared,
        MethodNames <- Cases!MCMethodNames, CoreOf <- Cases!MCCoreOf, DepthLimit <- 12,
        call <- v1, u <- v2, phase <- v3, arg <- v4, inferred <- v5, dirty <- v6, passes <- v7
X == INSTANCE TgoStmt WITH
        Programs <- TgoPrograms, TgoFunc <- TRUE, MaxTags <- 3,
        fun <- v1, errors <- v2, pc <- v3, tags <- v4

AllAlgorithms == {"LookUp", "Sizes", "Infer", "TgoStmt"}
AllTgoPrograms == Cases!MCPrograms
AllCalls == Cases!MCCalls

Init ==
    /\ algorithm \in Algorithms
    /\ \/ algorithm = "LookUp" /\ L!Init /\ (v3 = 0 /\ v4 = 0 /\ v5 = 0 /\ v6 = 0 /\ v7 = 0)
       \/ algorithm = "Sizes" /\ S!Init /\ (v4 = 0 /\ v5 = 0 /\ v6 = 0 /\ v7 = 0)
       \/ algorithm = "Infer" /\ I!Init
       \/ algorithm = "TgoStmt" /\ X!Init /\ (v5 = 0 /\ v6 = 0 /\ v7 = 0)

Next ==
    /\ \/ algorithm = "LookUp" /\ L!Next /\ UNCHANGED <<v3, v4, v5, v6, v7>>
       \/ algorithm = "Sizes" /\ S!Next /\ UNCHANGED <<v4, v5, v6, v7>>
       \/ algorithm = "Infer" /\ I!Next
       \/ algorithm = "TgoStmt" /\ X!Next /\ UNCHANGED <<v5, v6, v7>>
    /\ UNCHANGED algorithm

vars == <<algorithm, v1, v2, v3, v4, v5, v6, v7>>
Spec == Init /\ [][Next]_vars

-----------------------------------------------------------------------------
(* Properties; they are explained in the modules. Those that are calls of one  *)
(* function are stated of the step in which it returns.                      *)

\* A selector finds what the language says (lookupFieldOrMethod), and the two other searches
\* for methods, of method sets and of missing methods, agree with it.
FindsWhatIsSelected ==
    [][algorithm = "LookUp" => L!FindsWhatIsSelected /\ L!MethodSetInSync /\ L!MissingIsNotInSet]_vars

\* Sizes and offsets are exact, or negative if they do not fit.
LayoutIsExact == [][algorithm = "Sizes" => S!LayoutIsExact]_vars

\* Inferred type arguments are the one solution of the equations of a call, in whatever
\* order the arguments come; and substituting what has been inferred into itself ends.
InferredIsTheSolution == algorithm = "Infer" => I!InferredIsTheSolution /\ I!OrderFree /\ I!SimplifyEnds

\* Accepted functions close the tags they open and write in their places; those found to be
\* terminating do not run off their end; and exactly the jumps are rejected that the language
\* rejects, but for a known exception.
RunsAsChecked ==
    algorithm = "TgoStmt" => /\ X!BodiesAreClosed /\ X!WritesArePlaced /\ X!NeverFallsOff
                             /\ X!GotosAreChecked /\ X!OnlyBadJumpsOrBack

\* A jump out of an element does not skip its end tag.
EndTagsReached == algorithm = "TgoStmt" => X!EndTagsReached

\* The label of a break is that of a statement around it.
LabelsEnclose == algorithm = "TgoStmt" => X!LabelsEnclose

\* Programs for the counterexamples.
EscapePrograms == Cases!EscapePrograms
LoopPrograms == Cases!LoopPrograms
==============================================================================
