-------------------------------- MODULE MCCalls --------------------------------
(***************************************************************************)
(* Small instances of the algorithms that are one call: from an input of   *)
(* the algorithm to what it returns. What is true of every call is a       *)
(* property of the step that returns.                                      *)
(***************************************************************************)
EXTENDS Naturals, Sequences

CONSTANT Algorithms   \* those that are called

VARIABLES algorithm, input, returned
vars == <<algorithm, input, returned>>

Cases == INSTANCE MCCallsCases
Programs == INSTANCE MCProgramsCases

P == INSTANCE Printer WITH MaxNestLev <- 9
G == INSTANCE Arguments WITH Under <- Programs!MCNone, Declared <- Programs!MCNone, MethodNames <- Programs!MCNone,
                             CoreOf <- Programs!MCNone, DepthLimit <- 20
C == INSTANCE Constant WITH Width <- 4, Prec <- 6, MaxExp <- 8, Delta <- 1, ByteBits <- 2, WordBytes <- 2
E == INSTANCE Typing WITH Width <- 4, Prec <- 6, MaxExp <- 8, Delta <- 1, ByteBits <- 2, WordBytes <- 2,
                          SmallBits <- 3, FloatBits <- 3, FloatExp <- 7, ShiftBound <- 7
O == INSTANCE Collect
I == INSTANCE Imports
L == INSTANCE LineTable
M == INSTANCE Mono
U == INSTANCE Using
V == INSTANCE ValidType
Y == INSTANCE Parsing WITH MaxNestLev <- 9, Inputs <- Cases!MCInputs

Inputs == CASE algorithm = "Printing" -> Cases!MCTexts
            [] algorithm = "Constant" -> Cases!MCOps
            [] algorithm = "Typing" -> Cases!MCExpressions
            [] algorithm = "ValidType" -> Programs!MCThreeTypes
            [] algorithm = "Mono" -> Programs!MCInstantiations
            [] algorithm = "Using" -> Programs!MCFunctions
            [] algorithm = "LineTable" -> Cases!MCCalls
            [] algorithm = "Imports" -> Cases!MCBlocks
            [] algorithm = "Collect" -> Programs!MCPackages
            [] algorithm = "Arguments" -> Programs!MCCalls
            [] algorithm = "Templates" -> Cases!MCTemplates
            [] algorithm = "Parsing" -> Cases!MCInputs

Init ==
    /\ algorithm \in Algorithms
    /\ \E family \in Inputs : input \in family
    /\ returned = FALSE

Return == ~returned /\ returned' = TRUE /\ UNCHANGED <<algorithm, input>>
Next == Return
Spec == Init /\ [][Next]_vars

-----------------------------------------------------------------------------
(* Properties of the modules; they are explained there.                      *)

\* What is printed is the file that was parsed, and formatting comes to an end.
FormattingKeeps == [][algorithm = "Printing" => P!FormattingKeeps(input)]_vars

\* Operations on constants are exact, whatever the representations.
ConstantsAreExact == [][algorithm = "Constant" => C!ConstantsAreExact(input)]_vars

\* The tree of an accepted file is the whole file, in its order and with its precedences.
TreeIsInput == [][algorithm = "Parsing" => Y!TreeIsInput(input)]_vars

\* The parser ends on whatever it is given, after counted attempts, and so does its resolver.
RecoveryEnds == [][algorithm = "Parsing" => Y!RecoveryEnds(input)]_vars

\* The resolver ends on any tree that the parser leaves.
ResolverEnds == [][algorithm = "Parsing" => Y!ResolverEnds(input)]_vars

\* A name is resolved to the object of the innermost declaration that it can see.
NamesAreResolved == [][algorithm = "Parsing" => Y!NamesAreResolved(input)]_vars

\* Expressions are accepted if the language does, with the types it gives them.
TypesAreRecorded == [][algorithm = "Typing" => E!TypesAreRecorded(input)]_vars

\* Types that contain themselves and instantiations without end are found.
CyclesAreFound ==
    [][/\ algorithm = "ValidType" => V!InfiniteTypesAreFound(input, Programs!MCNames)
       /\ algorithm = "Mono" => M!LoopsAreFound(input, Programs!MCDepth)]_vars

\* The type arguments of a call are those that its equations have, and every argument is checked.
CallsAreInferred == [][algorithm = "Arguments" => G!CallsAreInferred(input) /\ G!ArgumentsAreUsed(input)]_vars

\* Variables are declared, assigned and used as the language says.
VariablesAreUsed == [][algorithm = "Using" => U!VariablesAreUsed(input)]_vars

\* Every table has the lines of its own file.
TablesAreTheirs == [][algorithm = "LineTable" => L!TablesAreTheirs(input, Cases!MCFiles)]_vars

\* Sorting imports keeps what is imported.
ImportsAreSorted == [][algorithm = "Imports" => I!ImportsAreSorted(input)]_vars

\* The declarations of a package are those of all its files.
ObjectsAreCollected == [][algorithm = "Collect" => O!ObjectsAreCollected(input)]_vars

\* What a template writes has the type that is recorded for it.
TemplatesAreTyped == [][algorithm = "Templates" => E!TemplatesAreTyped(input, Cases!MCAllowed)]_vars
==============================================================================
