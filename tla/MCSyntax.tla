------------------------------- MODULE MCSyntax -------------------------------
(***************************************************************************)
(* Small instances of the scanner (Lexer) and of the making of elements    *)
(* (ElementBlocks). Each behaviour is one of them (algorithm) on one       *)
(* input, and the other does not move.                                     *)
(***************************************************************************)
EXTENDS ElementBlocksProofs

CONSTANT Sources    \* the files that the scanner reads

VARIABLES algorithm, src, sc, tok, lpc, comments, lead, lits, levels, hist, skipped

lexerVars == <<src, sc, tok, lpc, comments, lead, lits, levels, hist, skipped>>

-----------------------------------------------------------------------------
(***************************************************************************)
(* Small files for Lexer: every sequence of up to N words, of a set of     *)
(* words that are about one thing.                                         *)
(***************************************************************************)

N == 4

Sentences(W, n) == {FlattenSeq(s) : s \in UNION {[1 .. k -> W] : k \in 0 .. n}}

\* Comments and newlines around tokens.
Commented == Sentences({<<"x">>, <<"\n">>, <<">">>, <<"/", "/">>, <<"/", "*", "*", "/">>,
                    <<"/", "*", "\n", "*", "/">>, <<"/", "*">>}, N)

\* Template literals, and literals inside them.
Hole == <<"\"", "\\", "{">>
CloseHole == <<"}", "\"">>
Piece == {Hole, <<"\\", "{">>, <<"\"">>, <<"x">>, <<"}">>, <<"\n">>}
Templates == {Hole \o s : s \in Sentences(Piece, N - 1)}
Nested == {Hole \o Hole \o s \o CloseHole : s \in Sentences(Piece, N - 2)}

\* Tags and operators.
LexTags == Sentences({<<"<">>, <<"/">>, <<">">>, <<"x">>, <<"\n">>, <<"\\">>}, N)

MCSources == Commented \cup Templates \cup Nested \cup LexTags

X == INSTANCE LexerProofs WITH pc <- lpc

\* The files are sequences of characters.
ASSUME SourcesAssumption == X!SourcesOK

-----------------------------------------------------------------------------
\* The lists of statements: at most 4 of every kind, and 5 and 6 tags of two kinds of elements.
Kinds(ks, names, labels) == [k : ks, name : names, label : labels]
Every ==
    Kinds({"open", "end"}, {"a", "b", "br"}, {FALSE})
    \cup Kinds({"end"}, {"a"}, {TRUE}) \cup Kinds({"other"}, {"a"}, {FALSE})
Tags == Kinds({"open", "end"}, {"a", "br"}, {FALSE}) \cup Kinds({"open"}, {"b"}, {FALSE})
MCName == {"a", "b", "br"}
MCLists ==
    UNION {[1 .. n -> Every] : n \in 0 .. 4} \cup [1 .. 5 -> Tags] \cup [1 .. 6 -> Tags]

SyntaxInit ==
    \/ algorithm = "ElementBlocks" /\ src = <<>> /\ X!Init /\ Init
    \/ algorithm = "Lexer" /\ list = <<>> /\ Init /\ X!Init

SyntaxNext ==
    /\ \/ algorithm = "ElementBlocks" /\ Next /\ UNCHANGED lexerVars
       \/ algorithm = "Lexer" /\ X!Next /\ UNCHANGED vars
    /\ UNCHANGED algorithm

\* Each algorithm goes on until it is done: the loops are those of one thread.
SyntaxSpec ==
    /\ SyntaxInit
    /\ [][SyntaxNext]_<<algorithm, vars, lexerVars>>
    /\ WF_<<algorithm, vars, lexerVars>>(SyntaxNext)

-----------------------------------------------------------------------------
(* Properties of the modules; they are explained there.                      *)

\* Tags that are in no element are reported, and exactly the well-formed lists are accepted.
ErrorsAreExact == ErrorsMatchTree /\ AcceptsWellFormed

\* Semicolons are inserted where the language says, and no text is lost.
SemicolonRule == X!SemicolonRule /\ X!NoTextLost

\* The literal popped for a STRING_TEMPLATE is finished and is that of the token; a lead
\* comment shares its lines with no token.
TopIsReady == X!TopIsReady /\ X!LeadIsAlone

\* Each file is read to its end, and each template literal comes to an end.
Finishes == <>(algorithm = "Lexer" => X!Done)

-----------------------------------------------------------------------------
(* What is proved of the modules holds here, for every set of files and lists. *)

\* A behaviour, seen by the scanner and the parser, is one of Lexer.
LEMMA SyntaxIsLexed == SyntaxSpec => X!Spec
<1>1. SyntaxInit => X!Init
  BY DEF SyntaxInit
<1>2. [SyntaxNext]_<<algorithm, vars, lexerVars>> => [X!Next]_(X!vars)
  BY DEF SyntaxNext, lexerVars, X!vars
<1> QED
  BY <1>1, <1>2, PTL DEF SyntaxSpec, X!Spec

\* Scan inserts semicolons for the newlines that end a statement, and for no
\* other, and with TemplateLiteralContinue it returns all the text.
THEOREM SemicolonsAreRight == SyntaxSpec => []SemicolonRule
  BY SourcesAssumption, SyntaxIsLexed, X!SemicolonsAreRight, X!TextIsKept, PTL DEF SemicolonRule

\* parseTgoStmt pops the literal of its token; nextToken's lead comments are alone.
THEOREM LiteralIsReady == SyntaxSpec => []TopIsReady
  BY SourcesAssumption, SyntaxIsLexed, X!LiteralIsReady, X!LeadCommentsAreAlone, PTL DEF TopIsReady

\* A behaviour, seen by combineElemmentBlocks, is one of ElementBlocks.
LEMMA SyntaxIsParsed == SyntaxSpec => Spec
<1>1. SyntaxInit => Init
  BY DEF SyntaxInit
<1>2. [SyntaxNext]_<<algorithm, vars, lexerVars>> => [Next]_vars
  BY DEF SyntaxNext
<1> QED
  BY <1>1, <1>2, PTL DEF SyntaxSpec, Spec

\* combineElemmentBlocks places each statement once, in order.
THEOREM SyntaxLosesNothing == SyntaxSpec => []EachStmtOnce
  BY SyntaxIsParsed, NothingIsLost, PTL

\* combineElemmentBlocks reports the tags that are in no element, and accepts
\* exactly the lists whose tags can be paired.
THEOREM SyntaxErrorsAreExact == SyntaxSpec => []ErrorsAreExact
  BY SyntaxIsParsed, ErrorsAreRight, PTL DEF ErrorsAreExact
==============================================================================
