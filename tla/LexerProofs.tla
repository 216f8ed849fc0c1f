----------------------------- MODULE LexerProofs -----------------------------
(***************************************************************************)
(* The scanner and parser.next agree on every file, whatever the parser    *)
(* asks for: semicolons come where the rule says, no text is lost, the     *)
(* template literal on top of the stack is the one that is asked for, and  *)
(* lead comments are alone on their lines.                                 *)
(***************************************************************************)
EXTENDS Lexer, TLAPS, FiniteSetTheorems, SequenceTheorems, WellFoundedInduction

\* The files are sequences of characters.
SourcesOK == Sources \subseteq Seq(Chars)

-----------------------------------------------------------------------------
(* The inductive invariant.                                                *)

Tokens ==
    {t \in [kind : Kinds, at : 0 .. Size + 1, end : 0 .. Size + 1, auto : BOOLEAN, closes : BOOLEAN] :
        t.at <= t.end /\ (t.auto => t.kind = "SEMICOLON")}
Comments == {t \in Tokens : t.kind = "COMMENT" /\ ~t.auto /\ 0 < t.at}
Scanners ==
    [pos : 1 .. Size + 1, insertSemi : BOOLEAN, nlPos : 0 .. Size, allow : BOOLEAN, prevGTR : BOOLEAN]
Levels == [index : Nat, start : 1 .. Size]

\* The state is typed; a newline of a comment waits only inside parser.next.
Types ==
    /\ src \in Seq(Chars)
    /\ sc \in Scanners
    /\ sc.nlPos # NoPos => ~sc.insertSemi /\ ~sc.allow /\ ~sc.prevGTR /\ pc = "next"
    /\ tok \in Tokens
    /\ pc \in {"next", "parse"}
    /\ comments \in Seq(Comments)
    /\ lead \in Seq(Comments)
    /\ lits \in Seq(0 .. Size)
    /\ levels \in Seq(Levels)
    /\ hist \in Seq(Tokens)
    /\ skipped \in BOOLEAN

IsSig(t) == t.kind \notin {"COMMENT", "ILLEGAL"}

\* The last token of h that is not a comment, nor illegal.
LastSig(h) ==
    LET S == {m \in 1 .. Len(h) : IsSig(h[m])}
    IN  IF S = {} THEN Token("none", 1, 1) ELSE h[Max(S)]

\* Is the scanner to insert a semicolon at the next newline?
Owes(s) == s.insertSemi \/ (s.allow /\ s.prevGTR)

\* A semicolon is owed exactly when the last token needs one, and no newline
\* has been passed since; in a comment, the first newline has been kept.
Owed ==
    /\ sc.nlPos = NoPos =>
          /\ Owes(sc) <=> NeedsSemi(LastSig(hist))
          /\ Owes(sc) => Newlines(LastSig(hist).end, sc.pos) = {}
    /\ sc.nlPos # NoPos =>
          /\ NeedsSemi(LastSig(hist))
          /\ Ch(sc.nlPos) = "\n"
          /\ Newlines(LastSig(hist).end, sc.nlPos) = {}
    /\ sc.prevGTR =>
          /\ hist # <<>> /\ hist[Len(hist)].kind = "GTR" /\ hist[Len(hist)].end = sc.pos
          /\ hist[Len(hist)].closes <=> sc.allow
    /\ pc = "parse" /\ tok.kind \in {"GTR", "RBRACE", EOF} =>
          /\ hist # <<>> /\ hist[Len(hist)].kind = tok.kind
          /\ tok.kind = "GTR" => sc.prevGTR
    /\ SemicolonRule

\* What the scanner has passed is white space or in a token that is recorded.
Text ==
    /\ \A m \in 1 .. Len(hist) : ~hist[m].auto => 0 < hist[m].at /\ hist[m].end <= sc.pos
    /\ \A p \in 1 .. sc.pos - 1 :
          src[p] \in {" ", "\n"} \/ \E m \in 1 .. Len(hist) : ~hist[m].auto /\ p < hist[m].end
    /\ NoTextLost

InTemplate == pc = "parse" /\ tok.kind = "STRING_TEMPLATE"

\* The literals without a position are those of the levels, in their order,
\* and nothing else is on the stack unless an error has left it there.
Stack ==
    /\ \A j \in 1 .. Len(levels) : levels[j].index \in 1 .. Len(lits)
    /\ \A j, k \in 1 .. Len(levels) : j < k => levels[j].index < levels[k].index
    /\ \A i \in 1 .. Len(lits) :
          lits[i] = NoPos <=> \E j \in 1 .. Len(levels) : levels[j].index = i
    /\ ~skipped =>
          /\ Len(lits) = Len(levels) + (IF InTemplate THEN 1 ELSE 0)
          /\ \A j \in 1 .. Len(levels) : levels[j].index = j
    /\ TopIsReady

IsReal(t) == ~t.auto /\ t.kind # "COMMENT"

\* The comments that next0 has met come in their order, after the tokens of
\* which the parser knows; the newline that is kept is in the last of them.
Met ==
    /\ tok.at <= sc.pos
    /\ pc = "parse" => comments = <<>>
    /\ \A a, b \in 1 .. Len(comments) : a < b => comments[a].at <= comments[b].at
    /\ \A a \in 1 .. Len(comments) : comments[a].end <= sc.pos /\ tok.at <= comments[a].at
    /\ sc.nlPos # NoPos =>
          /\ comments # <<>>
          /\ sc.nlPos \in comments[Len(comments)].at .. comments[Len(comments)].end - 1

\* A real token is on one line, and before the comments that have been met.  If
\* it is behind the parser's token, a literal has ended, and a semicolon is due.
PassedBy(h, last, s, cs, t) ==
    \A m \in 1 .. Len(h) : IsReal(h[m]) =>
        /\ Newlines(h[m].at, h[m].end) = {}
        /\ h[m].at <= t.at \/ NeedsSemi(last)
        /\ s.nlPos # NoPos => h[m].at <= s.nlPos
        /\ \A a \in 1 .. Len(cs) : h[m].end <= cs[a].at
Passed == PassedBy(hist, LastSig(hist), sc, comments, tok)

\* A literal begins before the comments inside it.
Begun ==
    \A j \in 1 .. Len(levels) :
        /\ levels[j].start <= sc.pos
        /\ \A a \in 1 .. Len(comments) : levels[j].start <= comments[a].at
        /\ pc = "parse" /\ lead # <<>> => levels[j].start <= lead[Len(lead)].at

\* The lines of comment ld are those of no token of h; t, behind it, is on the next line.
Clear(h, ld, t) ==
    ld # <<>> =>
        /\ t.at > ld[Len(ld)].at => Line(t.at) = EndLine(ld[Len(ld)]) + 1
        /\ \A m \in 1 .. Len(h) :
              IsReal(h[m]) => Line(h[m].at) \notin Line(ld[1].at) .. EndLine(ld[Len(ld)])

\* The lead comment is behind the scanner; when the parser looks, on the line before.
Alone ==
    /\ lead # <<>> =>
          /\ EndLine(lead[Len(lead)]) < Line(sc.pos)
          /\ pc = "parse" => EndLine(lead[Len(lead)]) + 1 = Line(sc.pos)
    /\ Clear(hist, lead, tok)

Order == Met /\ Passed /\ Begun /\ Alone

IInv == Types /\ Owed /\ Text /\ Stack /\ Order

-----------------------------------------------------------------------------
(* Bounds of sets of positions.                                            *)

\* The least number.
LEMMA MinIs ==
    ASSUME NEW S \in SUBSET Nat, S # {}
    PROVE  Min(S) \in S /\ \A x \in S : Min(S) <= x
<1>1. PICK m \in S : \A y \in S : ~(<<y, m>> \in OpToRel(<, Nat))
  BY WFMin, NatLessThanWellFounded
<1>2. \A y \in S : ~(y < m)
  BY <1>1 DEF OpToRel
<1>3. \A y \in S : m <= y
  BY <1>2
<1> QED
  BY <1>3 DEF Min

\* The greatest number, below a bound.
LEMMA MaxIs ==
    ASSUME NEW S \in SUBSET Int, S # {}, NEW b \in Int, \A x \in S : x <= b
    PROVE  Max(S) \in S /\ \A x \in S : x <= Max(S)
<1>1. PICK T \in SUBSET Nat : \A y : y \in T <=> y \in Nat /\ b - y \in S
  <2>1. {y \in Nat : b - y \in S} \in SUBSET Nat
    OBVIOUS
  <2> QED
    BY <2>1
<1>2. T # {}
  <2>1. PICK x \in S : TRUE
    OBVIOUS
  <2>2. b - x \in Nat /\ b - (b - x) = x
    OBVIOUS
  <2> QED
    BY <1>1, <2>1, <2>2
<1>3. PICK d \in T : \A y \in T : ~(<<y, d>> \in OpToRel(<, Nat))
  BY <1>2, WFMin, NatLessThanWellFounded
<1>4. \A y \in T : d <= y
  <2>1. \A y \in T : ~(y < d)
    BY <1>3 DEF OpToRel
  <2> QED
    BY <2>1
<1>5. ASSUME NEW x \in S PROVE x <= b - d
  <2>1. b - x \in Nat /\ b - (b - x) = x
    OBVIOUS
  <2> QED
    BY <1>1, <1>4, <2>1
<1>6. b - d \in S
  BY <1>1
<1> QED
  BY <1>5, <1>6 DEF Max

\* A greatest number is the greatest number.
LEMMA MaxEq ==
    ASSUME NEW S \in SUBSET Int, NEW m \in S, \A x \in S : x <= m
    PROVE  Max(S) = m
<1>1. Max(S) \in S /\ \A x \in S : x <= Max(S)
  <2>1. m \in Int /\ S # {}
    OBVIOUS
  <2> QED
    BY <2>1, MaxIs
<1>2. Max(S) \in Int /\ m \in Int /\ Max(S) <= m /\ m <= Max(S)
  BY <1>1
<1> QED
  BY <1>2

-----------------------------------------------------------------------------
(* Characters and lines.                                                   *)

\* What is at a position.
LEMMA ChIs ==
    ASSUME src \in Seq(Chars)
    PROVE  /\ Size \in Nat
           /\ \A p \in 1 .. Size : src[p] \in Chars /\ Ch(p) = src[p] /\ Ch(p) # EOF
           /\ \A p \in Nat : p > Size => Ch(p) = EOF
<1>1. Size \in Nat /\ \A p \in 1 .. Size : src[p] \in Chars
  BY DEF Size
<1>2. EOF \notin Chars
  BY DEF EOF, Chars
<1>3. \A p \in 1 .. Size : src[p] \in Chars /\ Ch(p) = src[p] /\ Ch(p) # EOF
  BY <1>1, <1>2 DEF Ch
<1>4. \A p \in Nat : p > Size => Ch(p) = EOF
  BY <1>1 DEF Ch
<1> QED
  BY <1>1, <1>3, <1>4

\* Find stops at the first character of C.
LEMMA FindIs ==
    ASSUME src \in Seq(Chars), NEW p \in 1 .. Size + 1, NEW C
    PROVE  /\ Find(p, C) \in p .. Size + 1
           /\ \A q \in p .. Find(p, C) - 1 : src[q] \notin C
           /\ Find(p, C) <= Size => src[Find(p, C)] \in C
<1> DEFINE S == {q \in p .. Size : src[q] \in C} \cup {Size + 1}
<1>1. Size \in Nat
  BY ChIs
<1>2. S \in SUBSET Nat /\ S # {}
  BY <1>1
<1>3. Find(p, C) \in S /\ \A x \in S : Find(p, C) <= x
  <2> HIDE DEF S
  <2>1. Min(S) \in S /\ \A x \in S : Min(S) <= x
    BY <1>2, MinIs
  <2> QED
    BY <2>1 DEF Find, S
<1>4. Find(p, C) \in p .. Size + 1
  BY <1>1, <1>3
<1>5. Find(p, C) <= Size => src[Find(p, C)] \in C
  BY <1>1, <1>3
<1>6. ASSUME NEW q \in p .. Find(p, C) - 1 PROVE src[q] \notin C
  <2>1. q \in p .. Size
    BY <1>1, <1>4
  <2> QED
    BY <1>1, <1>3, <1>4, <2>1
<1> QED
  BY <1>4, <1>5, <1>6

\* The newlines of a stretch of text, by parts.
LEMMA NewlinesSplit ==
    ASSUME NEW a \in Int, NEW b \in Int, NEW c \in Int
    PROVE  /\ Newlines(a, b) = {} /\ Newlines(b, c) = {} => Newlines(a, c) = {}
           /\ b <= c /\ Newlines(a, c) = {} => Newlines(a, b) = {}
           /\ a <= b /\ Newlines(a, c) = {} => Newlines(b, c) = {}
           /\ b <= a => Newlines(a, b) = {}
BY DEF Newlines

\* There are finitely many.
LEMMA NewlinesFinite ==
    ASSUME src \in Seq(Chars), NEW a \in Nat, NEW b \in Nat
    PROVE  /\ IsFiniteSet(Newlines(a, b)) /\ Cardinality(Newlines(a, b)) \in Nat
           /\ IsFiniteSet(Newlines(a, b) \ {Size}) /\ Cardinality(Newlines(a, b) \ {Size}) \in Nat
<1>1. IsFiniteSet(a .. b - 1)
  BY FS_Interval
<1>2. Newlines(a, b) \subseteq a .. b - 1 /\ Newlines(a, b) \ {Size} \subseteq a .. b - 1
  BY DEF Newlines
<1>3. IsFiniteSet(Newlines(a, b)) /\ IsFiniteSet(Newlines(a, b) \ {Size})
  BY <1>1, <1>2, FS_Subset
<1> QED
  BY <1>3, FS_CardinalityType

\* Lines do not go back, and without a newline they do not go on.
LEMMA LineOrder ==
    ASSUME src \in Seq(Chars), NEW a \in Nat, NEW b \in Nat, a <= b
    PROVE  /\ Line(a) \in Nat
           /\ Line(a) <= Line(b)
           /\ 0 < a /\ Newlines(a, b) = {} => Line(a) = Line(b)
<1> DEFINE A == Newlines(1, a) \ {Size}
           B == Newlines(1, b) \ {Size}
<1>1. IsFiniteSet(A) /\ IsFiniteSet(B) /\ Cardinality(A) \in Nat /\ Cardinality(B) \in Nat
  BY NewlinesFinite
<1>2. A \subseteq B
  BY DEF Newlines
<1>3. Cardinality(A) <= Cardinality(B)
  BY <1>1, <1>2, FS_Subset
<1>4. Line(a) = IF a = 0 THEN 0 ELSE 1 + Cardinality(A)
  BY DEF Line, NoPos
<1>5. Line(b) = IF b = 0 THEN 0 ELSE 1 + Cardinality(B)
  BY DEF Line, NoPos
<1>6. ASSUME 0 < a, Newlines(a, b) = {} PROVE A = B
  BY <1>6 DEF Newlines
<1> HIDE DEF A, B
<1> QED
  BY <1>1, <1>3, <1>4, <1>5, <1>6

\* The line on which a comment ends.
LEMMA EndLineIs ==
    ASSUME src \in Seq(Chars), NEW c \in Tokens
    PROVE  /\ EndLine(c) \in Nat /\ Line(c.at) <= EndLine(c)
           /\ Newlines(c.at, c.end) = {} => EndLine(c) = Line(c.at)
<1>1. Size \in Nat /\ c.at \in Nat /\ c.end \in Nat
  BY ChIs DEF Tokens
<1>2. Line(c.at) \in Nat
  BY <1>1, LineOrder
<1>3. Cardinality(Newlines(c.at, c.end)) \in Nat
  BY <1>1, NewlinesFinite
<1>4. Newlines(c.at, c.end) = {} => Cardinality(Newlines(c.at, c.end)) = 0
  BY FS_EmptySet
<1>5. EndLine(c) = Line(c.at) + Cardinality(Newlines(c.at, c.end))
  BY DEF EndLine
<1> DEFINE n == Cardinality(Newlines(c.at, c.end))
<1> HIDE DEF n
<1>6. n \in Nat /\ (Newlines(c.at, c.end) = {} => n = 0) /\ EndLine(c) = Line(c.at) + n
  BY <1>3, <1>4, <1>5 DEF n
<1> QED
  BY <1>2, <1>6

-----------------------------------------------------------------------------
(* The scanner: how far a token goes, and that it has no newline.          *)

\* A piece of a string is on one line, and so is the text before its end.
LEMMA ScanStringIs ==
    ASSUME src \in Seq(Chars), NEW p \in 1 .. Size + 1
    PROVE  /\ scanString(p)[1] \in {"STRING", "STRING_TEMPLATE"}
           /\ scanString(p)[2] \in p .. Size + 1
           /\ Newlines(p, scanString(p)[2]) = {}
<1> DEFINE S == {q \in p .. Size + 1 : EndsPiece(p, q)}
           e == Min(S)
<1>1. Size \in Nat /\ Ch(Size + 1) = EOF
  BY ChIs
<1>a. \A q : Ch(q) \in {EOF, "\n"} => EndsPiece(p, q)
  BY DEF EndsPiece
<1>2. S \in SUBSET Nat /\ Size + 1 \in S
  <2>1. EndsPiece(p, Size + 1) /\ Size + 1 \in p .. Size + 1
    BY <1>1, <1>a
  <2> QED
    BY <1>1, <2>1
<1>3. e \in S /\ \A q \in S : e <= q
  <2> HIDE DEF S
  <2>1. S # {}
    BY <1>2
  <2> QED
    BY <1>2, <2>1, MinIs
<1>4. \A q \in p .. e - 1 : Ch(q) # "\n"
  <2> SUFFICES ASSUME NEW q \in p .. e - 1, Ch(q) = "\n" PROVE FALSE
    OBVIOUS
  <2>1. q \in p .. Size + 1 /\ EndsPiece(p, q)
    BY <1>1, <1>3, <1>a
  <2> QED
    BY <1>1, <1>3, <2>1
<1>5. e \in p .. Size + 1 /\ EndsPiece(p, e)
  BY <1>3
<1> HIDE DEF S, e
<1>6. scanString(p) = CASE Ch(e) \in {EOF, "\n"} -> <<"STRING", e>>
                        [] Ch(e) = "\"" -> <<"STRING", e + 1>>
                        [] OTHER -> <<"STRING_TEMPLATE", e + 2>>
  BY DEF scanString, S, e
<1>7. CASE Ch(e) \in {EOF, "\n"}
  <2>1. scanString(p) = <<"STRING", e>>
    BY <1>6, <1>7 DEF EOF
  <2> QED
    BY <1>4, <1>5, <2>1 DEF Newlines
<1>8. CASE Ch(e) = "\""
  <2>1. scanString(p) = <<"STRING", e + 1>>
    BY <1>6, <1>8 DEF EOF
  <2>2. e # Size + 1
    BY <1>1, <1>8 DEF EOF
  <2>3. \A q \in p .. e : Ch(q) # "\n"
    <3>1. \A q \in p .. e : q \in p .. e - 1 \/ q = e
      BY <1>1, <1>5
    <3> QED
      BY <1>4, <1>8, <3>1
  <2>4. Newlines(p, e + 1) = {}
    BY <1>1, <1>5, <2>3 DEF Newlines
  <2> QED
    BY <1>1, <1>5, <2>1, <2>2, <2>4
<1>9. CASE Ch(e) \notin {EOF, "\n", "\""}
  <2>1. scanString(p) = <<"STRING_TEMPLATE", e + 2>>
    BY <1>6, <1>9
  <2>2. Ch(e) = "\\" /\ Ch(e + 1) = "{"
    BY <1>5, <1>9 DEF EndsPiece
  <2>3. e # Size + 1 /\ e + 1 # Size + 1
    BY <1>1, <2>2 DEF EOF
  <2>4. \A q \in p .. e + 1 : Ch(q) # "\n"
    <3>1. \A q \in p .. e + 1 : q \in p .. e - 1 \/ q = e \/ q = e + 1
      BY <1>1, <1>5
    <3> QED
      BY <1>4, <2>2, <3>1
  <2>5. Newlines(p, e + 2) = {}
    BY <1>1, <1>5, <2>4 DEF Newlines
  <2> QED
    BY <1>1, <1>5, <2>1, <2>3, <2>5
<1> QED
  BY <1>7, <1>8, <1>9

\* A comment goes on for its two first characters at least; a line comment
\* has no newline.
LEMMA ScanCommentIs ==
    ASSUME src \in Seq(Chars), NEW p \in 1 .. Size, Ch(p) = "/", Ch(p + 1) \in {"/", "*"}
    PROVE  /\ scanComment(p) \in p + 2 .. Size + 1
           /\ Ch(p + 1) = "/" => Newlines(p, scanComment(p)) = {}
<1>1. Size \in Nat /\ p + 1 \in 1 .. Size
  <2>1. Size \in Nat /\ p + 1 \in Nat
    BY ChIs
  <2>2. ~(p + 1 > Size)
    BY <2>1, ChIs DEF EOF
  <2> QED
    BY <2>1, <2>2
<1>2. CASE Ch(p + 1) = "/"
  <2>1. p + 2 \in 1 .. Size + 1
    BY <1>1
  <2>2. scanComment(p) = Find(p + 2, {"\n"})
    BY <1>2 DEF scanComment
  <2>3. scanComment(p) \in p + 2 .. Size + 1 /\ \A q \in p + 2 .. scanComment(p) - 1 : src[q] \notin {"\n"}
    BY <2>1, <2>2, FindIs
  <2>4. \A q \in p .. scanComment(p) - 1 : Ch(q) # "\n"
    <3> SUFFICES ASSUME NEW q \in p .. scanComment(p) - 1 PROVE Ch(q) # "\n"
      OBVIOUS
    <3>1. CASE q \in {p, p + 1}
      BY <1>2, <3>1
    <3>2. CASE q \notin {p, p + 1}
      <4>1. q \in p + 2 .. scanComment(p) - 1 /\ q \in 1 .. Size
        BY <1>1, <2>3, <3>2
      <4> QED
        BY <2>3, <4>1 DEF Ch
    <3> QED
      BY <3>1, <3>2
  <2> QED
    BY <2>3, <2>4 DEF Newlines
<1>3. CASE Ch(p + 1) = "*"
  <2> DEFINE T == {q \in p + 2 .. Size - 1 : src[q] = "*" /\ src[q + 1] = "/"}
             S == {q + 2 : q \in T} \cup {Size + 1}
  <2>1. S \in SUBSET Nat /\ S # {} /\ S \subseteq p + 2 .. Size + 1
    BY <1>1
  <2>2. scanComment(p) = Min(S)
    BY <1>3 DEF scanComment
  <2> HIDE DEF S
  <2> QED
    BY <1>3, <2>1, <2>2, MinIs
<1> QED
  BY <1>2, <1>3

\* An operator is one or two characters of the file, none a newline.
LEMMA OperatorIs ==
    ASSUME src \in Seq(Chars), NEW p \in 1 .. Size, Ch(p) # "\n"
    PROVE  /\ Operator(p)[1] \in Kinds \ {"COMMENT", "STRING", "STRING_TEMPLATE", "IDENT", "SEMICOLON", EOF}
           /\ Operator(p)[2] \in 1 .. 2
           /\ p + Operator(p)[2] \in p + 1 .. Size + 1
           /\ Newlines(p, p + Operator(p)[2]) = {}
<1> DEFINE one == CASE Ch(p) = "<" -> "LSS"    [] Ch(p) = ">" -> "GTR"
                    [] Ch(p) = "{" -> "LBRACE" [] Ch(p) = "}" -> "RBRACE"
                    [] Ch(p) = "/" -> "QUO"    [] Ch(p) = "*" -> "MUL"
                    [] OTHER -> "ILLEGAL"
<1>1. one \in {"LSS", "GTR", "LBRACE", "RBRACE", "QUO", "MUL", "ILLEGAL"}
  OBVIOUS
<1> HIDE DEF one
<1>2. Size \in Nat /\ p + 1 \in Nat
  BY ChIs
<1>3. \/ Operator(p) = <<one, 1>>
      \/ /\ Operator(p) \in {<<"END_TAG", 2>>, <<"SHL", 2>>, <<"SHR", 2>>}
         /\ Ch(p + 1) \in {"/", "<", ">"}
  BY DEF Operator, one
<1>4. CASE Operator(p) = <<one, 1>>
  BY <1>1, <1>2, <1>4 DEF Kinds, Newlines, EOF
<1>5. CASE Operator(p) \in {<<"END_TAG", 2>>, <<"SHL", 2>>, <<"SHR", 2>>} /\ Ch(p + 1) \in {"/", "<", ">"}
  <2>1. ~(p + 1 > Size)
    BY <1>2, <1>5, ChIs DEF EOF
  <2>2. Operator(p)[1] \in {"END_TAG", "SHL", "SHR"} /\ Operator(p)[2] = 2
    BY <1>5
  <2>3. Newlines(p, p + 2) = {}
    BY <1>2, <1>5 DEF Newlines
  <2> QED
    BY <1>2, <2>1, <2>2, <2>3 DEF Kinds, EOF
<1> QED
  BY <1>3, <1>4, <1>5

-----------------------------------------------------------------------------
(***************************************************************************)
(* What Scan returns: white space up to a position p is skipped; then      *)
(* comes a semicolon that is owed, a comment, or a real token.             *)
(***************************************************************************)

Quiet(s) == s.nlPos # NoPos => ~s.insertSemi /\ ~s.allow /\ ~s.prevGTR

Skips(a, p, semi) ==
    /\ p \in a .. Size + 1
    /\ \A q \in a .. p - 1 : src[q] \in {" ", "\n"} /\ (semi => src[q] # "\n")

\* The newline that a comment has kept.
GivesKept(s, r) ==
    /\ r.s \in Scanners
    /\ r.t = Semicolon(s.nlPos, s.nlPos)
    /\ r.s.pos = s.pos /\ r.s.nlPos = NoPos
    /\ ~r.s.insertSemi /\ ~r.s.allow /\ ~r.s.prevGTR

\* A newline, or the end of the file.
GivesAuto(s, p, r) ==
    /\ r.s \in Scanners
    /\ Owes(s)
    /\ r.s.pos \in p .. Size + 1
    /\ r.t = Semicolon(p, r.s.pos)
    /\ r.s = NoSemi(r.s.pos)
    /\ Ch(p) \in {"\n", EOF}
    /\ \A q \in p .. r.s.pos - 1 : src[q] \in {" ", "\n"}

GivesComment(s, p, r) ==
    /\ r.s \in Scanners
    /\ r.s.pos \in p + 1 .. Size + 1
    /\ r.t = Token("COMMENT", p, r.s.pos)
    /\ ~r.s.allow /\ ~r.s.prevGTR
    /\ \/ /\ r.s.nlPos = NoPos
          /\ r.s.insertSemi <=> Owes(s)
          /\ Owes(s) => Newlines(p, r.s.pos) = {}
       \/ /\ r.s.nlPos \in p .. r.s.pos - 1
          /\ Owes(s) /\ ~r.s.insertSemi
          /\ Ch(r.s.nlPos) = "\n" /\ Newlines(p, r.s.nlPos) = {}

GivesToken(s, p, r) ==
    /\ r.s \in Scanners
    /\ r.s.pos \in p .. Size + 1
    /\ r.t.kind \in Kinds \ {"COMMENT", "SEMICOLON"}
    /\ r.t = Token(r.t.kind, p, r.s.pos)
    /\ Newlines(p, r.s.pos) = {}
    /\ r.s.nlPos = NoPos /\ ~r.s.allow
    /\ r.s.prevGTR <=> r.t.kind = "GTR"
    /\ r.s.insertSemi <=>
          r.t.kind \in {"IDENT", "STRING", "RBRACE"} \/ (r.t.kind = "ILLEGAL" /\ Owes(s))
    /\ r.t.kind = EOF => ~Owes(s)
    /\ r.t.kind = "STRING_TEMPLATE" => p <= Size

\* The white space before a token.
LEMMA SkipIs ==
    ASSUME src \in Seq(Chars), NEW a \in 1 .. Size + 1, NEW semi \in BOOLEAN
    PROVE  /\ Skips(a, skipWhitespace(a, semi), semi)
           /\ Ch(skipWhitespace(a, semi)) # " "
           /\ Ch(skipWhitespace(a, semi)) = "\n" => semi
<1> DEFINE W == IF semi THEN {" "} ELSE {" ", "\n"}
           p == skipWhitespace(a, semi)
<1>0. Size \in Nat
  BY ChIs
<1>1. p = Find(a, Chars \ W)
  BY DEF skipWhitespace
<1>2. \A c : c \in W <=> c = " " \/ (c = "\n" /\ ~semi)
  OBVIOUS
<1> HIDE DEF W, p
<1>3. /\ p \in a .. Size + 1
      /\ \A q \in a .. p - 1 : src[q] \notin Chars \ W
      /\ p <= Size => src[p] \in Chars \ W
  BY <1>1, FindIs
<1>4. \A q \in a .. p - 1 : q \in 1 .. Size
  BY <1>0, <1>3
<1>5. \A q \in a .. p - 1 : src[q] \in W
  BY <1>3, <1>4, ChIs
<1>6. Skips(a, p, semi)
  BY <1>2, <1>3, <1>5 DEF Skips
<1>7. Ch(p) # " " /\ (Ch(p) = "\n" => semi)
  <2>1. CASE p <= Size
    <3>1. p \in 1 .. Size
      BY <1>0, <1>3, <2>1
    <3>2. Ch(p) = src[p]
      BY <3>1, ChIs
    <3> QED
      BY <1>2, <1>3, <2>1, <3>2
  <2>2. CASE p > Size
    <3>1. Ch(p) = EOF
      BY <1>0, <1>3, <2>2, ChIs
    <3> QED
      BY <3>1 DEF EOF
  <2>3. p <= Size \/ p > Size
    BY <1>0, <1>3
  <2> QED
    BY <2>1, <2>2, <2>3
<1> QED
  BY <1>6, <1>7 DEF p

\* The scanner at a position, with what it remembers.
LEMMA ScannerIs ==
    ASSUME src \in Seq(Chars), NEW e \in 1 .. Size + 1, NEW n \in 0 .. Size,
           NEW i \in BOOLEAN, NEW g \in BOOLEAN
    PROVE  /\ NoSemi(e) \in Scanners /\ [NoSemi(e) EXCEPT !.insertSemi = i] \in Scanners
           /\ [NoSemi(e) EXCEPT !.nlPos = n] \in Scanners
           /\ [NoSemi(e) EXCEPT !.insertSemi = i, !.prevGTR = g] \in Scanners
           /\ [NoSemi(e) EXCEPT !.insertSemi = i, !.nlPos = n] \in Scanners
<1>1. NoPos \in 0 .. Size
  BY ChIs DEF NoPos
<1>2. NoSemi(e) \in Scanners
  BY <1>1 DEF NoSemi, Scanners
<1> QED
  BY <1>2 DEF Scanners

\* A real token, and the scanner after it.
LEMMA AfterIs ==
    ASSUME src \in Seq(Chars), NEW s, NEW p \in 1 .. Size + 1, NEW due \in BOOLEAN,
           NEW k \in Kinds \ {"COMMENT", "SEMICOLON"}, NEW e \in p .. Size + 1, Newlines(p, e) = {},
           due <=> k \in {"IDENT", "STRING", "RBRACE"} \/ (k = "ILLEGAL" /\ Owes(s)),
           k = EOF => ~Owes(s),
           k = "STRING_TEMPLATE" => p <= Size
    PROVE  GivesToken(s, p, After(k, p, e, due))
<1> DEFINE r == After(k, p, e, due)
<1>1. r.t = Token(k, p, e) /\ r.t.kind = k
  BY DEF After, Token
<1>2. r.s = [pos |-> e, insertSemi |-> due, nlPos |-> NoPos, allow |-> FALSE, prevGTR |-> (k = "GTR")]
  BY DEF After, NoSemi
<1>3. r.s.pos = e /\ r.s.nlPos = NoPos /\ r.s.allow = FALSE /\ r.s.insertSemi = due /\ r.s.prevGTR = (k = "GTR")
  BY <1>2
<1>a. r.s \in Scanners
  <2>1. PICK g \in BOOLEAN : g = (k = "GTR")
    OBVIOUS
  <2>2. r.s = [NoSemi(e) EXCEPT !.insertSemi = due, !.prevGTR = g]
    BY <2>1 DEF After
  <2>3. e \in 1 .. Size + 1 /\ NoPos \in 0 .. Size
    BY ChIs DEF NoPos
  <2>4. [NoSemi(e) EXCEPT !.insertSemi = due, !.prevGTR = g] \in Scanners
    BY <2>3, ScannerIs
  <2> HIDE DEF r
  <2> QED
    BY <2>2, <2>4
<1> HIDE DEF r
<1>4. GivesToken(s, p, r)
  BY <1>1, <1>3, <1>a DEF GivesToken
<1> QED
  BY <1>4 DEF r

\* A comment.
LEMMA CommentIs ==
    ASSUME src \in Seq(Chars), NEW s, NEW semi \in BOOLEAN, semi <=> Owes(s),
           NEW p \in 1 .. Size, Ch(p) = "/", Ch(p + 1) \in {"/", "*"}
    PROVE  GivesComment(s, p, Comment(s, p, semi))
<1> DEFINE e == scanComment(p)
           nl == IF Ch(p + 1) = "*" THEN Newlines(p, e) ELSE {}
           r == Comment(s, p, semi)
<1>1. Size \in Nat
  BY ChIs
<1>2. e \in p + 2 .. Size + 1 /\ (Ch(p + 1) = "/" => Newlines(p, e) = {})
  BY ScanCommentIs
<1>3. nl = {} => Newlines(p, e) = {}
  BY <1>2
<1>4. nl # {} => nl = Newlines(p, e)
  OBVIOUS
<1>5. r = [t |-> Token("COMMENT", p, e),
           s |-> IF semi /\ nl # {} THEN [NoSemi(e) EXCEPT !.nlPos = Min(nl)]
                 ELSE [NoSemi(e) EXCEPT !.insertSemi = semi]]
  BY DEF Comment
<1> HIDE DEF e, nl, r
<1>6. CASE semi /\ nl # {}
  <2>1. nl \in SUBSET Nat
    BY <1>1, <1>2, <1>4, <1>6 DEF Newlines
  <2>2. Min(nl) \in nl /\ \A q \in nl : Min(nl) <= q
    BY <1>6, <2>1, MinIs
  <2>3. PICK n : n = Min(nl)
    OBVIOUS
  <2>4. n \in p .. e - 1 /\ Ch(n) = "\n" /\ \A q \in p .. e - 1 : Ch(q) = "\n" => n <= q
    BY <1>4, <1>6, <2>2, <2>3 DEF Newlines
  <2>5. Newlines(p, n) = {}
    BY <1>1, <1>2, <2>4 DEF Newlines
  <2>6. r.t = Token("COMMENT", p, e)
        /\ r.s = [pos |-> e, insertSemi |-> FALSE, nlPos |-> n, allow |-> FALSE, prevGTR |-> FALSE]
    BY <1>5, <1>6, <2>3 DEF NoSemi
  <2>7. r.s.pos = e /\ ~r.s.insertSemi /\ r.s.nlPos = n /\ ~r.s.allow /\ ~r.s.prevGTR
    BY <2>6
  <2>8. e \in p + 1 .. Size + 1
    BY <1>1, <1>2
  <2>a. r.s \in Scanners
    <3>1. e \in 1 .. Size + 1 /\ n \in 0 .. Size
      BY <1>1, <1>2, <2>4
    <3>2. r.s = [NoSemi(e) EXCEPT !.nlPos = n]
      BY <1>5, <1>6, <2>3
    <3> QED
      BY <3>1, <3>2, ScannerIs
  <2>9. GivesComment(s, p, r)
    BY <1>6, <2>4, <2>5, <2>6, <2>7, <2>8, <2>a DEF GivesComment
  <2> QED
    BY <2>9 DEF r
<1>7. CASE ~(semi /\ nl # {})
  <2>1. r.t = Token("COMMENT", p, e)
        /\ r.s = [pos |-> e, insertSemi |-> semi, nlPos |-> NoPos, allow |-> FALSE, prevGTR |-> FALSE]
    BY <1>5, <1>7 DEF NoSemi
  <2>2. r.s.pos = e /\ (r.s.insertSemi <=> semi) /\ r.s.nlPos = NoPos /\ ~r.s.allow /\ ~r.s.prevGTR
    BY <2>1
  <2>3. e \in p + 1 .. Size + 1
    BY <1>1, <1>2
  <2>a. r.s \in Scanners
    <3>1. e \in 1 .. Size + 1 /\ NoPos \in 0 .. Size
      BY <1>1, <1>2 DEF NoPos
    <3>2. r.s = [NoSemi(e) EXCEPT !.insertSemi = semi]
      BY <1>5, <1>7
    <3> QED
      BY <3>1, <3>2, ScannerIs
  <2>4. GivesComment(s, p, r)
    BY <1>3, <1>7, <2>1, <2>2, <2>3, <2>a DEF GivesComment
  <2> QED
    BY <2>4 DEF r
<1> QED
  BY <1>6, <1>7

\* What is read at a position that is not white space.
LEMMA ScanAtIs ==
    ASSUME src \in Seq(Chars), NEW s, NEW semi \in BOOLEAN, semi <=> Owes(s),
           NEW p \in 1 .. Size + 1, Ch(p) = "\n" => semi
    PROVE  GivesAuto(s, p, ScanAt(s, p, semi)) \/ GivesComment(s, p, ScanAt(s, p, semi))
           \/ GivesToken(s, p, ScanAt(s, p, semi))
<1>1. Size \in Nat /\ (Ch(p) # EOF => p \in 1 .. Size /\ p + 1 \in 1 .. Size + 1) /\ Newlines(p, p) = {}
  BY ChIs, NewlinesSplit
<1>2. CASE Ch(p) = "x"
  <2> DEFINE e == Find(p, Chars \ {"x"})
  <2>1. ScanAt(s, p, semi) = After("IDENT", p, e, TRUE)
    BY <1>2 DEF ScanAt, EOF
  <2>2. e \in p .. Size + 1 /\ \A q \in p .. e - 1 : src[q] \notin Chars \ {"x"}
    BY FindIs
  <2> HIDE DEF e
  <2>3. \A q \in p .. e - 1 : q \in 1 .. Size
    BY <1>1, <2>2
  <2>4. \A q \in p .. e - 1 : Ch(q) = "x"
    BY <2>2, <2>3, ChIs
  <2>5. Newlines(p, e) = {}
    BY <2>4 DEF Newlines
  <2>6. GivesToken(s, p, After("IDENT", p, e, TRUE))
    BY <2>2, <2>5, AfterIs DEF Kinds, EOF
  <2> QED
    BY <2>1, <2>6
<1>3. CASE Ch(p) = EOF /\ semi
  <2>1. ScanAt(s, p, semi) = [t |-> Semicolon(p, p), s |-> NoSemi(p)]
    BY <1>3 DEF ScanAt, EOF
  <2>2. NoSemi(p).pos = p
    BY DEF NoSemi
  <2>3. PICK r : r = ScanAt(s, p, semi)
    OBVIOUS
  <2>4. r.t = Semicolon(p, p) /\ r.s = NoSemi(p) /\ r.s.pos = p
    BY <2>1, <2>2, <2>3
  <2>5. p \in p .. Size + 1 /\ p .. p - 1 = {}
    BY <1>1
  <2>a. r.s \in Scanners
    <3>1. p \in 1 .. Size + 1 /\ NoPos \in 0 .. Size /\ FALSE \in BOOLEAN
      BY <1>1 DEF NoPos
    <3>2. NoSemi(p) \in Scanners
      BY <3>1, ScannerIs
    <3> QED
      BY <2>4, <3>2
  <2>6. GivesAuto(s, p, r)
    BY <1>3, <2>4, <2>5, <2>a DEF GivesAuto
  <2> QED
    BY <2>3, <2>6
<1>4. CASE Ch(p) = EOF /\ ~semi
  <2>1. ScanAt(s, p, semi) = After(EOF, p, p, FALSE)
    BY <1>4 DEF ScanAt, EOF
  <2>2. PICK k : k = EOF
    OBVIOUS
  <2>3. k \in Kinds \ {"COMMENT", "SEMICOLON"} /\ k \notin {"IDENT", "STRING", "RBRACE", "ILLEGAL", "STRING_TEMPLATE"}
    BY <2>2 DEF Kinds, EOF
  <2>4. p \in p .. Size + 1 /\ ~Owes(s)
    BY <1>1, <1>4
  <2>5. GivesToken(s, p, After(k, p, p, FALSE))
    BY <1>1, <2>3, <2>4, AfterIs
  <2> QED
    BY <2>1, <2>2, <2>5
<1>5. CASE Ch(p) = "\n"
  <2>1. ScanAt(s, p, semi) = [t |-> Semicolon(p, p + 1), s |-> NoSemi(p + 1)]
    BY <1>5 DEF ScanAt, EOF
  <2>2. NoSemi(p + 1).pos = p + 1
    BY DEF NoSemi
  <2>3. p \in 1 .. Size /\ src[p] = "\n"
    BY <1>1, <1>5 DEF Ch, EOF
  <2>4. PICK r : r = ScanAt(s, p, semi)
    OBVIOUS
  <2>5. r.t = Semicolon(p, p + 1) /\ r.s = NoSemi(p + 1) /\ r.s.pos = p + 1
    BY <2>1, <2>2, <2>4
  <2>6. p + 1 \in p .. Size + 1 /\ \A q \in p .. p + 1 - 1 : q = p
    BY <1>1, <2>3
  <2>7. Owes(s) /\ Ch(p) \in {"\n", EOF}
    BY <1>5
  <2>8. \A q \in p .. r.s.pos - 1 : src[q] \in {" ", "\n"}
    <3> SUFFICES ASSUME NEW q \in p .. r.s.pos - 1 PROVE src[q] \in {" ", "\n"}
      OBVIOUS
    <3>1. q = p
      BY <2>5, <2>6
    <3> QED
      BY <2>3, <3>1
  <2>a. r.s \in Scanners
    <3>1. p + 1 \in 1 .. Size + 1 /\ NoPos \in 0 .. Size
      BY <1>1, <2>3 DEF NoPos
    <3> QED
      BY <2>5, <3>1, ScannerIs
  <2>9. GivesAuto(s, p, r)
    BY <2>5, <2>6, <2>7, <2>8, <2>a DEF GivesAuto
  <2> QED
    BY <2>4, <2>9
<1>6. CASE Ch(p) = "\""
  <2> DEFINE str == scanString(p + 1)
  <2>1. ScanAt(s, p, semi) = After(str[1], p, str[2], str[1] = "STRING")
    BY <1>6 DEF ScanAt, EOF
  <2>2. p \in 1 .. Size /\ p + 1 \in 1 .. Size + 1
    BY <1>1, <1>6 DEF EOF
  <2>3. str[1] \in {"STRING", "STRING_TEMPLATE"} /\ str[2] \in p + 1 .. Size + 1 /\ Newlines(p + 1, str[2]) = {}
    BY <2>2, ScanStringIs
  <2>4. PICK k, e : k = str[1] /\ e = str[2]
    OBVIOUS
  <2> HIDE DEF str
  <2>5. Newlines(p, p + 1) = {}
    <3>1. \A q \in p .. p + 1 - 1 : q = p
      BY <1>1, <2>2
    <3>2. Ch(p) # "\n"
      BY <1>6
    <3> QED
      BY <3>1, <3>2 DEF Newlines
  <2>6. Newlines(p, e) = {} /\ e \in p .. Size + 1
    BY <1>1, <2>2, <2>3, <2>4, <2>5, NewlinesSplit
  <2>7. k \in Kinds \ {"COMMENT", "SEMICOLON"} /\ k \in {"STRING", "STRING_TEMPLATE"}
    BY <2>3, <2>4 DEF Kinds
  <2>8. PICK d \in BOOLEAN : d <=> k = "STRING"
    OBVIOUS
  <2>9. GivesToken(s, p, After(k, p, e, d))
    BY <2>2, <2>6, <2>7, <2>8, AfterIs DEF EOF
  <2>10. d = (k = "STRING")
    BY <2>8
  <2> QED
    BY <2>1, <2>4, <2>9, <2>10
<1>7. CASE Ch(p) = "/" /\ Ch(p + 1) \in {"/", "*"}
  <2>1. ScanAt(s, p, semi) = Comment(s, p, semi)
    BY <1>7 DEF ScanAt, EOF
  <2> QED
    BY <1>1, <1>7, <2>1, CommentIs DEF EOF
<1>8. CASE Ch(p) \notin {"x", EOF, "\n", "\""} /\ ~(Ch(p) = "/" /\ Ch(p + 1) \in {"/", "*"})
  <2> DEFINE op == Operator(p)
             due == op[1] = "RBRACE" \/ (op[1] = "ILLEGAL" /\ semi)
  <2>1. ScanAt(s, p, semi) = After(op[1], p, p + op[2], due)
    BY <1>8 DEF ScanAt
  <2>2. p \in 1 .. Size
    BY <1>1, <1>8
  <2>3. /\ op[1] \in Kinds \ {"COMMENT", "STRING", "STRING_TEMPLATE", "IDENT", "SEMICOLON", EOF}
        /\ op[2] \in 1 .. 2
        /\ p + op[2] \in p + 1 .. Size + 1
        /\ Newlines(p, p + op[2]) = {}
    BY <1>8, <2>2, OperatorIs
  <2>4. PICK k, e : k = op[1] /\ e = p + op[2]
    OBVIOUS
  <2>5. PICK d \in BOOLEAN : d <=> due
    OBVIOUS
  <2> HIDE DEF op
  <2>6. k \in Kinds \ {"COMMENT", "SEMICOLON"} /\ k \notin {"STRING", "STRING_TEMPLATE", "IDENT", EOF} /\ e \in p .. Size + 1 /\ Newlines(p, e) = {}
    BY <1>1, <2>3, <2>4
  <2>7. d <=> k \in {"IDENT", "STRING", "RBRACE"} \/ (k = "ILLEGAL" /\ Owes(s))
    BY <2>4, <2>5, <2>6
  <2>8. GivesToken(s, p, After(k, p, e, d))
    BY <2>6, <2>7, AfterIs
  <2>9. due = d
    BY <2>5
  <2> HIDE DEF due
  <2> QED
    BY <2>1, <2>4, <2>8, <2>9
<1> QED
  BY <1>2, <1>3, <1>4, <1>5, <1>6, <1>7, <1>8

\* What Scan returns.
LEMMA ScanIs ==
    ASSUME src \in Seq(Chars), NEW s \in Scanners, Quiet(s)
    PROVE  IF s.nlPos # NoPos THEN GivesKept(s, Scan(s))
           ELSE \E p \in Nat :
                    /\ Skips(s.pos, p, Owes(s))
                    /\ GivesAuto(s, p, Scan(s)) \/ GivesComment(s, p, Scan(s)) \/ GivesToken(s, p, Scan(s))
<1> DEFINE semi == s.insertSemi \/ (s.allow /\ s.prevGTR)
<1>1. semi \in BOOLEAN /\ s.pos \in 1 .. Size + 1 /\ (semi <=> Owes(s))
  BY DEF Scanners, Owes
<1>2. CASE s.nlPos # NoPos
  <2>1. semi = FALSE
    BY <1>2 DEF Quiet
  <2>2. Scan(s) = [t |-> Semicolon(s.nlPos, s.nlPos),
                   s |-> [NoSemi(s.pos) EXCEPT !.insertSemi = semi]]
    BY <1>2 DEF Scan
  <2> HIDE DEF semi
  <2>a. Scan(s) = [t |-> Semicolon(s.nlPos, s.nlPos), s |-> [NoSemi(s.pos) EXCEPT !.insertSemi = FALSE]]
    BY <2>1, <2>2, Zenon
  <2>3. PICK r : r = Scan(s)
    OBVIOUS
  <2>4. r.t = Semicolon(s.nlPos, s.nlPos) /\ r.s = [NoSemi(s.pos) EXCEPT !.insertSemi = FALSE]
    BY <2>a, <2>3
  <2>5. r.s.pos = s.pos /\ r.s.insertSemi = FALSE /\ r.s.nlPos = NoPos /\ r.s.allow = FALSE /\ r.s.prevGTR = FALSE
    BY <2>4 DEF NoSemi
  <2>b. r.s \in Scanners
    <3>1. s.pos \in 1 .. Size + 1 /\ NoPos \in 0 .. Size /\ FALSE \in BOOLEAN
      BY <1>1, ChIs DEF NoPos
    <3> QED
      BY <2>4, <3>1, ScannerIs
  <2>6. GivesKept(s, r)
    BY <2>4, <2>5, <2>b DEF GivesKept
  <2> QED
    BY <1>2, <2>3, <2>6
<1>3. CASE s.nlPos = NoPos
  <2> DEFINE p == skipWhitespace(s.pos, semi)
  <2>1. Scan(s) = ScanAt(s, p, semi)
    BY <1>3 DEF Scan
  <2> HIDE DEF semi
  <2>2. Skips(s.pos, p, semi) /\ (Ch(p) = "\n" => semi)
    BY <1>1, SkipIs
  <2> HIDE DEF p
  <2>3. p \in 1 .. Size + 1 /\ p \in Nat
    <3>1. Size \in Nat /\ s.pos \in Nat /\ 1 <= s.pos
      BY <1>1, ChIs
    <3>2. p \in s.pos .. Size + 1
      BY <2>2 DEF Skips
    <3> QED
      BY <3>1, <3>2
  <2>4. Skips(s.pos, p, Owes(s))
    BY <1>1, <2>2 DEF Skips
  <2>5. GivesAuto(s, p, Scan(s)) \/ GivesComment(s, p, Scan(s)) \/ GivesToken(s, p, Scan(s))
    BY <1>1, <2>1, <2>2, <2>3, ScanAtIs
  <2> QED
    BY <1>3, <2>3, <2>4, <2>5
<1> QED
  BY <1>2, <1>3

-----------------------------------------------------------------------------
(* The file stays, and tokens are only recorded.                           *)

\* What is in the file, and where, stays.
LEMMA SameFile ==
    ASSUME src' = src
    PROVE  /\ Size' = Size /\ Tokens' = Tokens /\ Comments' = Comments
           /\ Scanners' = Scanners /\ Levels' = Levels
           /\ \A p : Ch(p)' = Ch(p)
           /\ \A a, b : Newlines(a, b)' = Newlines(a, b)
           /\ \A p : Line(p)' = Line(p)
           /\ \A c : EndLine(c)' = EndLine(c)
           /\ \A h, ld, t : Clear(h, ld, t)' = Clear(h, ld, t)
           /\ \A h, l, s, cs, t : PassedBy(h, l, s, cs, t)' = PassedBy(h, l, s, cs, t)
<1>1. Size' = Size
  BY DEF Size
<1>2. \A p : Ch(p)' = Ch(p)
  BY <1>1 DEF Ch
<1>3. \A a, b : Newlines(a, b)' = Newlines(a, b)
  BY <1>2 DEF Newlines
<1>4. \A p : Line(p)' = Line(p)
  BY <1>1, <1>3 DEF Line
<1>5. \A c : EndLine(c)' = EndLine(c)
  BY <1>3, <1>4 DEF EndLine
<1>6. \A h, ld, t : Clear(h, ld, t)' = Clear(h, ld, t)
  BY <1>4, <1>5 DEF Clear, IsReal
<1>7. \A h, l, s, cs, t : PassedBy(h, l, s, cs, t)' = PassedBy(h, l, s, cs, t)
  <2> TAKE h, l, s, cs, t
  <2>1. \A x : (Newlines(x.at, x.end) = {})' <=> (Newlines(x.at, x.end) = {})
    BY <1>3
  <2> DEFINE Rest(x) == /\ x.at <= t.at \/ NeedsSemi(l)
                        /\ s.nlPos # NoPos => x.at <= s.nlPos
                        /\ \A a \in 1 .. Len(cs) : x.end <= cs[a].at
  <2>2. PassedBy(h, l, s, cs, t)' <=> \A m \in 1 .. Len(h) : IsReal(h[m]) => (Newlines(h[m].at, h[m].end) = {})' /\ Rest(h[m])
    BY DEF PassedBy
  <2>3. PassedBy(h, l, s, cs, t) <=> \A m \in 1 .. Len(h) : IsReal(h[m]) => Newlines(h[m].at, h[m].end) = {} /\ Rest(h[m])
    BY DEF PassedBy
  <2> HIDE DEF Rest
  <2>4. PassedBy(h, l, s, cs, t) \in BOOLEAN /\ PassedBy(h, l, s, cs, t)' \in BOOLEAN
    BY DEF PassedBy
  <2> QED
    BY <2>1, <2>2, <2>3, <2>4
<1> QED
  BY <1>1, <1>2, <1>3, <1>4, <1>5, <1>6, <1>7 DEF Tokens, Comments, Scanners, Levels

\* The last token that counts, if there is one.
LEMMA LastSigIs ==
    ASSUME NEW T, NEW h \in Seq(T)
    PROVE  /\ (\A m \in 1 .. Len(h) : ~IsSig(h[m])) => LastSig(h) = Token("none", 1, 1)
           /\ \A m \in 1 .. Len(h) :
                 IsSig(h[m]) /\ (\A n \in m + 1 .. Len(h) : ~IsSig(h[n])) => LastSig(h) = h[m]
           /\ \/ \A m \in 1 .. Len(h) : ~IsSig(h[m])
              \/ \E m \in 1 .. Len(h) : IsSig(h[m]) /\ \A n \in m + 1 .. Len(h) : ~IsSig(h[n])
<1> DEFINE S == {m \in 1 .. Len(h) : IsSig(h[m])}
<1>1. Len(h) \in Nat
  OBVIOUS
<1>2. LastSig(h) = IF S = {} THEN Token("none", 1, 1) ELSE h[Max(S)]
  BY DEF LastSig
<1>3. ASSUME NEW m \in 1 .. Len(h), IsSig(h[m]), \A n \in m + 1 .. Len(h) : ~IsSig(h[n])
      PROVE  LastSig(h) = h[m]
  <2>1. m \in S /\ S \in SUBSET Int
    BY <1>1, <1>3
  <2>2. \A x \in S : x <= m
    BY <1>1, <1>3
  <2> HIDE DEF S
  <2>3. Max(S) = m
    BY <2>1, <2>2, MaxEq
  <2> QED
    BY <1>2, <2>1, <2>3
<1>4. ASSUME S # {}
      PROVE  \E m \in 1 .. Len(h) : IsSig(h[m]) /\ \A n \in m + 1 .. Len(h) : ~IsSig(h[n])
  <2>1. S \in SUBSET Int /\ \A x \in S : x <= Len(h)
    BY <1>1
  <2>2. Max(S) \in S /\ \A x \in S : x <= Max(S)
    <3>1. PICK b \in Int : b = Len(h)
      BY <1>1
    <3> HIDE DEF S
    <3>2. \A x \in S : x <= b
      BY <2>1, <3>1
    <3> QED
      BY <1>4, <2>1, <3>2, MaxIs
  <2>3. PICK m : m = Max(S)
    OBVIOUS
  <2>4. m \in 1 .. Len(h) /\ IsSig(h[m]) /\ \A n \in 1 .. Len(h) : IsSig(h[n]) => n <= m
    BY <2>2, <2>3
  <2>5. \A n \in m + 1 .. Len(h) : n \in 1 .. Len(h) /\ ~(n <= m)
    BY <1>1, <2>4
  <2>6. \A n \in m + 1 .. Len(h) : ~IsSig(h[n])
    BY <2>4, <2>5
  <2> QED
    BY <2>4, <2>6
<1>5. (\A m \in 1 .. Len(h) : ~IsSig(h[m])) <=> S = {}
  OBVIOUS
<1> QED
  BY <1>2, <1>3, <1>4, <1>5

\* It needs no semicolon, or it is one of the tokens.
LEMMA LastSigNeeds ==
    ASSUME NEW T, NEW h \in Seq(T), NeedsSemi(LastSig(h))
    PROVE  \E m \in 1 .. Len(h) : LastSig(h) = h[m] /\ IsSig(h[m])
<1>1. ~NeedsSemi(Token("none", 1, 1))
  BY DEF NeedsSemi, Token
<1> QED
  BY <1>1, LastSigIs

\* A token is recorded: it counts, or the last one still does.
LEMMA LastSigAppend ==
    ASSUME NEW T, NEW h \in Seq(T), NEW t \in T, hist' = Append(h, t)
    PROVE  /\ LastSig(hist)' = (IF IsSig(t) THEN t ELSE LastSig(h))
           /\ Before' = LastSig(h)
           /\ hist' \in Seq(T) /\ Len(hist') = Len(h) + 1 /\ hist'[Len(h) + 1] = t
           /\ \A m \in 1 .. Len(h) : hist'[m] = h[m]
           /\ Last(hist)' = t /\ Front(hist)' = h
<1> DEFINE g == Append(h, t)
<1>1. /\ g \in Seq(T) /\ Len(h) \in Nat /\ Len(g) = Len(h) + 1 /\ g[Len(h) + 1] = t
      /\ \A m \in 1 .. Len(h) : g[m] = h[m]
      /\ Last(g) = t
  BY DEF Last
<1>2. Front(g) = h
  BY DEF Front
<1> HIDE DEF g
<1>3. LastSig(g) = IF IsSig(t) THEN t ELSE LastSig(h)
  <2>1. CASE IsSig(t)
    <3>1. Len(g) \in 1 .. Len(g) /\ IsSig(g[Len(g)]) /\ \A n \in Len(g) + 1 .. Len(g) : ~IsSig(g[n])
      BY <1>1, <2>1
    <3>2. LastSig(g) = g[Len(g)]
      BY <1>1, <3>1, LastSigIs
    <3> QED
      BY <1>1, <2>1, <3>2
  <2>2. CASE ~IsSig(t)
    <3>1. \A n : n \in 1 .. Len(g) => n \in 1 .. Len(h) \/ n = Len(h) + 1
      BY <1>1
    <3>2. CASE \A m \in 1 .. Len(h) : ~IsSig(h[m])
      <4>1. \A m \in 1 .. Len(g) : ~IsSig(g[m])
        BY <1>1, <2>2, <3>1, <3>2
      <4> QED
        BY <1>1, <2>2, <3>2, <4>1, LastSigIs
    <3>3. ASSUME NEW m \in 1 .. Len(h), IsSig(h[m]), \A n \in m + 1 .. Len(h) : ~IsSig(h[n])
          PROVE  LastSig(g) = LastSig(h)
      <4>1. m \in 1 .. Len(g) /\ IsSig(g[m])
        BY <1>1, <3>3
      <4>2. \A n : n \in m + 1 .. Len(g) => n \in m + 1 .. Len(h) \/ n = Len(h) + 1
        BY <1>1
      <4>3. \A n \in m + 1 .. Len(h) : n \in 1 .. Len(h)
        BY <1>1
      <4>4. \A n \in m + 1 .. Len(g) : ~IsSig(g[n])
        BY <1>1, <2>2, <3>3, <4>2, <4>3
      <4>5. LastSig(g) = g[m] /\ LastSig(h) = h[m]
        BY <1>1, <3>3, <4>1, <4>4, LastSigIs
      <4> QED
        BY <1>1, <4>5
    <3>4. \/ \A m \in 1 .. Len(h) : ~IsSig(h[m])
          \/ \E m \in 1 .. Len(h) : IsSig(h[m]) /\ \A n \in m + 1 .. Len(h) : ~IsSig(h[n])
      BY LastSigIs
    <3>5. LastSig(g) = LastSig(h)
      <4>1. CASE \E m \in 1 .. Len(h) : IsSig(h[m]) /\ \A n \in m + 1 .. Len(h) : ~IsSig(h[n])
        <5>1. PICK m \in 1 .. Len(h) : IsSig(h[m]) /\ \A n \in m + 1 .. Len(h) : ~IsSig(h[n])
          BY <4>1
        <5> QED
          BY <3>3, <5>1
      <4> QED
        BY <2>2, <3>2, <3>4, <4>1
    <3> QED
      BY <2>2, <3>5
  <2> QED
    BY <2>1, <2>2
<1>4. Before' = LastSig(h)
  <2> DEFINE S == {m \in 1 .. Len(h) : IsSig(h[m])}
  <2>1. {m \in 1 .. Len(g) - 1 : g[m].kind \notin {"COMMENT", "ILLEGAL"}} = S
    BY <1>1 DEF IsSig
  <2>2. Before' = IF S = {} THEN Token("none", 1, 1) ELSE g[Max(S)]
    BY <2>1 DEF Before, g
  <2>3. S # {} => Max(S) \in S
    <3>1. PICK b \in Int : b = Len(h)
      BY <1>1
    <3>2. S \in SUBSET Int /\ \A x \in S : x <= b
      BY <3>1
    <3> HIDE DEF S
    <3> QED
      BY <3>2, MaxIs
  <2>4. S # {} => g[Max(S)] = h[Max(S)]
    BY <1>1, <2>3
  <2>5. LastSig(h) = IF S = {} THEN Token("none", 1, 1) ELSE h[Max(S)]
    BY DEF LastSig
  <2> HIDE DEF S
  <2> QED
    BY <2>2, <2>4, <2>5
<1> QED
  BY <1>1, <1>2, <1>3, <1>4 DEF g

\* AllowInsertSemiAfterGTR marks the last token, and nothing else changes.
LEMMA LastCloses ==
    ASSUME hist \in Seq(Tokens), hist # <<>>, hist' = [hist EXCEPT ![Len(hist)].closes = TRUE]
    PROVE  /\ hist' \in Seq(Tokens) /\ Len(hist') = Len(hist)
           /\ Len(hist) \in Nat \ {0}
           /\ \A m \in 1 .. Len(hist) - 1 : hist'[m] = hist[m]
           /\ hist'[Len(hist)] = [hist[Len(hist)] EXCEPT !.closes = TRUE]
           /\ \A m \in 1 .. Len(hist) :
                 /\ hist'[m].kind = hist[m].kind /\ hist'[m].at = hist[m].at
                 /\ hist'[m].end = hist[m].end /\ (hist'[m].auto <=> hist[m].auto)
           /\ Before' = Before /\ Front(hist)' = Front(hist)
<1>1. Len(hist) \in Nat \ {0} /\ DOMAIN hist = 1 .. Len(hist)
  OBVIOUS
<1>2. PICK t \in Tokens : t = hist[Len(hist)]
  BY <1>1
<1>3. PICK u : u = [t EXCEPT !.closes = TRUE]
  OBVIOUS
<1>4. u \in Tokens /\ u.kind = t.kind /\ u.at = t.at /\ u.end = t.end /\ u.auto = t.auto
  BY <1>2, <1>3 DEF Tokens
<1>5. hist' = [hist EXCEPT ![Len(hist)] = u]
  BY <1>2, <1>3
<1>6. /\ hist' \in Seq(Tokens) /\ Len(hist') = Len(hist) /\ hist'[Len(hist)] = u
      /\ \A m \in 1 .. Len(hist) - 1 : hist'[m] = hist[m]
  <2>1. Len(hist) \in 1 .. Len(hist)
    BY <1>1
  <2>2. hist' \in Seq(Tokens) /\ Len(hist') = Len(hist)
    <3>1. PICK n \in 1 .. Len(hist) : n = Len(hist)
      BY <2>1
    <3>2. [hist EXCEPT ![n] = u] \in Seq(Tokens) /\ Len([hist EXCEPT ![n] = u]) = Len(hist)
      BY <1>4, ExceptSeq
    <3>3. hist' = [hist EXCEPT ![n] = u]
      BY <1>5, <3>1
    <3> QED
      BY <3>2, <3>3
  <2>3. \A m \in 1 .. Len(hist) : hist'[m] = IF m = Len(hist) THEN u ELSE hist[m]
    BY <1>1, <1>5
  <2>4. \A m \in 1 .. Len(hist) - 1 : m \in 1 .. Len(hist) /\ m # Len(hist)
    BY <1>1
  <2> QED
    BY <2>1, <2>2, <2>3, <2>4
<1>7. \A m \in 1 .. Len(hist) : m \in 1 .. Len(hist) - 1 \/ m = Len(hist)
  BY <1>1
<1>8. Before' = Before
  <2> DEFINE S == {m \in 1 .. Len(hist) - 1 : hist[m].kind \notin {"COMMENT", "ILLEGAL"}}
  <2> DEFINE V == {m \in 1 .. Len(hist') - 1 : hist'[m].kind \notin {"COMMENT", "ILLEGAL"}}
  <2>1. V = S
    BY <1>6
  <2>a. Before' = IF V = {} THEN Token("none", 1, 1) ELSE hist'[Max(V)]
    BY DEF Before
  <2>2. Before' = IF S = {} THEN Token("none", 1, 1) ELSE hist'[Max(S)]
    <3> HIDE DEF S, V
    <3> QED
      BY <2>1, <2>a
  <2>3. S # {} => Max(S) \in S
    <3>1. S \in SUBSET Int /\ \A x \in S : x <= Len(hist)
      BY <1>1
    <3> HIDE DEF S
    <3> QED
      BY <1>1, <3>1, MaxIs
  <2>4. S # {} => hist'[Max(S)] = hist[Max(S)]
    BY <1>6, <2>3
  <2>5. Before = IF S = {} THEN Token("none", 1, 1) ELSE hist[Max(S)]
    BY DEF Before
  <2> HIDE DEF S
  <2> QED
    BY <2>2, <2>4, <2>5
<1>9. Front(hist)' = Front(hist)
  <2>1. Front(hist) = [i \in 1 .. Len(hist) - 1 |-> hist[i]]
    BY <1>1 DEF Front
  <2>2. Front(hist)' = [i \in 1 .. Len(hist) - 1 |-> hist'[i]]
    BY <1>6 DEF Front
  <2> QED
    BY <1>6, <2>1, <2>2
<1> QED
  BY <1>1, <1>2, <1>3, <1>4, <1>6, <1>7, <1>8, <1>9


-----------------------------------------------------------------------------
(* next0 calls Scan.                                                       *)

\* What the scanner gives in a state of the invariant.
LEMMA ScanCases ==
    ASSUME Types
    PROVE  \/ sc.nlPos # NoPos /\ GivesKept(sc, Scan(sc))
           \/ /\ sc.nlPos = NoPos
              /\ \E p \in Nat :
                    /\ Skips(sc.pos, p, Owes(sc))
                    /\ GivesAuto(sc, p, Scan(sc)) \/ GivesComment(sc, p, Scan(sc)) \/ GivesToken(sc, p, Scan(sc))
<1>1. src \in Seq(Chars) /\ sc \in Scanners /\ Quiet(sc)
  BY DEF Types, Quiet
<1>2. IF sc.nlPos # NoPos THEN GivesKept(sc, Scan(sc))
      ELSE \E p \in Nat :
               /\ Skips(sc.pos, p, Owes(sc))
               /\ GivesAuto(sc, p, Scan(sc)) \/ GivesComment(sc, p, Scan(sc)) \/ GivesToken(sc, p, Scan(sc))
  BY <1>1, ScanIs
<1> QED
  BY <1>2

\* Its types.
LEMMA ScanTypes ==
    ASSUME Types, NEW r, r = Scan(sc)
    PROVE  /\ r.s \in Scanners /\ r.t \in Tokens /\ ~r.t.closes
           /\ r.t.kind = "COMMENT" => r.t \in Comments
           /\ r.t.kind = "STRING_TEMPLATE" => r.t.at \in 1 .. Size
           /\ sc.pos <= r.s.pos
           /\ r.s.nlPos # NoPos => r.t.kind = "COMMENT" /\ ~r.s.insertSemi /\ ~r.s.allow /\ ~r.s.prevGTR
<1>1. Size \in Nat /\ sc.pos \in 1 .. Size + 1 /\ sc.nlPos \in 0 .. Size
  BY ChIs DEF Types, Scanners
<1>2. ASSUME NEW k \in Kinds, NEW a \in 0 .. Size + 1, NEW e \in a .. Size + 1
      PROVE  /\ Token(k, a, e) \in Tokens /\ ~Token(k, a, e).closes
             /\ Token(k, a, e).kind = k /\ Token(k, a, e).at = a /\ ~Token(k, a, e).auto
  <2>1. e \in 0 .. Size + 1 /\ a <= e
    BY <1>1
  <2>2. Token(k, a, e) = [kind |-> k, at |-> a, end |-> e, auto |-> FALSE, closes |-> FALSE]
    BY DEF Token
  <2> QED
    BY <2>1, <2>2 DEF Tokens
<1>3. ASSUME NEW a \in 0 .. Size + 1, NEW e \in a .. Size + 1
      PROVE  /\ Semicolon(a, e) \in Tokens /\ ~Semicolon(a, e).closes
             /\ Semicolon(a, e).kind = "SEMICOLON"
  <2>1. e \in 0 .. Size + 1 /\ a <= e
    BY <1>1
  <2>2. Token("SEMICOLON", a, e)
        \in [kind : {"SEMICOLON"}, at : {a}, end : {e}, auto : BOOLEAN, closes : {FALSE}]
    BY DEF Token
  <2>3. Semicolon(a, e) \in [kind : {"SEMICOLON"}, at : {a}, end : {e}, auto : BOOLEAN, closes : {FALSE}]
    BY <2>2 DEF Semicolon
  <2> QED
    BY <2>1, <2>3 DEF Tokens, Kinds
<1>4. CASE sc.nlPos # NoPos /\ GivesKept(sc, r)
  <2>1. sc.nlPos \in 0 .. Size + 1 /\ sc.nlPos \in sc.nlPos .. Size + 1
    BY <1>1
  <2>2. r.t \in Tokens /\ ~r.t.closes /\ r.t.kind = "SEMICOLON"
    BY <1>3, <1>4, <2>1 DEF GivesKept
  <2> QED
    BY <1>1, <1>4, <2>2 DEF GivesKept
<1>5. ASSUME NEW p \in Nat, Skips(sc.pos, p, Owes(sc)), GivesAuto(sc, p, r)
      PROVE  /\ r.s \in Scanners /\ r.t \in Tokens /\ ~r.t.closes /\ r.t.kind = "SEMICOLON"
             /\ sc.pos <= r.s.pos /\ r.s.nlPos = NoPos
  <2>a. PICK e \in p .. Size + 1 : e = r.s.pos
    BY <1>5 DEF GivesAuto
  <2>b. p \in sc.pos .. Size + 1
    BY <1>5 DEF Skips
  <2>1. p \in 0 .. Size + 1 /\ r.s.pos \in p .. Size + 1 /\ sc.pos <= r.s.pos
    BY <1>1, <2>a, <2>b
  <2>2. r.t \in Tokens /\ ~r.t.closes /\ r.t.kind = "SEMICOLON"
    BY <1>3, <1>5, <2>1 DEF GivesAuto
  <2>3. r.s \in Scanners /\ r.s.nlPos = NoPos
    <3>1. r.s \in Scanners /\ r.s = NoSemi(e)
      BY <1>5, <2>a DEF GivesAuto
    <3> QED
      BY <3>1 DEF NoSemi
  <2> QED
    BY <2>1, <2>2, <2>3
<1>6. ASSUME NEW p \in Nat, Skips(sc.pos, p, Owes(sc)), GivesComment(sc, p, r)
      PROVE  /\ r.s \in Scanners /\ r.t \in Comments /\ r.t \in Tokens /\ ~r.t.closes /\ r.t.kind = "COMMENT"
             /\ sc.pos <= r.s.pos
             /\ r.s.nlPos # NoPos => ~r.s.insertSemi /\ ~r.s.allow /\ ~r.s.prevGTR
  <2>a. PICK e \in p + 1 .. Size + 1 : e = r.s.pos
    BY <1>6 DEF GivesComment
  <2>b. p \in sc.pos .. Size + 1
    BY <1>6 DEF Skips
  <2>1. p \in 1 .. Size + 1 /\ e \in p .. Size + 1 /\ sc.pos <= r.s.pos
    BY <1>1, <2>a, <2>b
  <2>2. p \in 0 .. Size + 1 /\ "COMMENT" \in Kinds
    BY <2>1 DEF Kinds
  <2>3. r.t \in Tokens /\ ~r.t.closes /\ r.t.kind = "COMMENT" /\ r.t.at = p /\ ~r.t.auto
    <3>1. r.t = Token("COMMENT", p, e)
      BY <1>6, <2>a DEF GivesComment
    <3>2. PICK k \in Kinds : k = "COMMENT"
      BY <2>2
    <3>3. Token(k, p, e) \in Tokens /\ ~Token(k, p, e).closes /\ Token(k, p, e).kind = k
          /\ Token(k, p, e).at = p /\ ~Token(k, p, e).auto
      <4>1. p \in 0 .. Size + 1 /\ e \in p .. Size + 1
        BY <2>1, <2>2
      <4> QED
        BY <1>2, <4>1
    <3> QED
      BY <3>1, <3>2, <3>3
  <2>4. r.t \in Comments
    BY <2>1, <2>3 DEF Comments
  <2>5. r.s \in Scanners /\ (r.s.nlPos # NoPos => ~r.s.insertSemi /\ ~r.s.allow /\ ~r.s.prevGTR)
    BY <1>6 DEF GivesComment
  <2> QED
    BY <2>1, <2>3, <2>4, <2>5
<1>7. ASSUME NEW p \in Nat, Skips(sc.pos, p, Owes(sc)), GivesToken(sc, p, r)
      PROVE  /\ r.s \in Scanners /\ r.t \in Tokens /\ ~r.t.closes /\ r.t.kind # "COMMENT"
             /\ r.t.kind = "STRING_TEMPLATE" => r.t.at \in 1 .. Size
             /\ sc.pos <= r.s.pos /\ r.s.nlPos = NoPos
  <2>a. PICK e \in p .. Size + 1 : e = r.s.pos
    BY <1>7 DEF GivesToken
  <2>b. p \in sc.pos .. Size + 1
    BY <1>7 DEF Skips
  <2>1. p \in 1 .. Size + 1 /\ p \in 0 .. Size + 1 /\ e \in p .. Size + 1 /\ sc.pos <= r.s.pos
    BY <1>1, <2>a, <2>b
  <2>2. r.s \in Scanners /\ r.t.kind \in Kinds \ {"COMMENT", "SEMICOLON"} /\ r.t = Token(r.t.kind, p, e)
        /\ r.s.nlPos = NoPos /\ (r.t.kind = "STRING_TEMPLATE" => p <= Size)
    BY <1>7, <2>a DEF GivesToken
  <2>3. PICK k \in Kinds : k = r.t.kind
    BY <2>2
  <2>4. Token(k, p, e) \in Tokens /\ ~Token(k, p, e).closes /\ Token(k, p, e).at = p
    BY <1>2, <2>1
  <2>5. r.t \in Tokens /\ ~r.t.closes /\ r.t.at = p
    BY <2>2, <2>3, <2>4
  <2> QED
    BY <2>1, <2>2, <2>5
<1> QED
  BY <1>1, <1>4, <1>5, <1>6, <1>7, ScanCases


\* Owed, after a token t has been recorded and s is the scanner.
LEMMA OwedNow ==
    ASSUME src' = src, NEW s, s = sc', NEW l, l = LastSig(hist)', NEW b, b = Before',
           hist' # <<>>, NEW t, t = Last(hist)', t = hist'[Len(hist')],
           s.nlPos = NoPos => (Owes(s) <=> NeedsSemi(l)) /\ (Owes(s) => Newlines(l.end, s.pos) = {}),
           s.nlPos # NoPos => NeedsSemi(l) /\ Ch(s.nlPos) = "\n" /\ Newlines(l.end, s.nlPos) = {},
           s.prevGTR => t.kind = "GTR" /\ t.end = s.pos /\ (t.closes <=> s.allow),
           pc' = "parse" /\ tok'.kind \in {"GTR", "RBRACE", EOF} =>
               t.kind = tok'.kind /\ (tok'.kind = "GTR" => s.prevGTR),
           t.auto => NeedsSemi(b) /\ Ch(t.at) \in {"\n", EOF} /\ Newlines(b.end, t.at) = {},
           ~t.auto /\ t.kind \notin {"COMMENT", "ILLEGAL"} /\ NeedsSemi(b) =>
               t.kind # EOF /\ Newlines(b.end, t.at) = {}
    PROVE  Owed'
<1>1. /\ \A p : Ch(p)' = Ch(p)
      /\ \A x, y : Newlines(x, y)' = Newlines(x, y)
  BY SameFile
<1>2. Owes(sc)' = Owes(s)
  BY DEF Owes
<1>3. SemicolonRule'
  BY <1>1 DEF SemicolonRule
<1>4. (sc.nlPos = NoPos =>
          /\ Owes(sc) <=> NeedsSemi(LastSig(hist))
          /\ Owes(sc) => Newlines(LastSig(hist).end, sc.pos) = {})'
  BY <1>1, <1>2
<1>5. (sc.nlPos # NoPos =>
          /\ NeedsSemi(LastSig(hist))
          /\ Ch(sc.nlPos) = "\n"
          /\ Newlines(LastSig(hist).end, sc.nlPos) = {})'
  BY <1>1
<1>6. (sc.prevGTR =>
          /\ hist # <<>> /\ hist[Len(hist)].kind = "GTR" /\ hist[Len(hist)].end = sc.pos
          /\ hist[Len(hist)].closes <=> sc.allow)'
  OBVIOUS
<1>7. (pc = "parse" /\ tok.kind \in {"GTR", "RBRACE", EOF} =>
          /\ hist # <<>> /\ hist[Len(hist)].kind = tok.kind
          /\ tok.kind = "GTR" => sc.prevGTR)'
  OBVIOUS
<1> QED
  BY <1>3, <1>4, <1>5, <1>6, <1>7 DEF Owed

\* What is owed, by the token before.
LEMMA OwedBefore ==
    ASSUME Types, Owed
    PROVE  \E l : /\ l = LastSig(hist)
                  /\ NeedsSemi(l) => l \in Tokens
                  /\ sc.nlPos = NoPos => (Owes(sc) <=> NeedsSemi(l)) /\ (Owes(sc) => Newlines(l.end, sc.pos) = {})
                  /\ sc.nlPos # NoPos => NeedsSemi(l) /\ Ch(sc.nlPos) = "\n" /\ Newlines(l.end, sc.nlPos) = {}
<1>1. hist \in Seq(Tokens)
  BY DEF Types
<1>2. NeedsSemi(LastSig(hist)) => LastSig(hist) \in Tokens
  <2>1. ASSUME NeedsSemi(LastSig(hist))
        PROVE  \E m \in 1 .. Len(hist) : LastSig(hist) = hist[m]
    BY <1>1, <2>1, LastSigNeeds
  <2>2. \A m \in 1 .. Len(hist) : hist[m] \in Tokens
    BY <1>1
  <2> QED
    BY <2>1, <2>2
<1> QED
  BY <1>2 DEF Owed

\* The scanner goes on: what is owed is given at the first newline.
LEMMA OwedScan ==
    ASSUME Types, Owed, src' = src, NEW r, r = Scan(sc), sc' = r.s, hist' = Append(hist, r.t),
           pc' = "parse" => tok' = r.t
    PROVE  Owed'
<1>1. PICK l : /\ l = LastSig(hist)
               /\ NeedsSemi(l) => l \in Tokens
               /\ sc.nlPos = NoPos => (Owes(sc) <=> NeedsSemi(l)) /\ (Owes(sc) => Newlines(l.end, sc.pos) = {})
               /\ sc.nlPos # NoPos => NeedsSemi(l) /\ Ch(sc.nlPos) = "\n" /\ Newlines(l.end, sc.nlPos) = {}
  BY OwedBefore
<1>2. PICK s, t : s = r.s /\ t = r.t
  OBVIOUS
<1>3. t \in Tokens /\ s \in Scanners /\ ~t.closes /\ hist \in Seq(Tokens) /\ Size \in Nat
      /\ sc.pos \in 1 .. Size + 1 /\ (NeedsSemi(l) => l.end \in Int)
  BY <1>1, <1>2, ScanTypes, ChIs DEF Types, Scanners, Tokens
<1>4. PICK n : n = (IF IsSig(t) THEN t ELSE l)
  OBVIOUS
<1>5. /\ LastSig(hist)' = n /\ Before' = l /\ hist' # <<>> /\ Last(hist)' = t /\ hist'[Len(hist')] = t
  BY <1>1, <1>2, <1>3, <1>4, LastSigAppend
<1>6. CASE sc.nlPos # NoPos /\ GivesKept(sc, r)
  <2>1. t = Semicolon(sc.nlPos, sc.nlPos) /\ s.nlPos = NoPos /\ ~s.insertSemi /\ ~s.allow /\ ~s.prevGTR
    BY <1>2, <1>6 DEF GivesKept
  <2>2. t.kind = "SEMICOLON" /\ t.auto /\ t.at = sc.nlPos
    BY <2>1 DEF Semicolon, Token
  <2>3. n = t /\ ~NeedsSemi(n) /\ ~Owes(s)
    BY <1>3, <1>4, <2>1, <2>2 DEF IsSig, NeedsSemi, Owes
  <2> QED
    BY <1>1, <1>2, <1>5, <1>6, <2>1, <2>2, <2>3, OwedNow DEF EOF
<1>7. ASSUME NEW p \in Nat, Skips(sc.pos, p, Owes(sc)), sc.nlPos = NoPos
      PROVE  /\ p \in sc.pos .. Size + 1
             /\ NeedsSemi(l) <=> Owes(sc)
             /\ Owes(sc) => Newlines(l.end, p) = {}
  <2>1. p \in sc.pos .. Size + 1
    BY <1>7 DEF Skips
  <2>2. Owes(sc) => \A q \in sc.pos .. p - 1 : src[q] # "\n"
    BY <1>7 DEF Skips
  <2>3. \A q \in sc.pos .. p - 1 : q \in 1 .. Size
    BY <1>3, <2>1
  <2>4. Owes(sc) => Newlines(sc.pos, p) = {}
    BY <2>2, <2>3 DEF Newlines, Ch
  <2>5. p \in Int /\ sc.pos \in Int
    BY <1>3
  <2>6. NeedsSemi(l) <=> Owes(sc)
    BY <1>1, <1>7
  <2>7. Owes(sc) => Newlines(l.end, p) = {}
    BY <1>1, <1>3, <1>7, <2>4, <2>5, <2>6, NewlinesSplit
  <2> QED
    BY <2>1, <2>6, <2>7
<1>8. ASSUME NEW p \in Nat, Skips(sc.pos, p, Owes(sc)), sc.nlPos = NoPos, GivesAuto(sc, p, r)
      PROVE  Owed'
  <2>1. Owes(sc) /\ t = Semicolon(p, s.pos) /\ s = NoSemi(s.pos) /\ Ch(p) \in {"\n", EOF}
    BY <1>2, <1>8 DEF GivesAuto
  <2>2. s.nlPos = NoPos /\ ~s.insertSemi /\ ~s.allow /\ ~s.prevGTR
    BY <2>1 DEF NoSemi
  <2>3. t.kind = "SEMICOLON" /\ t.auto /\ t.at = p
    BY <2>1 DEF Semicolon, Token
  <2>4. n = t /\ ~NeedsSemi(n) /\ ~Owes(s)
    BY <1>3, <1>4, <2>2, <2>3 DEF IsSig, NeedsSemi, Owes
  <2> QED
    <3>1. NeedsSemi(l) /\ Newlines(l.end, p) = {}
      BY <1>7, <1>8, <2>1
    <3>2. pc' = "parse" /\ tok'.kind \in {"GTR", "RBRACE", EOF} => FALSE
      BY <1>2, <2>3 DEF EOF
    <3> QED
      BY <1>2, <1>5, <2>1, <2>2, <2>3, <2>4, <3>1, <3>2, OwedNow
<1>9. ASSUME NEW p \in Nat, Skips(sc.pos, p, Owes(sc)), sc.nlPos = NoPos, GivesComment(sc, p, r)
      PROVE  Owed'
  <2>1. PICK e \in p + 1 .. Size + 1 : e = s.pos
    BY <1>2, <1>9 DEF GivesComment
  <2>2. /\ t = Token("COMMENT", p, e)
        /\ ~s.allow /\ ~s.prevGTR
        /\ \/ /\ s.nlPos = NoPos
              /\ s.insertSemi <=> Owes(sc)
              /\ Owes(sc) => Newlines(p, e) = {}
           \/ /\ s.nlPos \in p .. e - 1
              /\ Owes(sc) /\ ~s.insertSemi
              /\ Ch(s.nlPos) = "\n" /\ Newlines(p, s.nlPos) = {}
    BY <1>2, <1>9, <2>1 DEF GivesComment
  <2>3. t.kind = "COMMENT" /\ ~t.auto
    BY <2>2 DEF Token
  <2>4. n = l /\ (Owes(s) <=> s.insertSemi)
    BY <1>4, <2>2, <2>3 DEF IsSig, Owes
  <2>5. s.nlPos = NoPos => (Owes(s) <=> NeedsSemi(l)) /\ (Owes(s) => Newlines(l.end, e) = {})
    <3>1. s.nlPos = NoPos => (s.insertSemi <=> Owes(sc)) /\ (Owes(sc) => Newlines(p, e) = {})
      <4>1. s.nlPos \in p .. e - 1 => s.nlPos # NoPos
        <5>1. p \in Nat /\ 1 <= p
          BY <1>3, <1>7, <1>9
        <5> QED
          BY <5>1 DEF NoPos
      <4> QED
        BY <2>2, <4>1
    <3>2. Owes(sc) /\ Newlines(p, e) = {} => Newlines(l.end, e) = {}
      <4>1. p \in Int /\ e \in Int
        BY <1>3, <2>1
      <4> QED
        BY <1>3, <1>7, <1>9, <4>1, NewlinesSplit
    <3> QED
      BY <1>7, <1>9, <2>4, <3>1, <3>2
  <2>6. s.nlPos # NoPos => NeedsSemi(l) /\ Ch(s.nlPos) = "\n" /\ Newlines(l.end, s.nlPos) = {}
    <3>1. s.nlPos # NoPos => /\ s.nlPos \in p .. e - 1 /\ Owes(sc)
                             /\ Ch(s.nlPos) = "\n" /\ Newlines(p, s.nlPos) = {}
      BY <2>2
    <3>2. p \in Int /\ e \in Int /\ s.nlPos \in Int
      BY <1>3, <2>1 DEF Scanners
    <3> QED
      BY <1>3, <1>7, <1>9, <3>1, <3>2, NewlinesSplit
  <2>7. pc' = "parse" /\ tok'.kind \in {"GTR", "RBRACE", EOF} => FALSE
    BY <1>2, <2>3 DEF EOF
  <2> QED
    BY <1>2, <1>5, <2>1, <2>2, <2>3, <2>4, <2>5, <2>6, <2>7, OwedNow
<1>10. ASSUME NEW p \in Nat, Skips(sc.pos, p, Owes(sc)), sc.nlPos = NoPos, GivesToken(sc, p, r)
       PROVE  Owed'
  <2>1. PICK e \in p .. Size + 1 : e = s.pos
    BY <1>2, <1>10 DEF GivesToken
  <2>2. /\ t.kind \in Kinds \ {"COMMENT", "SEMICOLON"}
        /\ t = Token(t.kind, p, e)
        /\ Newlines(p, e) = {}
        /\ s.nlPos = NoPos /\ ~s.allow
        /\ s.prevGTR <=> t.kind = "GTR"
        /\ s.insertSemi <=>
              t.kind \in {"IDENT", "STRING", "RBRACE"} \/ (t.kind = "ILLEGAL" /\ Owes(sc))
        /\ t.kind = EOF => ~Owes(sc)
    BY <1>2, <1>10, <2>1 DEF GivesToken
  <2>3. t.at = p /\ t.end = e /\ ~t.auto /\ ~t.closes
    BY <2>2 DEF Token
  <2>4. (IsSig(t) <=> t.kind # "ILLEGAL") /\ (Owes(s) <=> s.insertSemi)
    BY <2>2 DEF IsSig, Owes
  <2>5. p \in Int /\ e \in Int /\ Newlines(e, e) = {}
    BY <1>3, <2>1, NewlinesSplit
  <2>6. (Owes(s) <=> NeedsSemi(n)) /\ (Owes(s) => Newlines(n.end, e) = {})
    <3>1. CASE t.kind = "ILLEGAL"
      <4>1. n = l /\ (Owes(s) <=> Owes(sc))
        BY <1>4, <2>2, <2>4, <3>1
      <4>2. Owes(sc) => Newlines(l.end, e) = {}
        BY <1>3, <1>7, <1>10, <2>2, <2>5, NewlinesSplit
      <4> QED
        BY <1>7, <1>10, <4>1, <4>2
    <3>2. CASE t.kind # "ILLEGAL"
      BY <1>4, <2>2, <2>3, <2>4, <2>5, <3>2 DEF NeedsSemi
    <3> QED
      BY <3>1, <3>2
  <2>7. t.kind \notin {"COMMENT", "ILLEGAL"} /\ NeedsSemi(l) => t.kind # EOF /\ Newlines(l.end, t.at) = {}
    BY <1>7, <1>10, <2>2, <2>3
  <2>8. s.prevGTR => t.kind = "GTR" /\ t.end = s.pos /\ (t.closes <=> s.allow)
    BY <2>1, <2>2, <2>3
  <2>9. pc' = "parse" /\ tok'.kind \in {"GTR", "RBRACE", EOF} => t.kind = tok'.kind /\ (tok'.kind = "GTR" => s.prevGTR)
    BY <1>2, <2>2
  <2> QED
    BY <1>2, <1>5, <2>1, <2>2, <2>3, <2>6, <2>7, <2>8, <2>9, OwedNow
<1> QED
  BY <1>6, <1>8, <1>9, <1>10, ScanCases

-----------------------------------------------------------------------------
(* The parser switches the scanner into a string, or marks a tag's end.    *)

\* A piece of a literal: it is on the line of the scanner.
LEMMA PieceIs ==
    ASSUME Types, pc = "parse", NEW r, r = TemplateLiteralContinue
    PROVE  /\ r.s \in Scanners /\ r.t \in Tokens
           /\ \E e \in sc.pos .. Size + 1 :
                 /\ r.t = Token(r.t.kind, sc.pos, e) /\ r.s.pos = e /\ Newlines(sc.pos, e) = {}
                 /\ r.t.at = sc.pos /\ r.t.end = e /\ ~r.t.auto /\ ~r.t.closes
           /\ r.t.kind \in {"STRING", "STRING_TEMPLATE"}
           /\ r.s.nlPos = NoPos /\ ~r.s.allow /\ ~r.s.prevGTR
           /\ r.s.insertSemi <=> r.t.kind = "STRING"
<1>1. src \in Seq(Chars) /\ sc \in Scanners /\ sc.nlPos = NoPos /\ sc.pos \in 1 .. Size + 1 /\ Size \in Nat
  BY ChIs DEF Types, Scanners
<1>2. PICK k, e : k = scanString(sc.pos)[1] /\ e = scanString(sc.pos)[2]
  OBVIOUS
<1>3. k \in {"STRING", "STRING_TEMPLATE"} /\ e \in sc.pos .. Size + 1 /\ Newlines(sc.pos, e) = {}
  BY <1>1, <1>2, ScanStringIs
<1>4. PICK d \in BOOLEAN : d = (k = "STRING")
  OBVIOUS
<1>5. r.t = Token(k, sc.pos, e) /\ r.s = [NoSemi(e) EXCEPT !.insertSemi = d, !.nlPos = NoPos]
  <2>1. r = [t |-> Token(k, sc.pos, e),
             s |-> [NoSemi(e) EXCEPT !.insertSemi = (k = "STRING"), !.nlPos = sc.nlPos]]
    BY <1>2 DEF TemplateLiteralContinue
  <2> QED
    BY <1>1, <1>4, <2>1
<1>6. r.s \in Scanners
  <2>1. e \in 1 .. Size + 1 /\ NoPos \in 0 .. Size
    BY <1>1, <1>3 DEF NoPos
  <2>2. [NoSemi(e) EXCEPT !.insertSemi = d, !.nlPos = NoPos] \in Scanners
    BY <1>1, <2>1, ScannerIs
  <2> QED
    BY <1>5, <2>2
<1>7. r.s.pos = e /\ r.s.nlPos = NoPos /\ ~r.s.allow /\ ~r.s.prevGTR /\ (r.s.insertSemi <=> d)
  BY <1>5 DEF NoSemi
<1>8. r.t.kind = k /\ r.t.at = sc.pos /\ r.t.end = e /\ ~r.t.auto /\ ~r.t.closes
  BY <1>5 DEF Token
<1>9. r.t \in Tokens
  <2>1. k \in Kinds /\ sc.pos \in 0 .. Size + 1 /\ e \in 0 .. Size + 1 /\ sc.pos <= e
    BY <1>1, <1>3 DEF Kinds
  <2>2. r.t = [kind |-> k, at |-> sc.pos, end |-> e, auto |-> FALSE, closes |-> FALSE]
    BY <1>5 DEF Token
  <2> QED
    BY <2>1, <2>2 DEF Tokens
<1> QED
  BY <1>3, <1>4, <1>5, <1>6, <1>7, <1>8, <1>9

\* After a piece, a semicolon is owed if the literal has ended.
LEMMA OwedPiece ==
    ASSUME Types, Owed, pc = "parse", src' = src, NEW r, r = TemplateLiteralContinue,
           sc' = r.s, hist' = Append(hist, r.t), tok'.kind = "STRING_TEMPLATE"
    PROVE  Owed'
<1>1. PICK l : /\ l = LastSig(hist)
               /\ sc.nlPos = NoPos => (Owes(sc) <=> NeedsSemi(l)) /\ (Owes(sc) => Newlines(l.end, sc.pos) = {})
  BY OwedBefore
<1>2. PICK s, t : s = r.s /\ t = r.t
  OBVIOUS
<1>3. PICK e \in sc.pos .. Size + 1 : s.pos = e /\ t.at = sc.pos /\ t.end = e /\ ~t.auto /\ ~t.closes
  BY <1>2, PieceIs
<1>4. /\ t \in Tokens /\ t.kind \in {"STRING", "STRING_TEMPLATE"}
      /\ s.nlPos = NoPos /\ ~s.allow /\ ~s.prevGTR /\ (s.insertSemi <=> t.kind = "STRING")
  BY <1>2, PieceIs
<1>5. hist \in Seq(Tokens) /\ sc.nlPos = NoPos /\ e \in Int
  BY <1>3, ChIs DEF Types, Scanners
<1>6. LastSig(hist)' = t /\ Before' = l /\ hist' # <<>> /\ Last(hist)' = t /\ hist'[Len(hist')] = t
  BY <1>1, <1>2, <1>4, <1>5, LastSigAppend DEF IsSig
<1>7. (Owes(s) <=> NeedsSemi(t)) /\ Newlines(t.end, e) = {}
  BY <1>3, <1>4, <1>5, NewlinesSplit DEF Owes, NeedsSemi
<1>8. NeedsSemi(l) => t.kind # EOF /\ Newlines(l.end, t.at) = {}
  BY <1>1, <1>3, <1>4, <1>5 DEF EOF
<1>9. pc' = "parse" /\ tok'.kind \in {"GTR", "RBRACE", EOF} => FALSE
  BY DEF EOF
<1> QED
  BY <1>2, <1>3, <1>4, <1>6, <1>7, <1>8, <1>9, OwedNow

\* The mark on the `>` of a tag: from now on, a semicolon is owed after it.
LEMMA OwedCloses ==
    ASSUME Types, Owed, pc = "parse", ~sc.allow, tok.kind \in {"GTR", "RBRACE", EOF},
           sc' = [sc EXCEPT !.allow = TRUE], hist' = [hist EXCEPT ![Len(hist)].closes = TRUE],
           src' = src, tok' = tok
    PROVE  Owed'
<1>1. PICK l : /\ l = LastSig(hist)
               /\ sc.nlPos = NoPos => (Owes(sc) <=> NeedsSemi(l)) /\ (Owes(sc) => Newlines(l.end, sc.pos) = {})
  BY OwedBefore
<1>2. PICK n : n = Len(hist)
  OBVIOUS
<1>3. PICK u : u = hist[n]
  OBVIOUS
<1>4. hist \in Seq(Tokens) /\ hist # <<>> /\ sc \in Scanners /\ sc.nlPos = NoPos /\ sc.pos \in Int
      /\ u.kind = tok.kind /\ (tok.kind = "GTR" => sc.prevGTR)
      /\ (sc.prevGTR => u.kind = "GTR" /\ u.end = sc.pos /\ (u.closes <=> sc.allow))
  BY <1>2, <1>3, ChIs DEF Types, Owed, Scanners
<1>5. /\ hist' \in Seq(Tokens) /\ Len(hist') = n /\ n \in Nat \ {0}
      /\ \A m \in 1 .. n - 1 : hist'[m] = hist[m]
      /\ \A m \in 1 .. n :
            hist'[m].kind = hist[m].kind /\ hist'[m].at = hist[m].at
            /\ hist'[m].end = hist[m].end /\ (hist'[m].auto <=> hist[m].auto)
      /\ hist'[n] = [u EXCEPT !.closes = TRUE]
      /\ Before' = Before
  BY <1>2, <1>3, <1>4, LastCloses
<1>6. PICK t : t = hist'[n]
  OBVIOUS
<1>7. u \in Tokens /\ n \in 1 .. n
  BY <1>2, <1>3, <1>4, <1>5
<1>8. t.closes /\ t.kind = u.kind /\ t.at = u.at /\ t.end = u.end /\ (t.auto <=> u.auto)
  BY <1>3, <1>5, <1>6, <1>7 DEF Tokens
<1>9. IsSig(t) /\ IsSig(u)
  BY <1>4, <1>8 DEF IsSig, EOF
<1>10. LastSig(hist)' = t /\ l = u
  <2>1. n + 1 .. n = {}
    BY <1>5
  <2>2. l = u
    BY <1>1, <1>2, <1>3, <1>4, <1>7, <1>9, <2>1, LastSigIs
  <2>3. LastSig(hist') = t
    <3>1. PICK h \in Seq(Tokens) : h = hist'
      BY <1>5
    <3>2. n \in 1 .. Len(h) /\ h[n] = t /\ IsSig(h[n]) /\ n + 1 .. Len(h) = {}
      BY <1>5, <1>6, <1>7, <1>9, <2>1, <3>1
    <3>3. LastSig(h) = h[n]
      BY <3>2, LastSigIs
    <3> QED
      BY <3>1, <3>2, <3>3
  <2> QED
    BY <2>2, <2>3
<1>11. PICK s : s = sc'
  OBVIOUS
<1>12. s.pos = sc.pos /\ s.nlPos = sc.nlPos /\ s.allow /\ (s.prevGTR <=> sc.prevGTR) /\ (s.insertSemi <=> sc.insertSemi)
  BY <1>4, <1>11 DEF Scanners
<1>13. (Owes(s) <=> NeedsSemi(t)) /\ (Owes(s) => Newlines(t.end, s.pos) = {})
  <2>1. CASE tok.kind = "GTR"
    <3>1. Newlines(sc.pos, sc.pos) = {}
      BY <1>4, NewlinesSplit
    <3> QED
      BY <1>4, <1>8, <1>12, <2>1, <3>1 DEF Owes, NeedsSemi
  <2>2. CASE tok.kind # "GTR"
    <3>1. ~sc.prevGTR
      BY <1>4, <2>2
    <3>2. Owes(s) <=> Owes(sc)
      BY <1>12, <3>1 DEF Owes
    <3>3. NeedsSemi(t) <=> NeedsSemi(u)
      BY <1>4, <1>8, <2>2 DEF NeedsSemi
    <3> QED
      BY <1>1, <1>4, <1>8, <1>10, <1>12, <3>2, <3>3
  <2> QED
    BY <2>1, <2>2
<1>14. PICK b : b = Before
  OBVIOUS
<1>15. /\ t.auto => NeedsSemi(b) /\ Ch(t.at) \in {"\n", EOF} /\ Newlines(b.end, t.at) = {}
       /\ ~t.auto /\ t.kind \notin {"COMMENT", "ILLEGAL"} /\ NeedsSemi(b) =>
               t.kind # EOF /\ Newlines(b.end, t.at) = {}
  <2>1. SemicolonRule /\ Last(hist) = u
    BY <1>2, <1>3 DEF Owed, Last
  <2> QED
    BY <1>4, <1>8, <1>14, <2>1 DEF SemicolonRule
<1>16. /\ s.prevGTR => t.kind = "GTR" /\ t.end = s.pos /\ (t.closes <=> s.allow)
       /\ t.kind = tok'.kind /\ (tok'.kind = "GTR" => s.prevGTR)
  BY <1>4, <1>8, <1>12
<1>17. Last(hist)' = t /\ hist' # <<>> /\ hist'[Len(hist')] = t /\ Before' = b
  BY <1>5, <1>6, <1>14 DEF Last
<1> QED
  BY <1>4, <1>10, <1>11, <1>12, <1>13, <1>15, <1>16, <1>17, OwedNow

\* The parser goes on.
LEMMA OwedKeeps ==
    ASSUME Owed, pc' = "next", UNCHANGED <<src, sc, hist>>
    PROVE  Owed'
BY DEF Owed, SemicolonRule, Before, Ch, Newlines, Size

-----------------------------------------------------------------------------
(* No text is lost.                                                        *)

Blank(a, b) == \A q \in a .. b - 1 : src[q] \in {" ", "\n"}

\* What is from p to e: a semicolon's white space, or a token.
Fits(t, p, e) == IF t.auto THEN Blank(p, e) ELSE t.at = p /\ t.end = e

\* A token is recorded, behind white space.
LEMMA TextAppend ==
    ASSUME Types, Text, src' = src, NEW t \in Tokens, hist' = Append(hist, t),
           NEW p \in Nat, p \in sc.pos .. Size + 1, NEW e \in Nat, e \in p .. Size + 1,
           NEW s, s = sc', s.pos = e,
           Blank(sc.pos, p), Fits(t, p, e)
    PROVE  Text'
<1>1. hist \in Seq(Tokens) /\ Size \in Nat /\ sc.pos \in 1 .. Size + 1 /\ p \in Nat /\ e \in Nat
  BY ChIs DEF Types, Scanners
<1>2. /\ hist' \in Seq(Tokens) /\ Len(hist') = Len(hist) + 1 /\ hist'[Len(hist) + 1] = t
      /\ \A m \in 1 .. Len(hist) : hist'[m] = hist[m]
      /\ Last(hist)' = t /\ Front(hist)' = hist
      /\ Len(hist) \in Nat
  BY <1>1, LastSigAppend
<1>3. \A m \in 1 .. Len(hist') : m \in 1 .. Len(hist) \/ m = Len(hist) + 1
  BY <1>2
<1>4. \A m \in 1 .. Len(hist) : ~hist[m].auto => 0 < hist[m].at /\ hist[m].end \in Int /\ hist[m].end <= sc.pos
  <2>1. \A m \in 1 .. Len(hist) : hist[m] \in Tokens
    BY <1>1
  <2>2. \A m \in 1 .. Len(hist) : ~hist[m].auto => 0 < hist[m].at /\ hist[m].end <= sc.pos
    BY Zenon DEF Text
  <2>3. \A x \in Tokens : x.end \in Int
    BY <1>1 DEF Tokens
  <2> QED
    BY <2>1, <2>2, <2>3
<1>5. \A q \in 1 .. sc.pos - 1 :
          src[q] \in {" ", "\n"} \/ \E m \in 1 .. Len(hist) : ~hist[m].auto /\ q < hist[m].end
  BY DEF Text
<1>6. ASSUME NEW m \in 1 .. Len(hist'), ~hist'[m].auto PROVE 0 < hist'[m].at /\ hist'[m].end <= e
  <2>1. CASE m \in 1 .. Len(hist)
    BY <1>1, <1>2, <1>4, <1>6, <2>1
  <2>2. CASE m = Len(hist) + 1
    BY <1>1, <1>2, <1>6, <2>2 DEF Fits
  <2> QED
    BY <1>3, <2>1, <2>2
<1>7. ASSUME NEW q \in 1 .. e - 1
      PROVE  src[q] \in {" ", "\n"} \/ \E m \in 1 .. Len(hist') : ~hist'[m].auto /\ q < hist'[m].end
  <2>1. q \in 1 .. sc.pos - 1 \/ q \in sc.pos .. p - 1 \/ q \in p .. e - 1
    BY <1>1
  <2>2. CASE q \in 1 .. sc.pos - 1
    <3>1. \A m \in 1 .. Len(hist) : m \in 1 .. Len(hist')
      BY <1>2
    <3> QED
      BY <1>2, <1>5, <2>2, <3>1
  <2>3. CASE q \in p .. e - 1
    <3>1. Len(hist) + 1 \in 1 .. Len(hist') /\ q < e
      BY <1>1, <1>2, <2>3
    <3> QED
      BY <1>2, <2>3, <3>1 DEF Fits, Blank
  <2> QED
    BY <2>1, <2>2, <2>3 DEF Blank
<1>8. ASSUME ~t.auto
      PROVE  LET from == Max({1} \cup {x.end : x \in {x \in Range(hist) : ~x.auto}})
             IN  from <= p /\ \A q \in from .. p - 1 : src[q] \in {" ", "\n"}
  <2> DEFINE S == {1} \cup {x.end : x \in {x \in Range(hist) : ~x.auto}}
             from == Max(S)
  <2>1. \A x : x \in Range(hist) <=> \E m \in 1 .. Len(hist) : x = hist[m]
    BY <1>1 DEF Range
  <2>2. S \in SUBSET Int /\ \A x \in S : x <= sc.pos
    BY <1>1, <1>4, <2>1
  <2>3. from \in S /\ \A x \in S : x <= from
    <3>1. sc.pos \in Int /\ S # {}
      BY <1>1
    <3> HIDE DEF S
    <3> QED
      BY <2>2, <3>1, MaxIs
  <2>4. \A m \in 1 .. Len(hist) : ~hist[m].auto => hist[m].end \in S
    BY <2>1
  <2>a. 1 \in S
    OBVIOUS
  <2> HIDE DEF S, from
  <2>5. from \in Int /\ 1 <= from /\ from <= sc.pos /\ from <= p
    BY <1>1, <2>2, <2>3, <2>a
  <2>6. ASSUME NEW q \in from .. p - 1 PROVE src[q] \in {" ", "\n"}
    <3>1. CASE q \in sc.pos .. p - 1
      BY <3>1 DEF Blank
    <3>2. CASE q \notin sc.pos .. p - 1
      <4>1. q \in 1 .. sc.pos - 1 /\ from <= q
        BY <1>1, <2>5, <3>2
      <4>2. ASSUME NEW m \in 1 .. Len(hist), ~hist[m].auto, q < hist[m].end PROVE FALSE
        <5>1. hist[m].end <= from /\ hist[m].end \in Int
          BY <1>4, <2>3, <2>4, <4>2
        <5> QED
          BY <2>5, <4>1, <4>2, <5>1
      <4> QED
        BY <1>5, <4>1, <4>2
    <3> QED
      BY <3>1, <3>2
  <2> QED
    BY <2>5, <2>6 DEF from, S
<1>9. NoTextLost'
  <2>1. ~t.auto => t.at = p
    BY DEF Fits, Blank
  <2> QED
    BY <1>2, <1>8, <2>1 DEF NoTextLost
<1> QED
  BY <1>6, <1>7, <1>9 DEF Text

\* So it is with each token that Scan gives,
LEMMA TextScan ==
    ASSUME Types, Text, src' = src, NEW r, r = Scan(sc), sc' = r.s, hist' = Append(hist, r.t)
    PROVE  Text'
<1>1. r.t \in Tokens /\ Size \in Nat /\ sc.pos \in 1 .. Size + 1
  BY ScanTypes, ChIs DEF Types, Scanners
<1>2. CASE GivesKept(sc, r)
  <2>1. r.t.auto /\ r.s.pos = sc.pos
    BY <1>2 DEF GivesKept, Semicolon, Token
  <2>2. PICK p \in Nat : p = sc.pos /\ p \in sc.pos .. Size + 1 /\ sc.pos .. p - 1 = {} /\ p .. p - 1 = {}
    BY <1>1
  <2>3. Blank(sc.pos, p) /\ Fits(r.t, p, p)
    BY <2>1, <2>2 DEF Blank, Fits
  <2> QED
    BY <1>1, <2>1, <2>2, <2>3, TextAppend
<1>3. ASSUME NEW p \in Nat, Skips(sc.pos, p, Owes(sc)),
             GivesAuto(sc, p, r) \/ GivesComment(sc, p, r) \/ GivesToken(sc, p, r)
      PROVE  Text'
  <2>1. p \in sc.pos .. Size + 1 /\ Blank(sc.pos, p)
    BY <1>3, Zenon DEF Skips, Blank
  <2>2. PICK e : e = r.s.pos
    OBVIOUS
  <2>3. e \in p .. Size + 1 /\ Fits(r.t, p, e)
    <3>1. CASE GivesAuto(sc, p, r)
      <4>1. e \in p .. Size + 1 /\ r.t = Semicolon(p, e) /\ Blank(p, e)
        BY <2>2, <3>1, Zenon DEF GivesAuto, Blank
      <4>2. r.t.auto
        BY <4>1 DEF Semicolon, Token
      <4> QED
        BY <4>1, <4>2 DEF Fits
    <3>2. CASE GivesComment(sc, p, r)
      <4>1. e \in p + 1 .. Size + 1 /\ r.t = Token("COMMENT", p, e)
        BY <2>2, <3>2 DEF GivesComment
      <4>2. ~r.t.auto /\ r.t.at = p /\ r.t.end = e
        BY <4>1 DEF Token
      <4> QED
        BY <1>1, <4>1, <4>2 DEF Fits
    <3>3. CASE GivesToken(sc, p, r)
      <4>1. e \in p .. Size + 1 /\ r.t = Token(r.t.kind, p, e)
        BY <2>2, <3>3 DEF GivesToken
      <4>2. ~r.t.auto /\ r.t.at = p /\ r.t.end = e
        BY <4>1 DEF Token
      <4> QED
        BY <4>1, <4>2 DEF Fits
    <3> QED
      BY <1>3, <3>1, <3>2, <3>3
  <2>4. e \in Nat
    BY <1>1, <2>1, <2>3
  <2> QED
    BY <1>1, <2>1, <2>2, <2>3, <2>4, TextAppend
<1> QED
  BY <1>2, <1>3, ScanCases

\* with each piece of a literal,
LEMMA TextPiece ==
    ASSUME Types, Text, pc = "parse", src' = src, NEW r, r = TemplateLiteralContinue,
           sc' = r.s, hist' = Append(hist, r.t)
    PROVE  Text'
<1>1. PICK e \in sc.pos .. Size + 1 : r.s.pos = e /\ r.t.at = sc.pos /\ r.t.end = e /\ ~r.t.auto
  BY PieceIs
<1>2. r.t \in Tokens
  BY PieceIs
<1>3. sc.pos \in Nat /\ sc.pos \in sc.pos .. Size + 1 /\ e \in Nat /\ sc.pos .. sc.pos - 1 = {}
  BY ChIs DEF Types, Scanners
<1>4. PICK p \in Nat : p = sc.pos
  BY <1>3
<1>5. Blank(sc.pos, p) /\ Fits(r.t, p, e) /\ e \in p .. Size + 1 /\ p \in sc.pos .. Size + 1
  BY <1>1, <1>3, <1>4 DEF Blank, Fits
<1> QED
  BY <1>1, <1>2, <1>3, <1>4, <1>5, TextAppend

\* and when the last token is marked.
LEMMA TextCloses ==
    ASSUME Types, Text, hist # <<>>, sc' = [sc EXCEPT !.allow = TRUE],
           hist' = [hist EXCEPT ![Len(hist)].closes = TRUE], src' = src
    PROVE  Text'
<1>1. hist \in Seq(Tokens) /\ sc \in Scanners
  BY DEF Types
<1>2. sc'.pos = sc.pos
  BY <1>1 DEF Scanners
<1>3. /\ Len(hist') = Len(hist) /\ Len(hist) \in 1 .. Len(hist)
      /\ \A m \in 1 .. Len(hist) :
            /\ hist'[m].kind = hist[m].kind /\ hist'[m].at = hist[m].at
            /\ hist'[m].end = hist[m].end /\ (hist'[m].auto <=> hist[m].auto)
      /\ Front(hist)' = Front(hist)
  BY <1>1, LastCloses
<1>4. Last(hist)'.at = Last(hist).at /\ (Last(hist)'.auto <=> Last(hist).auto) /\ hist' # <<>>
  BY <1>3 DEF Last
<1>5. Range(Front(hist))' = Range(Front(hist))
  BY <1>3
<1>6. NoTextLost'
  BY <1>4, <1>5 DEF NoTextLost, Text
<1> QED
  BY <1>2, <1>3, <1>6 DEF Text

\* Neither the scanner nor what is recorded changes.
LEMMA TextKeeps ==
    ASSUME Text, UNCHANGED <<src, sc, hist>>
    PROVE  Text'
BY DEF Text, NoTextLost

-----------------------------------------------------------------------------
(* The stack of the template literals.                                     *)

\* No literal begins or ends.
LEMMA StackKeeps ==
    ASSUME Stack, UNCHANGED <<lits, levels>>, ~InTemplate', ~skipped' => ~skipped /\ ~InTemplate
    PROVE  Stack'
<1>1. TopIsReady'
  BY DEF InTemplate, TopIsReady
<1> QED
  BY <1>1 DEF Stack

\* A literal begins.
LEMMA StackPush ==
    ASSUME Types, Stack, NEW x, lits' = Append(lits, NoPos),
           levels' = Append(levels, [index |-> Len(lits) + 1, start |-> x]),
           ~InTemplate, ~InTemplate', skipped' = skipped
    PROVE  Stack'
<1>1. PICK n, k : n = Len(lits) /\ k = Len(levels)
  OBVIOUS
<1>2. PICK l : l = [index |-> n + 1, start |-> x]
  OBVIOUS
<1>3. l.index = n + 1 /\ n \in Nat /\ k \in Nat
  BY <1>1, <1>2 DEF Types
<1>4. /\ Len(lits') = n + 1 /\ lits'[n + 1] = NoPos /\ \A i \in 1 .. n : lits'[i] = lits[i]
      /\ Len(levels') = k + 1 /\ levels'[k + 1] = l /\ \A j \in 1 .. k : levels'[j] = levels[j]
  BY <1>1, <1>2 DEF Types
<1>5. /\ \A j \in 1 .. k : levels[j].index \in 1 .. n
      /\ \A i, j \in 1 .. k : i < j => levels[i].index < levels[j].index
      /\ \A i \in 1 .. n : lits[i] = NoPos <=> \E j \in 1 .. k : levels[j].index = i
      /\ ~skipped => n = k /\ \A j \in 1 .. k : levels[j].index = j
  BY <1>1, <1>3 DEF Stack
<1>6. \A j \in 1 .. k + 1 : j \in 1 .. k \/ j = k + 1
  BY <1>3
<1>7. \A j \in 1 .. k + 1 : levels'[j].index \in 1 .. n + 1
  BY <1>3, <1>4, <1>5, <1>6
<1>8. ASSUME NEW i \in 1 .. k + 1, NEW j \in 1 .. k + 1, i < j PROVE levels'[i].index < levels'[j].index
  <2>1. i \in 1 .. k
    BY <1>3, <1>8
  <2> QED
    BY <1>3, <1>4, <1>5, <1>6, <1>8, <2>1
<1>9. ASSUME NEW i \in 1 .. n + 1 PROVE lits'[i] = NoPos <=> \E j \in 1 .. k + 1 : levels'[j].index = i
  <2>1. CASE i \in 1 .. n
    <3>1. \A j \in 1 .. k : j \in 1 .. k + 1
      BY <1>3
    <3>2. i # n + 1
      BY <1>3, <2>1
    <3> QED
      BY <1>3, <1>4, <1>5, <1>6, <2>1, <3>1, <3>2
  <2>2. CASE i = n + 1
    <3>1. k + 1 \in 1 .. k + 1
      BY <1>3
    <3> QED
      BY <1>3, <1>4, <2>2, <3>1
  <2>3. i \in 1 .. n \/ i = n + 1
    BY <1>3
  <2> QED
    BY <2>1, <2>2, <2>3
<1>10. ~skipped => n + 1 = k + 1 /\ \A j \in 1 .. k + 1 : levels'[j].index = j
  BY <1>3, <1>4, <1>5, <1>6
<1>11. TopIsReady'
  BY DEF InTemplate, TopIsReady
<1> QED
  BY <1>3, <1>4, <1>7, <1>8, <1>9, <1>10, <1>11 DEF Stack

\* A literal is popped: it was finished, so it is that of no level.
LEMMA StackPop ==
    ASSUME Types, Stack, InTemplate, ~InTemplate', lits' = Front(lits), UNCHANGED <<levels, skipped>>
    PROVE  Stack'
<1>1. PICK n, k : n = Len(lits) /\ k = Len(levels)
  OBVIOUS
<1>2. n \in Nat \ {0} /\ k \in Nat /\ lits[n] # NoPos
  BY <1>1 DEF Types, Stack, TopIsReady, InTemplate, Last
<1>3. Len(lits') = n - 1 /\ \A i \in 1 .. n - 1 : lits'[i] = lits[i]
  BY <1>1, <1>2 DEF Types, Front
<1>4. /\ \A j \in 1 .. k : levels[j].index \in 1 .. n
      /\ \A i, j \in 1 .. k : i < j => levels[i].index < levels[j].index
      /\ \A i \in 1 .. n : lits[i] = NoPos <=> \E j \in 1 .. k : levels[j].index = i
      /\ ~skipped => n = k + 1 /\ \A j \in 1 .. k : levels[j].index = j
  BY <1>1, <1>2 DEF Stack
<1>5. ASSUME NEW j \in 1 .. k PROVE levels[j].index \in 1 .. n - 1
  <2>1. levels[j].index # n
    BY <1>2, <1>4
  <2> QED
    BY <1>2, <1>4, <2>1
<1>6. \A i \in 1 .. n - 1 : lits'[i] = NoPos <=> \E j \in 1 .. k : levels[j].index = i
  BY <1>2, <1>3, <1>4
<1>7. ~skipped => n - 1 = k
  BY <1>2, <1>4
<1>8. TopIsReady'
  BY DEF InTemplate, TopIsReady
<1> QED
  BY <1>1, <1>2, <1>3, <1>4, <1>5, <1>6, <1>7, <1>8 DEF Stack

\* A literal ends: it is the last without a position.
LEMMA StackFinish ==
    ASSUME Types, Stack, levels # <<>>, NEW l, l = Last(levels), lits' = SetLit(lits, l.index, l.start),
           levels' = Front(levels), tok' = Token("STRING_TEMPLATE", l.start, l.start), pc' = "parse",
           skipped' = (skipped \/ tok.kind = "STRING_TEMPLATE")
    PROVE  Stack'
<1>1. PICK n, k : n = Len(lits) /\ k = Len(levels)
  OBVIOUS
<1>2. PICK d, x : d = l.index /\ x = l.start
  OBVIOUS
<1>3. n \in Nat /\ k \in Nat \ {0} /\ l = levels[k] /\ l \in Levels /\ x \in 1 .. Size /\ Size \in Nat
  <2>1. n \in Nat /\ k \in Nat \ {0} /\ levels \in Seq(Levels) /\ src \in Seq(Chars)
    BY <1>1 DEF Types
  <2>2. l = levels[k] /\ levels[k] \in Levels
    BY <1>1, <2>1 DEF Last
  <2>3. Size \in Nat
    BY <2>1, ChIs
  <2> QED
    BY <1>2, <2>1, <2>2, <2>3 DEF Levels
<1>4. /\ \A j \in 1 .. k : levels[j].index \in 1 .. n
      /\ \A i, j \in 1 .. k : i < j => levels[i].index < levels[j].index
      /\ \A i \in 1 .. n : lits[i] = NoPos <=> \E j \in 1 .. k : levels[j].index = i
      /\ ~skipped' => n = k /\ \A j \in 1 .. k : levels[j].index = j
  <2>1. ~skipped' => ~skipped /\ ~InTemplate
    BY DEF InTemplate
  <2> QED
    BY <1>1, <1>3, <2>1 DEF Stack
<1>5. d \in 1 .. n /\ \A j \in 1 .. k - 1 : levels[j].index < d
  BY <1>2, <1>3, <1>4
<1>6. Len(lits') = n /\ \A i \in 1 .. n : lits'[i] = IF i = d THEN x ELSE lits[i]
  BY <1>1, <1>2, <1>5 DEF Types, SetLit
<1>7. Len(levels') = k - 1 /\ \A j \in 1 .. k - 1 : levels'[j] = levels[j]
  BY <1>1, <1>3 DEF Types, Front
<1>8. \A j \in 1 .. k : j \in 1 .. k - 1 \/ j = k
  BY <1>3
<1>9. ASSUME NEW i \in 1 .. n PROVE lits'[i] = NoPos <=> \E j \in 1 .. k - 1 : levels'[j].index = i
  <2>1. CASE i = d
    <3>1. x # NoPos /\ lits'[i] = x
      BY <1>3, <1>6, <2>1 DEF NoPos
    <3>2. \A j \in 1 .. k - 1 : levels'[j].index # i
      BY <1>3, <1>4, <1>5, <1>7, <2>1
    <3> QED
      BY <3>1, <3>2
  <2>2. CASE i # d
    <3>1. lits'[i] = NoPos <=> \E j \in 1 .. k : levels[j].index = i
      BY <1>4, <1>6, <2>2
    <3>2. \A j \in 1 .. k : levels[j].index = i => j \in 1 .. k - 1
      BY <1>2, <1>3, <1>8, <2>2
    <3>3. \A j \in 1 .. k - 1 : j \in 1 .. k
      BY <1>3
    <3> QED
      BY <1>7, <3>1, <3>2, <3>3
  <2> QED
    BY <2>1, <2>2
<1>10. /\ \A j \in 1 .. k - 1 : levels'[j].index \in 1 .. n
       /\ \A i, j \in 1 .. k - 1 : i < j => levels'[i].index < levels'[j].index
       /\ ~skipped' => n = k - 1 + 1 /\ \A j \in 1 .. k - 1 : levels'[j].index = j
  <2>1. \A j \in 1 .. k - 1 : j \in 1 .. k
    BY <1>3
  <2> QED
    BY <1>3, <1>4, <1>7, <2>1
<1>11. tok'.kind = "STRING_TEMPLATE" /\ tok'.at = x
  BY <1>2 DEF Token
<1>12. TopIsReady'
  <2>1. n \in 1 .. n /\ lits' # <<>> /\ Last(lits)' = lits'[n]
    BY <1>3, <1>5, <1>6 DEF Last
  <2>2. lits'[n] # NoPos
    <3>1. \A j \in 1 .. k - 1 : levels'[j].index # n
      BY <1>3, <1>4, <1>5, <1>7
    <3> QED
      BY <1>9, <2>1, <3>1
  <2>3. ~skipped' => lits'[n] = x
    <3>1. ~skipped' => d = n
      BY <1>2, <1>3, <1>4
    <3> QED
      BY <1>6, <2>1, <3>1
  <2> QED
    BY <1>11, <2>1, <2>2, <2>3 DEF TopIsReady
<1>13. InTemplate'
  BY <1>11 DEF InTemplate
<1> QED
  BY <1>3, <1>6, <1>7, <1>9, <1>10, <1>12, <1>13 DEF Stack

\* No literal begins or ends, and the parser looks at the same token.
LEMMA StackAllow ==
    ASSUME Stack, UNCHANGED <<tok, pc, lits, levels, skipped>>
    PROVE  Stack'
BY DEF Stack, TopIsReady, InTemplate

-----------------------------------------------------------------------------
(* Groups of comments.                                                     *)

\* Inside a comment, no line is behind the one on which it ends.
LEMMA LineInComment ==
    ASSUME src \in Seq(Chars), NEW c \in Tokens, 0 < c.at, NEW p \in c.at .. c.end
    PROVE  Line(p) <= EndLine(c)
<1>1. PICK a, e : a = c.at /\ e = c.end
  OBVIOUS
<1>2. a \in Nat \ {0} /\ e \in Nat /\ p \in Nat \ {0} /\ a <= p /\ p <= e
  BY <1>1, ChIs DEF Tokens
<1> DEFINE A == Newlines(1, a) \ {Size}
           B == Newlines(a, e)
           C == Newlines(1, p) \ {Size}
<1>3. IsFiniteSet(A) /\ IsFiniteSet(B) /\ Cardinality(A) \in Nat /\ Cardinality(B) \in Nat
  BY <1>2, NewlinesFinite
<1>4. C \subseteq A \cup B
  BY <1>2 DEF Newlines
<1>5. Line(p) = 1 + Cardinality(C) /\ EndLine(c) = 1 + Cardinality(A) + Cardinality(B)
  <2>1. Line(p) = 1 + Cardinality(C) /\ Line(a) = 1 + Cardinality(A)
    BY <1>2 DEF Line, NoPos
  <2> QED
    BY <1>1, <2>1 DEF EndLine
<1> HIDE DEF A, B, C
<1>6. /\ IsFiniteSet(A \cup B)
      /\ Cardinality(A \cup B) = Cardinality(A) + Cardinality(B) - Cardinality(A \cap B)
  BY <1>3, FS_Union
<1>7. Cardinality(C) \in Nat /\ Cardinality(C) <= Cardinality(A \cup B) /\ Cardinality(A \cup B) \in Nat
  BY <1>4, <1>6, FS_Subset, FS_CardinalityType
<1>8. Cardinality(A \cap B) \in Nat
  <2>1. IsFiniteSet(A \cap B)
    BY <1>3, FS_Subset
  <2> QED
    BY <2>1, FS_CardinalityType
<1> QED
  BY <1>3, <1>5, <1>6, <1>7, <1>8

\* A group ends where the next comment is on a later line.
LEMMA GroupEndIs ==
    ASSUME src \in Seq(Chars), NEW cs \in Seq(Comments), NEW a \in 1 .. Len(cs), NEW n \in Nat
    PROVE  /\ GroupEnd(cs, a, n) \in a .. Len(cs)
           /\ GroupEnd(cs, a, n) < Len(cs) =>
                 EndLine(cs[GroupEnd(cs, a, n)]) + n < Line(cs[GroupEnd(cs, a, n) + 1].at)
<1> DEFINE S == {b \in a .. Len(cs) : \A c \in a + 1 .. b : Line(cs[c].at) <= EndLine(cs[c - 1]) + n}
<1>1. PICK k : k = Len(cs)
  OBVIOUS
<1>2. k \in Nat /\ a \in 1 .. k
  BY <1>1
<1>3. a \in S /\ S \in SUBSET Int /\ \A x \in S : x <= k
  BY <1>1, <1>2
<1>4. PICK g : g = GroupEnd(cs, a, n)
  OBVIOUS
<1>5. g \in S /\ \A x \in S : x <= g
  <2>1. g = Max(S)
    BY <1>4 DEF GroupEnd
  <2> HIDE DEF S
  <2>2. k \in Int /\ S # {}
    BY <1>2, <1>3
  <2> QED
    BY <1>3, <2>1, <2>2, MaxIs
<1>6. g \in a .. k /\ \A c \in a + 1 .. g : Line(cs[c].at) <= EndLine(cs[c - 1]) + n
  BY <1>1, <1>5
<1>7. ASSUME g < k PROVE EndLine(cs[g]) + n < Line(cs[g + 1].at)
  <2>1. g + 1 \notin S /\ g + 1 \in a .. k /\ g + 1 \in 1 .. k /\ g \in 1 .. k
    BY <1>2, <1>5, <1>6, <1>7
  <2> HIDE DEF S
  <2>3. PICK d : d = g + 1 /\ d - 1 = g
    BY <1>2, <1>6
  <2>2. ~(Line(cs[d].at) <= EndLine(cs[d - 1]) + n)
    <3> SUFFICES ASSUME Line(cs[d].at) <= EndLine(cs[d - 1]) + n PROVE FALSE
      OBVIOUS
    <3>1. \A c \in a + 1 .. d : c \in a + 1 .. g \/ c = d
      BY <1>2, <1>6, <2>3
    <3>2. \A c \in a + 1 .. d : Line(cs[c].at) <= EndLine(cs[c - 1]) + n
      <4> TAKE c \in a + 1 .. d
      <4>1. CASE c \in a + 1 .. g
        BY <1>6, <4>1
      <4>2. CASE c = d
        BY <4>2, Zenon
      <4> QED
        BY <3>1, <4>1, <4>2
    <3> QED
      BY <1>1, <2>1, <2>3, <3>2 DEF S
  <2>4. cs[g] \in Tokens /\ cs[g + 1] \in Tokens /\ cs[g + 1].at \in Nat
    BY <1>1, <2>1, ChIs DEF Comments, Tokens
  <2>5. EndLine(cs[g]) \in Nat /\ Line(cs[g + 1].at) \in Nat
    BY <2>4, EndLineIs, LineOrder
  <2> QED
    BY <2>2, <2>3, <2>5
<1> QED
  BY <1>1, <1>4, <1>6, <1>7

\* The lead comment of t is the end of the comments before it, and ends on the
\* line before; it begins after the line of the token before.
LEMMA LeadCommentIs ==
    ASSUME Types, Order, NEW t \in Tokens, NEW ld, ld = LeadComment(comments, t), ld # <<>>
    PROVE  /\ comments # <<>> /\ ld \in Seq(Comments)
           /\ ld[Len(ld)] = comments[Len(comments)]
           /\ EndLine(comments[Len(comments)]) + 1 = Line(t.at)
           /\ Line(tok.at) < Line(ld[1].at)
<1>1. PICK cs, k : cs = comments /\ k = Len(cs)
  OBVIOUS
<1>2. cs \in Seq(Comments) /\ k \in Nat /\ src \in Seq(Chars) /\ tok \in Tokens
  BY <1>1 DEF Types
<1> DEFINE first == IF cs # <<>> /\ Line(cs[1].at) = Line(tok.at) THEN GroupEnd(cs, 1, 0) + 1 ELSE 1
           S == {a \in first .. k : GroupEnd(cs, a, 1) = k}
<1>3. ld = IF first > k \/ EndLine(Last(cs)) + 1 # Line(t.at) THEN <<>> ELSE SubSeq(cs, Min(S), k)
  BY <1>1 DEF LeadComment
<1>4. ~(first > k) /\ EndLine(Last(cs)) + 1 = Line(t.at) /\ ld = SubSeq(cs, Min(S), k)
  BY <1>3
<1>5. PICK f : f = first
  OBVIOUS
<1>6. f \in Nat /\ 1 <= f
  <2>1. CASE cs # <<>> /\ Line(cs[1].at) = Line(tok.at)
    <3>1. 1 \in 1 .. k
      BY <1>1, <1>2, <2>1
    <3>2. GroupEnd(cs, 1, 0) \in 1 .. k
      BY <1>1, <1>2, <3>1, GroupEndIs
    <3> QED
      BY <1>2, <1>5, <2>1, <3>2
  <2>2. CASE ~(cs # <<>> /\ Line(cs[1].at) = Line(tok.at))
    BY <1>5, <2>2
  <2> QED
    BY <2>1, <2>2
<1>7. f <= k
  BY <1>2, <1>4, <1>5, <1>6
<1>8. k \in S /\ S \in SUBSET Nat
  <2>1. GroupEnd(cs, k, 1) \in k .. k
    <3>1. k \in 1 .. Len(cs) /\ 1 \in Nat
      BY <1>1, <1>2, <1>6, <1>7
    <3>2. GroupEnd(cs, k, 1) \in k .. Len(cs)
      BY <1>2, <3>1, GroupEndIs
    <3> QED
      BY <1>1, <3>2
  <2> QED
    BY <1>2, <1>5, <1>6, <1>7, <2>1
<1>9. PICK m : m = Min(S)
  OBVIOUS
<1>10. m \in f .. k
  <2>1. m \in S
    <3> HIDE DEF S
    <3> QED
      BY <1>8, <1>9, MinIs
  <2> QED
    BY <1>5, <2>1
<1> HIDE DEF first, S
<1>11. ld = SubSeq(cs, m, k)
  BY <1>4, <1>9
<1>12. /\ ld \in Seq(Comments) /\ Len(ld) = k - m + 1 /\ ld[1] = cs[m] /\ ld[Len(ld)] = cs[k]
  <2>1. m \in 1 .. k
    BY <1>2, <1>6, <1>10
  <2>2. ld \in Seq(Comments) /\ Len(ld) = k - m + 1 /\ \A i \in 1 .. k - m + 1 : ld[i] = cs[m + i - 1]
    BY <1>1, <1>2, <1>11, <2>1
  <2>3. 1 \in 1 .. k - m + 1 /\ m + 1 - 1 = m /\ m + (k - m + 1) - 1 = k
    BY <1>2, <2>1
  <2>4. k - m + 1 \in 1 .. k - m + 1
    BY <1>2, <2>1
  <2> QED
    BY <2>2, <2>3, <2>4
<1>13. EndLine(cs[k]) + 1 = Line(t.at)
  BY <1>1, <1>4 DEF Last
<1>14. /\ \A a, b \in 1 .. k : a < b => cs[a].at <= cs[b].at
       /\ \A a \in 1 .. k : tok.at <= cs[a].at /\ cs[a] \in Tokens /\ cs[a].at \in Nat
       /\ tok.at \in Nat
  <2>1. \A a \in 1 .. k : cs[a] \in Tokens
    BY <1>1, <1>2 DEF Comments
  <2>2. \A c \in Tokens : c.at \in Nat
    BY <1>2, ChIs DEF Tokens
  <2> QED
    BY <1>1, <1>2, <2>1, <2>2 DEF Order, Met
<1>15. \A a, b \in 1 .. k : a <= b => Line(cs[a].at) <= Line(cs[b].at)
  <2> TAKE a, b \in 1 .. k
  <2> HAVE a <= b
  <2>1. cs[a].at <= cs[b].at
    <3>1. CASE a = b
      BY <1>14, <3>1
    <3>2. CASE a < b
      BY <1>14, <3>2
    <3> QED
      BY <1>2, <3>1, <3>2
  <2> QED
    BY <1>2, <1>14, <2>1, LineOrder
<1>16. /\ \A a \in 1 .. k : Line(cs[a].at) \in Nat /\ Line(tok.at) <= Line(cs[a].at)
       /\ Line(tok.at) \in Nat
  <2>1. Line(tok.at) \in Nat
    BY <1>2, <1>14, LineOrder
  <2>2. ASSUME NEW a \in 1 .. k PROVE Line(cs[a].at) \in Nat /\ Line(tok.at) <= Line(cs[a].at)
    <3>1. PICK x, y : x = tok.at /\ y = cs[a].at
      OBVIOUS
    <3>2. x \in Nat /\ y \in Nat /\ x <= y
      BY <1>14, <3>1
    <3>3. Line(y) \in Nat /\ Line(x) <= Line(y)
      BY <1>2, <3>2, LineOrder
    <3> QED
      BY <3>1, <3>3
  <2> QED
    BY <2>1, <2>2
<1>17. 1 \in 1 .. k /\ m \in 1 .. k /\ 1 <= m
  BY <1>2, <1>6, <1>10
<1>18. Line(tok.at) < Line(cs[m].at)
  <2>1. CASE Line(cs[1].at) = Line(tok.at)
    <3>1. PICK g : g = GroupEnd(cs, 1, 0)
      OBVIOUS
    <3>2. f = g + 1
      <4>1. cs # <<>>
        BY <1>1, <1>17
      <4> QED
        BY <1>5, <2>1, <3>1, <4>1 DEF first
    <3>3. g \in 1 .. k /\ (g < k => EndLine(cs[g]) + 0 < Line(cs[g + 1].at))
      BY <1>1, <1>2, <1>17, <3>1, GroupEndIs
    <3>4. g < k /\ f \in 1 .. k /\ f <= m
      BY <1>2, <1>6, <1>7, <1>10, <3>2, <3>3
    <3>5. EndLine(cs[g]) \in Nat /\ Line(cs[g].at) <= EndLine(cs[g])
      BY <1>2, <1>14, <3>3, EndLineIs
    <3>6. Line(cs[f].at) <= Line(cs[m].at) /\ EndLine(cs[g]) < Line(cs[f].at)
      BY <1>15, <1>17, <3>2, <3>3, <3>4, <3>5
    <3> QED
      BY <1>16, <1>17, <3>3, <3>4, <3>5, <3>6
  <2>2. CASE Line(cs[1].at) # Line(tok.at)
    <3>1. Line(cs[1].at) <= Line(cs[m].at)
      BY <1>15, <1>17
    <3> QED
      BY <1>16, <1>17, <2>2, <3>1
  <2> QED
    BY <2>1, <2>2
<1> QED
  BY <1>1, <1>2, <1>7, <1>12, <1>13, <1>17, <1>18

-----------------------------------------------------------------------------
(* The order of tokens, comments and literals.                             *)

\* Where Scan goes: a token begins behind the scanner, unless it is the newline
\* of a comment, and no newline is between a token that needs a semicolon and it.
LEMMA ScanPlaces ==
    ASSUME Types, Owed, NEW r, r = Scan(sc)
    PROVE  \E a, p, e \in Nat :
              /\ a = sc.pos /\ p = r.t.at /\ e = r.s.pos /\ 1 <= a /\ a <= e
              /\ r.t.kind = "COMMENT" =>
                    /\ sc.nlPos = NoPos /\ p < e /\ r.t.end = e
                    /\ r.s.nlPos # NoPos => r.s.nlPos \in p .. e - 1
              /\ r.t.kind # "COMMENT" => r.s.nlPos = NoPos
              /\ sc.nlPos # NoPos => r.t.auto /\ p = sc.nlPos
              /\ sc.nlPos = NoPos => a <= p /\ p <= e
              /\ r.t.auto => NeedsSemi(LastSig(hist))
              /\ IsReal(r.t) => r.t.end = e /\ Newlines(p, e) = {}
              /\ sc.nlPos = NoPos /\ NeedsSemi(LastSig(hist)) => Newlines(LastSig(hist).end, p) = {}
<1>1. PICK l : /\ l = LastSig(hist)
               /\ NeedsSemi(l) => l \in Tokens
               /\ sc.nlPos = NoPos => (Owes(sc) <=> NeedsSemi(l)) /\ (Owes(sc) => Newlines(l.end, sc.pos) = {})
               /\ sc.nlPos # NoPos => NeedsSemi(l) /\ Ch(sc.nlPos) = "\n" /\ Newlines(l.end, sc.nlPos) = {}
  BY OwedBefore
<1>2. PICK a, e, n : a = sc.pos /\ e = r.s.pos /\ n = sc.nlPos
  OBVIOUS
<1>3. a \in Nat \ {0} /\ Size \in Nat /\ n \in Nat /\ (NeedsSemi(l) => l.end \in Int) /\ a \in 1 .. Size + 1
  BY <1>1, <1>2, ChIs DEF Types, Scanners, Tokens
<1>4. CASE n # NoPos /\ GivesKept(sc, r)
  <2>1. r.t = Semicolon(n, n) /\ e = a /\ r.s.nlPos = NoPos
    BY <1>2, <1>4 DEF GivesKept
  <2>2. r.t.at = n /\ r.t.auto /\ r.t.kind = "SEMICOLON" /\ ~IsReal(r.t)
    BY <2>1 DEF Semicolon, Token, IsReal
  <2> QED
    BY <1>1, <1>2, <1>3, <1>4, <2>1, <2>2
<1>5. ASSUME NEW p \in Nat, Skips(sc.pos, p, Owes(sc)), sc.nlPos = NoPos
      PROVE  /\ p \in a .. Size + 1
             /\ NeedsSemi(l) <=> Owes(sc)
             /\ NeedsSemi(l) => Newlines(l.end, p) = {}
  <2>1. p \in a .. Size + 1
    BY <1>2, <1>5 DEF Skips
  <2>2. Owes(sc) => \A q \in a .. p - 1 : src[q] # "\n"
    BY <1>2, <1>5 DEF Skips
  <2>3. \A q \in a .. p - 1 : q \in 1 .. Size
    BY <1>3, <2>1
  <2>4. Owes(sc) => Newlines(a, p) = {}
    BY <2>2, <2>3 DEF Newlines, Ch
  <2>5. NeedsSemi(l) <=> Owes(sc)
    BY <1>1, <1>5
  <2>6. NeedsSemi(l) => Newlines(l.end, p) = {}
    BY <1>1, <1>2, <1>3, <1>5, <2>4, <2>5, NewlinesSplit
  <2> QED
    BY <2>1, <2>5, <2>6
<1>6. ASSUME NEW p \in Nat, Skips(sc.pos, p, Owes(sc)), sc.nlPos = NoPos, GivesAuto(sc, p, r)
      PROVE  \E q \in Nat :
                /\ q = r.t.at /\ a <= q /\ q <= e /\ r.s.nlPos = NoPos /\ r.t.kind # "COMMENT"
                /\ r.t.auto => NeedsSemi(l)
                /\ ~IsReal(r.t)
                /\ NeedsSemi(l) => Newlines(l.end, q) = {}
  <2>1. Owes(sc) /\ r.t = Semicolon(p, e) /\ r.s = NoSemi(e) /\ e \in p .. Size + 1
    BY <1>2, <1>6 DEF GivesAuto
  <2>2. r.s.nlPos = NoPos /\ r.t.kind = "SEMICOLON" /\ r.t.auto /\ r.t.at = p /\ ~IsReal(r.t)
    BY <2>1 DEF NoSemi, Semicolon, Token, IsReal
  <2>3. a <= p /\ p <= e
    <3>1. p \in a .. Size + 1
      BY <1>5, <1>6
    <3>2. e \in p .. Size + 1
      BY <2>1
    <3> QED
      BY <1>3, <3>1, <3>2
  <2> QED
    BY <1>5, <1>6, <2>1, <2>2, <2>3
<1>7. ASSUME NEW p \in Nat, Skips(sc.pos, p, Owes(sc)), sc.nlPos = NoPos, GivesComment(sc, p, r)
      PROVE  \E q \in Nat :
                /\ q = r.t.at /\ a <= q /\ q < e /\ r.t.kind = "COMMENT" /\ r.t.end = e
                /\ r.s.nlPos # NoPos => r.s.nlPos \in q .. e - 1
                /\ ~r.t.auto /\ ~IsReal(r.t)
                /\ NeedsSemi(l) => Newlines(l.end, q) = {}
  <2>1. r.t = Token("COMMENT", p, e) /\ e \in p + 1 .. Size + 1 /\ (r.s.nlPos # NoPos => r.s.nlPos \in p .. e - 1)
    BY <1>2, <1>7 DEF GivesComment
  <2>2. r.t.kind = "COMMENT" /\ ~r.t.auto /\ r.t.at = p /\ r.t.end = e /\ ~IsReal(r.t)
    BY <2>1 DEF Token, IsReal
  <2>3. a <= p /\ p < e
    BY <1>3, <1>5, <1>7, <2>1
  <2> QED
    BY <1>5, <1>7, <2>1, <2>2, <2>3
<1>8. ASSUME NEW p \in Nat, Skips(sc.pos, p, Owes(sc)), sc.nlPos = NoPos, GivesToken(sc, p, r)
      PROVE  \E q \in Nat :
                /\ q = r.t.at /\ a <= q /\ q <= e /\ r.s.nlPos = NoPos /\ r.t.kind # "COMMENT"
                /\ ~r.t.auto /\ r.t.end = e /\ Newlines(q, e) = {}
                /\ NeedsSemi(l) => Newlines(l.end, q) = {}
  <2>1. /\ r.t = Token(r.t.kind, p, e) /\ e \in p .. Size + 1 /\ r.s.nlPos = NoPos
        /\ r.t.kind # "COMMENT" /\ Newlines(p, e) = {}
    BY <1>2, <1>8 DEF GivesToken
  <2>2. ~r.t.auto /\ r.t.at = p /\ r.t.end = e
    BY <2>1 DEF Token
  <2>3. a <= p /\ p <= e
    BY <1>3, <1>5, <1>8, <2>1
  <2> QED
    BY <1>5, <1>8, <2>1, <2>2, <2>3
<1>9. e \in Nat
  BY <1>2, ScanTypes, ChIs DEF Scanners
<1>10. CASE \E q \in Nat :
               /\ q = r.t.at /\ a <= q /\ q <= e /\ r.s.nlPos = NoPos /\ r.t.kind # "COMMENT"
               /\ r.t.auto => NeedsSemi(l)
               /\ IsReal(r.t) => r.t.end = e /\ Newlines(q, e) = {}
               /\ NeedsSemi(l) => Newlines(l.end, q) = {}
               /\ sc.nlPos = NoPos
  <2>1. PICK q \in Nat :
               /\ q = r.t.at /\ a <= q /\ q <= e /\ r.s.nlPos = NoPos /\ r.t.kind # "COMMENT"
               /\ r.t.auto => NeedsSemi(l)
               /\ IsReal(r.t) => r.t.end = e /\ Newlines(q, e) = {}
               /\ NeedsSemi(l) => Newlines(l.end, q) = {}
               /\ sc.nlPos = NoPos
    BY <1>10
  <2>2. 1 <= a /\ a <= e /\ a \in Nat
    BY <1>3, <1>9, <2>1
  <2> QED
    BY <1>1, <1>2, <1>9, <2>1, <2>2
<1>11. CASE \E q \in Nat :
                /\ q = r.t.at /\ a <= q /\ q < e /\ r.t.kind = "COMMENT" /\ r.t.end = e
                /\ r.s.nlPos # NoPos => r.s.nlPos \in q .. e - 1
                /\ ~r.t.auto /\ ~IsReal(r.t)
                /\ NeedsSemi(l) => Newlines(l.end, q) = {}
                /\ sc.nlPos = NoPos
  <2>1. PICK q \in Nat :
                /\ q = r.t.at /\ a <= q /\ q < e /\ r.t.kind = "COMMENT" /\ r.t.end = e
                /\ r.s.nlPos # NoPos => r.s.nlPos \in q .. e - 1
                /\ ~r.t.auto /\ ~IsReal(r.t)
                /\ NeedsSemi(l) => Newlines(l.end, q) = {}
                /\ sc.nlPos = NoPos
    BY <1>11
  <2>2. 1 <= a /\ a <= e /\ a \in Nat /\ q <= e
    BY <1>3, <1>9, <2>1
  <2> QED
    BY <1>1, <1>2, <1>9, <2>1, <2>2
<1> QED
  BY <1>2, <1>4, <1>6, <1>7, <1>8, <1>10, <1>11, ScanCases

\* A comment is met.
LEMMA OrderComment ==
    ASSUME Types, Owed, Text, Order, pc = "next", NEW r, r = Scan(sc), r.t.kind = "COMMENT", sc' = r.s,
           comments' = Append(comments, r.t), hist' = Append(hist, r.t),
           UNCHANGED <<src, tok, pc, lead, levels>>
    PROVE  Order'
<1>1. PICK t, s, n, k : t = r.t /\ s = r.s /\ n = Len(hist) /\ k = Len(comments)
  OBVIOUS
<1>2. PICK a, p, e \in Nat :
         /\ a = sc.pos /\ p = t.at /\ e = s.pos /\ 1 <= a /\ sc.nlPos = NoPos /\ a <= p /\ p < e /\ t.end = e
         /\ s.nlPos # NoPos => s.nlPos \in p .. e - 1
  BY <1>1, ScanPlaces
<1>3. /\ t \in Comments /\ t \in Tokens /\ s \in Scanners /\ n \in Nat /\ k \in Nat /\ ~IsSig(t) /\ ~IsReal(t)
      /\ hist \in Seq(Tokens) /\ comments \in Seq(Comments) /\ src \in Seq(Chars)
  BY <1>1, ScanTypes DEF Types, IsSig, IsReal
<1>4. /\ LastSig(hist)' = LastSig(hist) /\ Len(hist') = n + 1 /\ hist'[n + 1] = t
      /\ \A m \in 1 .. n : hist'[m] = hist[m]
  BY <1>1, <1>3, LastSigAppend
<1>5. /\ comments' \in Seq(Comments) /\ Len(comments') = k + 1 /\ comments'[k + 1] = t
      /\ \A m \in 1 .. k : comments'[m] = comments[m]
  BY <1>1, <1>3
<1>6. /\ \A m \in 1 .. n + 1 : m \in 1 .. n \/ m = n + 1
      /\ \A m \in 1 .. k + 1 : m \in 1 .. k \/ m = k + 1
  BY <1>3
<1>7. Size \in Nat /\ tok \in Tokens /\ tok.at \in Nat
  BY <1>3, ChIs DEF Types, Tokens
<1>8. \A m \in 1 .. k : comments[m].at \in Nat /\ comments[m].end \in Nat /\ comments[m].at <= comments[m].end
  <2>1. \A m \in 1 .. k : comments[m] \in Tokens
    BY <1>1, <1>3 DEF Comments
  <2> QED
    BY <1>7, <2>1 DEF Tokens
<1>9. \A m \in 1 .. n : hist[m].at \in Nat /\ hist[m].end \in Nat /\ hist[m].at <= hist[m].end
  <2>1. \A m \in 1 .. n : hist[m] \in Tokens
    BY <1>1, <1>3
  <2> QED
    BY <1>7, <2>1 DEF Tokens
<1>10. Met'
  <2>1. /\ tok.at <= a
        /\ \A i, j \in 1 .. k : i < j => comments[i].at <= comments[j].at
        /\ \A i \in 1 .. k : comments[i].end <= a /\ tok.at <= comments[i].at
    BY <1>1, <1>2 DEF Order, Met
  <2>2. tok.at <= e /\ tok.at <= p
    BY <1>2, <1>7, <2>1
  <2>3. \A i \in 1 .. k + 1 : comments'[i].end <= e /\ tok.at <= comments'[i].at
    BY <1>2, <1>5, <1>6, <1>8, <2>1, <2>2
  <2>4. ASSUME NEW i \in 1 .. k + 1, NEW j \in 1 .. k + 1, i < j PROVE comments'[i].at <= comments'[j].at
    <3>1. i \in 1 .. k
      BY <1>3, <2>4
    <3>2. CASE j \in 1 .. k
      BY <1>5, <2>1, <2>4, <3>1, <3>2
    <3>3. CASE j = k + 1
      <4>1. comments'[j].at = p /\ comments'[i].at = comments[i].at
        BY <1>2, <1>5, <3>1, <3>3
      <4>2. /\ comments[i].at \in Nat /\ comments[i].end \in Nat /\ comments[i].at <= comments[i].end
            /\ comments[i].end <= a
        BY <1>8, <2>1, <3>1
      <4> QED
        BY <1>2, <4>1, <4>2
    <3> QED
      BY <1>6, <3>2, <3>3
  <2>5. comments' # <<>>
    BY <1>3, <1>5
  <2>6. s.nlPos # NoPos => s.nlPos \in comments'[k + 1].at .. comments'[k + 1].end - 1
    BY <1>2, <1>5
  <2> QED
    BY <1>1, <1>2, <1>5, <2>2, <2>3, <2>4, <2>5, <2>6 DEF Met
<1>11. \A m \in 1 .. n : ~hist[m].auto => hist[m].end <= a
  BY <1>1, <1>2 DEF Text
<1>12. Passed'
  <2>1. ASSUME NEW m \in 1 .. n + 1, IsReal(hist'[m])
        PROVE  /\ m \in 1 .. n /\ hist'[m] = hist[m]
               /\ Newlines(hist[m].at, hist[m].end) = {}
               /\ hist[m].at <= tok.at \/ NeedsSemi(LastSig(hist))
               /\ s.nlPos # NoPos => hist[m].at <= s.nlPos
               /\ \A i \in 1 .. k + 1 : hist[m].end <= comments'[i].at
    <3>1. m \in 1 .. n /\ hist'[m] = hist[m] /\ IsReal(hist[m])
      BY <1>3, <1>4, <1>6, <2>1
    <3>2. /\ Newlines(hist[m].at, hist[m].end) = {}
          /\ hist[m].at <= tok.at \/ NeedsSemi(LastSig(hist))
          /\ \A i \in 1 .. k : hist[m].end <= comments[i].at
      BY <1>1, <3>1 DEF Order, Passed, PassedBy
    <3>3. hist[m].end <= a
      BY <1>11, <3>1 DEF IsReal
    <3>4. hist[m].end <= p /\ hist[m].at <= p
      BY <1>2, <1>9, <3>1, <3>3
    <3>5. s.nlPos # NoPos => hist[m].at <= s.nlPos
      BY <1>2, <1>9, <3>1, <3>4
    <3>6. \A i \in 1 .. k + 1 : hist[m].end <= comments'[i].at
      BY <1>2, <1>5, <1>6, <3>2, <3>4
    <3> QED
      BY <3>1, <3>2, <3>5, <3>6
  <2>2. PassedBy(hist', LastSig(hist), s, comments', tok)
    BY <1>4, <1>5, <2>1 DEF PassedBy
  <2>3. \A h, l, x, cs, y : PassedBy(h, l, x, cs, y)' = PassedBy(h, l, x, cs, y)
    BY SameFile
  <2> QED
    BY <1>1, <1>4, <2>2, <2>3 DEF Passed
<1>13. Begun'
  <2>1. ASSUME NEW j \in 1 .. Len(levels)
        PROVE  levels[j].start <= e /\ \A i \in 1 .. k + 1 : levels[j].start <= comments'[i].at
    <3>1. levels[j].start \in Nat
      <4>1. levels[j] \in Levels
        BY DEF Types
      <4> QED
        BY <1>7, <4>1 DEF Levels
    <3>2. levels[j].start <= a /\ \A i \in 1 .. k : levels[j].start <= comments[i].at
      BY <1>1, <1>2 DEF Order, Begun
    <3>3. levels[j].start <= e /\ levels[j].start <= p
      BY <1>2, <3>1, <3>2
    <3> QED
      BY <1>2, <1>5, <1>6, <3>2, <3>3
  <2> QED
    BY <1>1, <1>2, <1>5, <2>1 DEF Begun
<1>14. Alone'
  <2>1. lead # <<>> => EndLine(lead[Len(lead)]) < Line(e)
    <3>1. Line(a) \in Nat /\ Line(a) <= Line(e) /\ Line(e) \in Nat
      <4>1. a <= e /\ a \in Nat /\ e \in Nat /\ e <= e
        BY <1>2
      <4>2. Line(a) \in Nat /\ Line(a) <= Line(e)
        BY <1>3, <4>1, LineOrder
      <4>3. Line(e) \in Nat
        BY <1>3, <4>1, LineOrder
      <4> QED
        BY <4>2, <4>3
    <3>2. ASSUME lead # <<>> PROVE EndLine(lead[Len(lead)]) \in Nat /\ EndLine(lead[Len(lead)]) < Line(a)
      <4>1. lead[Len(lead)] \in Tokens
        BY <3>2 DEF Types, Comments
      <4> QED
        BY <1>2, <1>3, <3>2, <4>1, EndLineIs DEF Order, Alone
    <3> QED
      BY <3>1, <3>2
  <2>2. Clear(hist', lead, tok)
    <3>1. ASSUME lead # <<>>, NEW m \in 1 .. n + 1, IsReal(hist'[m])
          PROVE  Line(hist'[m].at) \notin Line(lead[1].at) .. EndLine(lead[Len(lead)])
      <4>1. m \in 1 .. n /\ hist'[m] = hist[m] /\ IsReal(hist[m])
        BY <1>3, <1>4, <1>6, <3>1
      <4> QED
        BY <1>1, <3>1, <4>1 DEF Order, Alone, Clear
    <3>2. lead # <<>> /\ tok.at > lead[Len(lead)].at => Line(tok.at) = EndLine(lead[Len(lead)]) + 1
      BY DEF Order, Alone, Clear
    <3> QED
      BY <1>4, <3>1, <3>2 DEF Clear
  <2>3. /\ \A x : Line(x)' = Line(x) /\ EndLine(x)' = EndLine(x)
        /\ \A h, ld, x : Clear(h, ld, x)' = Clear(h, ld, x)
    BY SameFile
  <2>4. Clear(hist, lead, tok)'
    BY <2>2, <2>3
  <2> QED
    BY <1>1, <1>2, <2>1, <2>3, <2>4 DEF Alone
<1> QED
  BY <1>10, <1>12, <1>13, <1>14 DEF Order

\* A token on the line of a token that needs a semicolon has no lead comment.
LEMMA NoLead ==
    ASSUME Types, Owed, Order, NEW r, r = Scan(sc), NeedsSemi(LastSig(hist)),
           LeadComment(comments, r.t) # <<>>
    PROVE  FALSE
<1>1. PICK l, t, k, ld : l = LastSig(hist) /\ t = r.t /\ k = Len(comments) /\ ld = LeadComment(comments, t)
  OBVIOUS
<1>2. PICK a, p, e \in Nat :
         /\ a = sc.pos /\ p = t.at /\ a <= e
         /\ sc.nlPos # NoPos => p = sc.nlPos
         /\ sc.nlPos = NoPos => a <= p
         /\ sc.nlPos = NoPos => Newlines(l.end, p) = {}
  BY <1>1, ScanPlaces
<1>3. t \in Tokens /\ hist \in Seq(Tokens) /\ src \in Seq(Chars) /\ comments \in Seq(Comments)
  BY <1>1, ScanTypes DEF Types
<1>4. comments # <<>> /\ EndLine(comments[k]) + 1 = Line(p)
  BY <1>1, <1>2, <1>3, LeadCommentIs
<1>5. PICK c : c = comments[k]
  OBVIOUS
<1>6. k \in 1 .. Len(comments) /\ c \in Comments
  BY <1>1, <1>3, <1>4, <1>5
<1>7. c \in Tokens /\ 0 < c.at /\ c.at \in Nat /\ c.end \in Nat /\ c.at <= c.end
  BY <1>3, <1>6, ChIs DEF Comments, Tokens
<1>8. EndLine(c) \in Nat /\ EndLine(c) + 1 = Line(p)
  BY <1>3, <1>4, <1>5, <1>7, EndLineIs
<1>9. CASE sc.nlPos # NoPos
  <2>1. p \in c.at .. c.end
    <3>1. p \in c.at .. c.end - 1
      BY <1>1, <1>2, <1>5, <1>9 DEF Order, Met
    <3> QED
      BY <1>7, <3>1
  <2>2. Line(p) <= EndLine(c)
    BY <1>3, <1>7, <2>1, LineInComment
  <2> QED
    BY <1>8, <2>2
<1>10. CASE sc.nlPos = NoPos
  <2>1. PICK m \in 1 .. Len(hist) : l = hist[m]
    BY <1>1, <1>3, LastSigNeeds
  <2>2. l \in Tokens /\ l.end \in Nat
    BY <1>3, <2>1, ChIs DEF Tokens
  <2>3. IsReal(l)
    BY <1>1, <2>2 DEF NeedsSemi, IsReal, Tokens
  <2>4. l.end <= c.at
    BY <1>5, <1>6, <2>1, <2>3 DEF Order, Passed, PassedBy
  <2>5. Newlines(l.end, p) = {}
    BY <1>2, <1>10
  <2>6. c.end <= p
    <3>1. c.end <= a /\ a <= p
      BY <1>2, <1>5, <1>6, <1>10 DEF Order, Met
    <3> QED
      BY <1>2, <1>7, <3>1
  <2>7. PICK x, y, z : x = l.end /\ y = c.at /\ z = c.end
    OBVIOUS
  <2>8. x \in Nat /\ y \in Nat /\ z \in Nat /\ p \in Nat /\ x <= y /\ y <= z /\ z <= p /\ 0 < y /\ Newlines(x, p) = {}
    BY <1>7, <2>2, <2>4, <2>5, <2>6, <2>7
  <2>9. Newlines(y, p) = {}
    BY <2>8, NewlinesSplit
  <2>10. Newlines(y, z) = {}
    BY <2>8, <2>9, NewlinesSplit
  <2>11. EndLine(c) = Line(y)
    BY <1>3, <1>7, <2>7, <2>10, EndLineIs
  <2>12. Line(y) = Line(p)
    <3>1. y <= p
      BY <2>8
    <3> QED
      BY <1>3, <2>8, <2>9, <3>1, LineOrder
  <2> QED
    BY <1>8, <2>11, <2>12
<1> QED
  BY <1>9, <1>10

\* A token is read; the comments before it may lead it.  It may begin a literal.
LEMMA OrderToken ==
    ASSUME Types, Owed, Text, Order, pc = "next", NEW r, r = Scan(sc), r.t.kind # "COMMENT", sc' = r.s,
           tok' = r.t, comments' = <<>>, hist' = Append(hist, r.t), lead' = LeadComment(comments, r.t),
           src' = src,
           \/ levels' = levels
           \/ pc' = "next" /\ levels' = Append(levels, [index |-> Len(lits) + 1, start |-> r.t.at])
    PROVE  Order'
<1>1. PICK t, s, n, k, ld, l : /\ t = r.t /\ s = r.s /\ n = Len(hist) /\ k = Len(comments)
                               /\ ld = LeadComment(comments, r.t) /\ l = LastSig(hist)
  OBVIOUS
<1>2. PICK a, p, e \in Nat :
         /\ a = sc.pos /\ p = t.at /\ e = s.pos /\ 1 <= a /\ a <= e /\ s.nlPos = NoPos
         /\ sc.nlPos # NoPos => t.auto /\ p = sc.nlPos
         /\ sc.nlPos = NoPos => a <= p /\ p <= e
         /\ t.auto => NeedsSemi(l)
         /\ IsReal(t) => t.end = e /\ Newlines(p, e) = {}
  BY <1>1, ScanPlaces
<1>3. /\ t \in Tokens /\ s \in Scanners /\ n \in Nat /\ k \in Nat /\ Size \in Nat /\ src \in Seq(Chars)
      /\ hist \in Seq(Tokens) /\ comments \in Seq(Comments) /\ tok \in Tokens
  BY <1>1, ScanTypes, ChIs DEF Types
<1>4. /\ Len(hist') = n + 1 /\ hist'[n + 1] = t
      /\ \A m \in 1 .. n : hist'[m] = hist[m]
  BY <1>1, <1>3, LastSigAppend
<1>5. \A m \in 1 .. n + 1 : m \in 1 .. n \/ m = n + 1
  BY <1>3
<1>6. NeedsSemi(l) => ld = <<>>
  BY <1>1, NoLead
<1>7. IsReal(t) <=> ~t.auto
  BY <1>1 DEF IsReal
<1>8. ld # <<>> =>
         /\ comments # <<>> /\ ld \in Seq(Comments) /\ ld[Len(ld)] = comments[k]
         /\ EndLine(comments[k]) + 1 = Line(p) /\ Line(tok.at) < Line(ld[1].at)
         /\ ~NeedsSemi(l) /\ sc.nlPos = NoPos /\ IsReal(t)
  <2>1. ld # <<>> => ~NeedsSemi(l) /\ sc.nlPos = NoPos /\ IsReal(t)
    BY <1>2, <1>6, <1>7
  <2>2. ld # <<>> =>
         /\ comments # <<>> /\ ld \in Seq(Comments) /\ ld[Len(ld)] = comments[k]
         /\ EndLine(comments[k]) + 1 = Line(p) /\ Line(tok.at) < Line(ld[1].at)
    BY <1>1, <1>2, <1>3, LeadCommentIs
  <2> QED
    BY <2>1, <2>2
<1>9. \A m \in 1 .. n : hist[m].at \in Nat /\ hist[m].end \in Nat /\ hist[m].at <= hist[m].end
  <2>1. \A m \in 1 .. n : hist[m] \in Tokens
    BY <1>1, <1>3
  <2> QED
    BY <1>3, <2>1 DEF Tokens
<1>10. p <= e /\ \A m \in 1 .. n : IsReal(hist[m]) => hist[m].at <= p
  <2>1. CASE sc.nlPos = NoPos
    <3>1. \A m \in 1 .. n : ~hist[m].auto => hist[m].end <= a
      BY <1>1, <1>2 DEF Text
    <3>2. ASSUME NEW m \in 1 .. n, IsReal(hist[m]) PROVE hist[m].at <= p
      <4>1. hist[m].end <= a
        BY <3>1, <3>2 DEF IsReal
      <4>2. a <= p
        BY <1>2, <2>1
      <4> QED
        BY <1>2, <1>9, <4>1, <4>2
    <3> QED
      BY <1>2, <2>1, <3>2
  <2>2. CASE sc.nlPos # NoPos
    <3>1. p = sc.nlPos
      BY <1>2, <2>2
    <3>2. \A m \in 1 .. n : IsReal(hist[m]) => hist[m].at <= p
      BY <1>1, <2>2, <3>1 DEF Order, Passed, PassedBy
    <3>3. comments # <<>> /\ p \in comments[k].at .. comments[k].end - 1 /\ comments[k].end <= a
      <4>1. comments # <<>> /\ p \in comments[k].at .. comments[k].end - 1
        BY <1>1, <2>2, <3>1 DEF Order, Met
      <4>2. k \in 1 .. k
        BY <1>1, <1>3, <4>1
      <4> QED
        BY <1>1, <1>2, <4>1, <4>2 DEF Order, Met
    <3>4. comments[k].end \in Nat
      <4>1. comments[k] \in Tokens
        BY <1>1, <1>3, <3>3 DEF Comments
      <4> QED
        BY <1>3, <4>1 DEF Tokens
    <3>5. p <= e
      BY <1>2, <3>3, <3>4
    <3> QED
      BY <3>2, <3>5
  <2> QED
    BY <2>1, <2>2
<1>11. Met'
  <2>1. tok'.at <= e
    BY <1>1, <1>2, <1>10
  <2> QED
    BY <1>1, <1>2, <2>1 DEF Met
<1>12. Passed'
  <2>1. ASSUME NEW m \in 1 .. n + 1, IsReal(hist'[m])
        PROVE  Newlines(hist'[m].at, hist'[m].end) = {} /\ hist'[m].at <= t.at
    <3>1. CASE m \in 1 .. n
      <4>1. hist'[m] = hist[m] /\ IsReal(hist[m])
        BY <1>4, <2>1, <3>1
      <4>2. Newlines(hist[m].at, hist[m].end) = {}
        BY <1>1, <3>1, <4>1 DEF Order, Passed, PassedBy
      <4> QED
        BY <1>2, <1>10, <3>1, <4>1, <4>2
    <3>2. CASE m = n + 1
      <4>1. hist'[m] = t /\ IsReal(t)
        BY <1>4, <2>1, <3>2
      <4> QED
        BY <1>2, <4>1
    <3> QED
      BY <1>5, <3>1, <3>2
  <2>2. PassedBy(hist', LastSig(hist)', s, <<>>, t)
    <3>1. PICK cs, h, x : cs = <<>> /\ h = hist' /\ x = LastSig(hist)'
      OBVIOUS
    <3>2. \A i \in 1 .. Len(cs) : FALSE
      BY <3>1
    <3>3. PassedBy(h, x, s, cs, t)
      <4> SUFFICES ASSUME NEW m \in 1 .. Len(h), IsReal(h[m])
                   PROVE  Newlines(h[m].at, h[m].end) = {} /\ h[m].at <= t.at
        BY <1>2, <3>2 DEF PassedBy
      <4> QED
        BY <1>4, <2>1, <3>1
    <3> QED
      BY <3>1, <3>3
  <2>3. \A h, x, y, cs, z : PassedBy(h, x, y, cs, z)' = PassedBy(h, x, y, cs, z)
    BY SameFile
  <2> QED
    BY <1>1, <2>2, <2>3 DEF Passed
<1>13. Begun'
  <2>1. ASSUME NEW j \in 1 .. Len(levels)
        PROVE  levels[j].start <= e /\ (ld # <<>> => levels[j].start <= ld[Len(ld)].at)
    <3>1. levels[j].start \in Nat
      <4>1. levels[j] \in Levels
        BY DEF Types
      <4> QED
        BY <1>3, <4>1 DEF Levels
    <3>2. levels[j].start <= a /\ \A i \in 1 .. k : levels[j].start <= comments[i].at
      BY <1>1, <1>2 DEF Order, Begun
    <3>3. levels[j].start <= e
      BY <1>2, <3>1, <3>2
    <3>4. ld # <<>> => k \in 1 .. k /\ ld[Len(ld)] = comments[k]
      BY <1>1, <1>3, <1>8
    <3> QED
      BY <3>2, <3>3, <3>4
  <2>2. CASE levels' = levels
    BY <1>1, <1>2, <2>1, <2>2 DEF Begun
  <2>3. CASE pc' = "next" /\ levels' = Append(levels, [index |-> Len(lits) + 1, start |-> r.t.at])
    <3>1. PICK lv : lv = [index |-> Len(lits) + 1, start |-> p]
      OBVIOUS
    <3>2. PICK b \in Nat : b = Len(levels)
      BY DEF Types
    <3>3. /\ Len(levels') = b + 1 /\ levels'[b + 1] = lv /\ \A j \in 1 .. b : levels'[j] = levels[j]
      BY <1>1, <1>2, <2>3, <3>1, <3>2 DEF Types
    <3>4. \A j \in 1 .. b + 1 : j \in 1 .. b \/ j = b + 1
      BY <3>2
    <3>5. lv.start <= e
      BY <1>10, <3>1
    <3>6. \A j \in 1 .. b + 1 : levels'[j].start <= e
      BY <2>1, <3>2, <3>3, <3>4, <3>5
    <3> QED
      BY <1>1, <1>2, <2>3, <3>3, <3>6 DEF Begun
  <2> QED
    BY <2>2, <2>3
<1>14. Alone'
  <2>1. ld # <<>> => EndLine(ld[Len(ld)]) + 1 = Line(e) /\ EndLine(ld[Len(ld)]) < Line(e)
    <3>1. SUFFICES ASSUME ld # <<>> PROVE EndLine(ld[Len(ld)]) + 1 = Line(e) /\ EndLine(ld[Len(ld)]) < Line(e)
      OBVIOUS
    <3>2. p <= e /\ 0 < p /\ Newlines(p, e) = {}
      BY <1>2, <1>8, <3>1
    <3>3. Line(p) = Line(e) /\ Line(p) \in Nat
      BY <1>2, <1>3, <3>2, LineOrder
    <3>4. EndLine(comments[k]) \in Nat
      <4>1. comments[k] \in Tokens
        BY <1>1, <1>3, <1>8, <3>1 DEF Comments
      <4> QED
        BY <1>3, <4>1, EndLineIs
    <3> QED
      BY <1>8, <3>1, <3>3, <3>4
  <2>2. Clear(hist', ld, t)
    <3>1. SUFFICES ASSUME ld # <<>> PROVE Clear(hist', ld, t)
      BY DEF Clear
    <3>2. ld[1] \in Tokens /\ ld[Len(ld)] \in Tokens /\ 1 \in 1 .. Len(ld)
      BY <1>8, <3>1 DEF Comments
    <3>3. PICK x, y : x = Line(ld[1].at) /\ y = EndLine(ld[Len(ld)])
      OBVIOUS
    <3>4. y \in Nat /\ y + 1 = Line(p) /\ Line(tok.at) < x /\ x \in Nat /\ Line(tok.at) \in Nat
      <4>1. PICK u, v : u = ld[1].at /\ v = tok.at
        OBVIOUS
      <4>2. u \in Nat /\ v \in Nat
        BY <1>3, <3>2, <4>1 DEF Tokens
      <4>3. Line(u) \in Nat /\ Line(v) \in Nat
        <5>1. u <= u /\ v <= v
          BY <4>2
        <5>2. Line(u) \in Nat
          BY <1>3, <4>2, <5>1, LineOrder
        <5>3. Line(v) \in Nat
          BY <1>3, <4>2, <5>1, LineOrder
        <5> QED
          BY <5>2, <5>3
      <4>4. y \in Nat
        BY <1>3, <3>2, <3>3, EndLineIs
      <4>5. y + 1 = Line(p) /\ Line(v) < Line(u)
        BY <1>8, <3>1, <3>3, <4>1
      <4> QED
        BY <3>3, <4>1, <4>3, <4>4, <4>5
    <3>5. ASSUME NEW m \in 1 .. n + 1, IsReal(hist'[m]) PROVE Line(hist'[m].at) \notin x .. y
      <4>1. CASE m \in 1 .. n
        <5>1. hist'[m] = hist[m] /\ IsReal(hist[m])
          BY <1>4, <3>5, <4>1
        <5>2. hist[m].at <= tok.at
          BY <1>1, <1>8, <3>1, <4>1, <5>1 DEF Order, Passed, PassedBy
        <5>3. PICK u, v : u = hist[m].at /\ v = tok.at
          OBVIOUS
        <5>4. u \in Nat /\ v \in Nat /\ u <= v
          <6>1. hist[m].at \in Nat
            BY <1>9, <4>1
          <6>2. tok.at \in Nat
            BY <1>3 DEF Tokens
          <6> QED
            BY <5>2, <5>3, <6>1, <6>2
        <5>5. Line(u) \in Nat /\ Line(u) <= Line(v)
          BY <1>3, <5>4, LineOrder
        <5> QED
          BY <3>4, <5>1, <5>3, <5>5
      <4>2. CASE m = n + 1
        <5>1. hist'[m].at = p
          BY <1>2, <1>4, <4>2
        <5> QED
          BY <3>4, <5>1
      <4> QED
        BY <1>5, <4>1, <4>2
    <3> QED
      BY <1>2, <1>4, <3>3, <3>4, <3>5 DEF Clear
  <2>3. /\ \A x : Line(x)' = Line(x) /\ EndLine(x)' = EndLine(x)
        /\ \A h, x, y : Clear(h, x, y)' = Clear(h, x, y)
    BY SameFile
  <2>4. Clear(hist, lead, tok)'
    BY <1>1, <2>2, <2>3
  <2> QED
    BY <1>1, <1>2, <2>1, <2>3, <2>4 DEF Alone
<1> QED
  BY <1>11, <1>12, <1>13, <1>14 DEF Order

\* The parser goes on, or pops a literal.
LEMMA OrderGoesOn ==
    ASSUME Order, pc' = "next", UNCHANGED <<src, sc, tok, comments, lead, levels, hist>>
    PROVE  Order'
<1>1. /\ \A x : Line(x)' = Line(x) /\ EndLine(x)' = EndLine(x)
      /\ \A h, x, y : Clear(h, x, y)' = Clear(h, x, y)
      /\ \A h, x, y, cs, z : PassedBy(h, x, y, cs, z)' = PassedBy(h, x, y, cs, z)
  BY SameFile
<1>2. Met' /\ Begun'
  BY DEF Order, Met, Begun
<1>3. Passed'
  <2>1. LastSig(hist)' = LastSig(hist)
    BY DEF LastSig
  <2> QED
    BY <1>1, <2>1 DEF Order, Passed
<1>4. Alone'
  BY <1>1 DEF Order, Alone
<1> QED
  BY <1>2, <1>3, <1>4 DEF Order

\* The parser marks the end of a tag.
LEMMA OrderCloses ==
    ASSUME Types, Order, hist # <<>>, sc' = [sc EXCEPT !.allow = TRUE],
           hist' = [hist EXCEPT ![Len(hist)].closes = TRUE],
           UNCHANGED <<src, tok, pc, comments, lead, levels>>
    PROVE  Order'
<1>1. /\ \A x : Line(x)' = Line(x) /\ EndLine(x)' = EndLine(x)
      /\ \A h, x, y : Clear(h, x, y)' = Clear(h, x, y)
      /\ \A h, x, y, cs, z : PassedBy(h, x, y, cs, z)' = PassedBy(h, x, y, cs, z)
  BY SameFile
<1>2. hist \in Seq(Tokens) /\ sc \in Scanners
  BY DEF Types
<1>3. /\ Len(hist') = Len(hist)
      /\ \A m \in 1 .. Len(hist) :
            /\ hist'[m].kind = hist[m].kind /\ hist'[m].at = hist[m].at
            /\ hist'[m].end = hist[m].end /\ (hist'[m].auto <=> hist[m].auto)
  BY <1>2, LastCloses
<1>4. \A m \in 1 .. Len(hist) : IsReal(hist'[m]) <=> IsReal(hist[m])
  BY <1>3 DEF IsReal
<1>5. sc'.pos = sc.pos /\ sc'.nlPos = sc.nlPos
  BY <1>2 DEF Scanners
<1>6. NeedsSemi(LastSig(hist)) => NeedsSemi(LastSig(hist)')
  <2>1. CASE \A m \in 1 .. Len(hist) : ~IsSig(hist[m])
    <3>1. LastSig(hist) = Token("none", 1, 1)
      BY <1>2, <2>1, LastSigIs
    <3>2. ~NeedsSemi(LastSig(hist))
      BY <3>1 DEF Token, NeedsSemi
    <3> QED
      BY <3>2
  <2>2. CASE \E m \in 1 .. Len(hist) : IsSig(hist[m]) /\ \A n \in m + 1 .. Len(hist) : ~IsSig(hist[n])
    <3>1. PICK m \in 1 .. Len(hist) : IsSig(hist[m]) /\ \A n \in m + 1 .. Len(hist) : ~IsSig(hist[n])
      BY <2>2
    <3>2. LastSig(hist) = hist[m]
      BY <1>2, <3>1, LastSigIs
    <3>3. PICK h : h = hist'
      OBVIOUS
    <3>4. h \in Seq(Tokens) /\ Len(h) = Len(hist)
      BY <1>2, <3>3, LastCloses
    <3>5. IsSig(h[m]) /\ \A n \in m + 1 .. Len(h) : ~IsSig(h[n])
      <4>1. \A n \in m + 1 .. Len(hist) : n \in 1 .. Len(hist)
        BY <1>2
      <4> QED
        BY <1>3, <3>1, <3>3, <3>4, <4>1 DEF IsSig
    <3>6. LastSig(h) = h[m]
      BY <3>1, <3>4, <3>5, LastSigIs
    <3>7. LastSig(hist)' = h[m]
      BY <3>3, <3>6 DEF LastSig
    <3>8. NeedsSemi(hist[m]) => NeedsSemi(h[m])
      <4>1. m \in 1 .. Len(hist) - 1 \/ m = Len(hist)
        BY <1>2, <3>1
      <4>2. CASE m \in 1 .. Len(hist) - 1
        <5>1. h[m] = hist[m]
          BY <1>2, <3>3, <4>2, LastCloses
        <5> QED
          BY <5>1
      <4>3. CASE m = Len(hist)
        <5>1. h[m] = [hist[m] EXCEPT !.closes = TRUE] /\ hist[m] \in Tokens
          BY <1>2, <3>3, <4>3, LastCloses
        <5>2. h[m].closes /\ h[m].kind = hist[m].kind
          BY <5>1 DEF Tokens
        <5> QED
          BY <5>2 DEF NeedsSemi
      <4> QED
        BY <4>1, <4>2, <4>3
    <3> QED
      BY <3>2, <3>7, <3>8
  <2> QED
    BY <1>2, <2>1, <2>2, LastSigIs
<1>7. Met' /\ Begun'
  BY <1>5 DEF Order, Met, Begun
<1>8. Passed'
  <2>1. PICK h, l, s : h = hist' /\ l = LastSig(hist)' /\ s = sc'
    OBVIOUS
  <2>2. PassedBy(h, l, s, comments, tok)
    BY <1>3, <1>4, <1>5, <1>6, <2>1 DEF Order, Passed, PassedBy
  <2> QED
    BY <1>1, <2>1, <2>2 DEF Passed
<1>9. Alone'
  <2>1. PICK h : h = hist'
    OBVIOUS
  <2>2. Clear(h, lead, tok)
    BY <1>3, <1>4, <2>1 DEF Order, Alone, Clear
  <2>3. Clear(hist, lead, tok)'
    BY <1>1, <2>1, <2>2
  <2> QED
    BY <1>1, <1>5, <2>3 DEF Order, Alone
<1> QED
  BY <1>7, <1>8, <1>9 DEF Order

\* A literal goes on: its piece begins where the scanner is.
LEMMA OrderPiece ==
    ASSUME Types, Text, Order, pc = "parse", levels # <<>>, NEW r, r = TemplateLiteralContinue,
           sc' = r.s, hist' = Append(hist, r.t), UNCHANGED <<src, comments, lead>>, NEW x, x = Last(levels).start,
           \/ r.t.kind = "STRING_TEMPLATE" /\ tok' = r.t /\ pc' = "next" /\ levels' = levels
           \/ /\ r.t.kind # "STRING_TEMPLATE" /\ tok' = Token("STRING_TEMPLATE", x, x)
              /\ pc' = "parse" /\ levels' = Front(levels)
    PROVE  Order'
<1>1. PICK t, s, n, b, a, y : t = r.t /\ s = r.s /\ n = Len(hist) /\ b = Len(levels) /\ a = sc.pos /\ y = tok'
  OBVIOUS
<1>2. /\ t \in Tokens /\ s \in Scanners /\ n \in Nat /\ b \in Nat \ {0} /\ Size \in Nat /\ src \in Seq(Chars)
      /\ hist \in Seq(Tokens) /\ levels \in Seq(Levels) /\ a \in Nat \ {0}
  BY <1>1, PieceIs, ChIs DEF Types, Scanners
<1>3. PICK e \in Nat : e = s.pos /\ t.at = a /\ t.end = e /\ a <= e /\ Newlines(a, e) = {} /\ IsReal(t)
  <2>1. PICK e \in a .. Size + 1 : r.s.pos = e /\ Newlines(a, e) = {} /\ r.t.at = a /\ r.t.end = e /\ ~r.t.auto
    BY <1>1, PieceIs
  <2>2. e \in Nat /\ a <= e
    BY <1>2, <2>1
  <2>3. r.t.kind # "COMMENT"
    BY PieceIs
  <2> QED
    BY <1>1, <2>1, <2>2, <2>3 DEF IsReal
<1>4. s.nlPos = NoPos /\ comments = <<>> /\ comments' = <<>>
  BY <1>1, PieceIs DEF Order, Met
<1>5. /\ LastSig(hist)' = t /\ Len(hist') = n + 1 /\ hist'[n + 1] = t
      /\ \A m \in 1 .. n : hist'[m] = hist[m]
  <2>1. IsSig(t)
    BY <1>1, PieceIs DEF IsSig
  <2> QED
    BY <1>1, <1>2, <2>1, LastSigAppend
<1>6. \A m \in 1 .. n + 1 : m \in 1 .. n \/ m = n + 1
  BY <1>2
<1>7. \A m \in 1 .. n : IsReal(hist[m]) => hist[m].at \in Nat /\ hist[m].at <= a
  <2> TAKE m \in 1 .. n
  <2> HAVE IsReal(hist[m])
  <2>1. hist[m] \in Tokens
    BY <1>1, <1>2
  <2>2. hist[m].end <= a
    BY <1>1 DEF Text, IsReal
  <2>3. hist[m].at \in Nat /\ hist[m].end \in Nat /\ hist[m].at <= hist[m].end
    BY <1>2, <2>1 DEF Tokens
  <2> QED
    BY <1>2, <2>2, <2>3
<1>8. \A j \in 1 .. b : /\ levels[j].start \in Nat /\ levels[j].start <= a
                        /\ lead # <<>> => levels[j].start <= lead[Len(lead)].at
  <2> TAKE j \in 1 .. b
  <2>1. levels[j] \in Levels
    BY <1>1, <1>2
  <2> QED
    BY <1>1, <1>2, <2>1 DEF Order, Begun, Levels
<1>9. y.at <= a /\ y.at \in Nat /\ (y = t \/ (lead # <<>> => y.at <= lead[Len(lead)].at))
      /\ (y = t \/ t.kind = "STRING")
  <2>1. CASE tok' = r.t
    BY <1>1, <1>2, <1>3, <2>1
  <2>2. CASE tok' = Token("STRING_TEMPLATE", x, x) /\ r.t.kind # "STRING_TEMPLATE"
    <3>1. x = levels[b].start /\ b \in 1 .. b /\ y.at = x
      BY <1>1, <1>2, <2>2 DEF Last, Token
    <3>2. t.kind = "STRING"
      BY <1>1, <2>2, PieceIs
    <3> QED
      BY <1>8, <3>1, <3>2
  <2> QED
    BY <2>1, <2>2
<1>10. /\ Len(levels') \in 0 .. b /\ \A j \in 1 .. Len(levels') : j \in 1 .. b /\ levels'[j] = levels[j]
  <2>1. CASE levels' = levels
    BY <1>1, <1>2, <2>1
  <2>2. CASE levels' = Front(levels)
    <3>1. Len(levels') = b - 1 /\ \A j \in 1 .. b - 1 : levels'[j] = levels[j]
      BY <1>1, <1>2, <2>2 DEF Front
    <3>2. \A j \in 1 .. b - 1 : j \in 1 .. b
      BY <1>2
    <3> QED
      BY <1>2, <3>1, <3>2
  <2> QED
    BY <2>1, <2>2
<1>11. Met'
  <2>1. y.at <= e
    BY <1>2, <1>3, <1>9
  <2>2. \A i \in 1 .. Len(<<>>) : FALSE
    OBVIOUS
  <2> QED
    BY <1>1, <1>3, <1>4, <2>1, <2>2 DEF Met
<1>12. Passed'
  <2>1. PICK cs, h : cs = <<>> /\ h = hist'
    OBVIOUS
  <2>2. \A i \in 1 .. Len(cs) : FALSE
    BY <2>1
  <2>3. ASSUME NEW m \in 1 .. n + 1, IsReal(h[m])
        PROVE  Newlines(h[m].at, h[m].end) = {} /\ (h[m].at <= y.at \/ NeedsSemi(t))
    <3>1. y = t \/ NeedsSemi(t)
      BY <1>9 DEF NeedsSemi
    <3>2. CASE m \in 1 .. n
      <4>1. h[m] = hist[m] /\ IsReal(hist[m])
        BY <1>5, <2>1, <2>3, <3>2
      <4>2. Newlines(hist[m].at, hist[m].end) = {}
        BY <1>1, <3>2, <4>1 DEF Order, Passed, PassedBy
      <4> QED
        BY <1>3, <1>7, <3>1, <3>2, <4>1, <4>2
    <3>3. CASE m = n + 1
      <4>1. h[m] = t
        BY <1>5, <2>1, <3>3
      <4> QED
        BY <1>2, <1>3, <3>1, <4>1
    <3> QED
      BY <1>6, <3>2, <3>3
  <2>4. PassedBy(h, t, s, cs, y)
    BY <1>4, <1>5, <2>1, <2>2, <2>3 DEF PassedBy
  <2>5. \A g, l, z, ds, u : PassedBy(g, l, z, ds, u)' = PassedBy(g, l, z, ds, u)
    BY SameFile
  <2> QED
    BY <1>1, <1>4, <1>5, <2>1, <2>4, <2>5 DEF Passed
<1>13. Begun'
  <2>1. ASSUME NEW j \in 1 .. Len(levels')
        PROVE  levels'[j].start <= e /\ (lead # <<>> => levels'[j].start <= lead[Len(lead)].at)
    <3>1. j \in 1 .. b /\ levels'[j] = levels[j]
      BY <1>10
    <3> QED
      BY <1>2, <1>3, <1>8, <3>1
  <2>2. \A i \in 1 .. Len(<<>>) : FALSE
    OBVIOUS
  <2> QED
    BY <1>1, <1>3, <1>4, <2>1, <2>2 DEF Begun
<1>14. Alone'
  <2>1. PICK u, v : u = Line(a) /\ v = Line(e)
    OBVIOUS
  <2>2. u = v /\ u \in Nat
    <3>1. a \in Nat /\ e \in Nat /\ a <= e /\ 0 < a /\ Newlines(a, e) = {}
      BY <1>2, <1>3
    <3> QED
      BY <1>2, <2>1, <3>1, LineOrder
  <2>3. lead # <<>> => EndLine(lead[Len(lead)]) + 1 = u /\ EndLine(lead[Len(lead)]) < u
    BY <1>1, <2>1 DEF Order, Alone
  <2>4. PICK h : h = hist'
    OBVIOUS
  <2>5. Clear(h, lead, y)
    <3>1. SUFFICES ASSUME lead # <<>> PROVE Clear(h, lead, y)
      BY DEF Clear
    <3>2. lead[1] \in Tokens /\ lead[Len(lead)] \in Tokens
      BY <3>1 DEF Types, Comments
    <3>3. lead[Len(lead)].at \in Nat
      BY <1>2, <3>2 DEF Tokens
    <3>4. EndLine(lead[Len(lead)]) \in Nat
      BY <1>2, <3>2, EndLineIs
    <3>5. PICK f, g : f = Line(lead[1].at) /\ g = EndLine(lead[Len(lead)])
      OBVIOUS
    <3>6. y.at > lead[Len(lead)].at => Line(y.at) = g + 1
      <4>1. y.at > lead[Len(lead)].at => y = t
        BY <1>9, <3>1, <3>3
      <4> QED
        BY <1>3, <2>1, <2>3, <3>1, <3>5, <4>1
    <3>7. ASSUME NEW m \in 1 .. n + 1, IsReal(h[m]) PROVE Line(h[m].at) \notin f .. g
      <4>1. CASE m \in 1 .. n
        <5>1. h[m] = hist[m] /\ IsReal(hist[m])
          BY <1>5, <2>4, <3>7, <4>1
        <5> QED
          BY <1>1, <3>1, <3>5, <4>1, <5>1 DEF Order, Alone, Clear
      <4>2. CASE m = n + 1
        <5>1. Line(h[m].at) = u
          BY <1>3, <1>5, <2>1, <2>4, <4>2
        <5>2. g < u /\ g \in Nat
          BY <2>3, <3>1, <3>4, <3>5
        <5> QED
          BY <2>2, <5>1, <5>2
      <4> QED
        BY <1>6, <4>1, <4>2
    <3> QED
      BY <1>5, <2>4, <3>5, <3>6, <3>7 DEF Clear
  <2>6. /\ \A z : Line(z)' = Line(z) /\ EndLine(z)' = EndLine(z)
        /\ \A g, ld, z : Clear(g, ld, z)' = Clear(g, ld, z)
    BY SameFile
  <2>7. Clear(hist, lead, tok)'
    BY <1>1, <2>4, <2>5, <2>6
  <2>8. EndLine(lead[Len(lead)])' = EndLine(lead[Len(lead)]) /\ Line(sc.pos)' = v
    BY <1>1, <1>3, <2>1, <2>6
  <2> QED
    BY <2>2, <2>3, <2>7, <2>8 DEF Alone
<1> QED
  BY <1>11, <1>12, <1>13, <1>14 DEF Order

\* No token shares a line with a lead comment.
LEMMA AloneIs ==
    ASSUME Types, Order
    PROVE  LeadIsAlone
<1>1. SUFFICES ASSUME lead # <<>> PROVE LeadIsAlone
  BY DEF LeadIsAlone
<1>2. PICK f, g : f = Line(lead[1].at) /\ g = EndLine(lead[Len(lead)])
  OBVIOUS
<1>3. /\ tok.at > lead[Len(lead)].at => Line(tok.at) = g + 1
      /\ \A m \in 1 .. Len(hist) : IsReal(hist[m]) => Line(hist[m].at) \notin f .. g
  BY <1>1, <1>2 DEF Order, Alone, Clear
<1>4. ASSUME NEW t \in Range(hist), ~t.auto, t.kind # "COMMENT"
      PROVE  (Line(t.at) .. EndLine(t)) \cap (f .. g) = {}
  <2>1. PICK m \in 1 .. Len(hist) : t = hist[m]
    BY <1>4 DEF Types, Range
  <2>2. IsReal(hist[m]) /\ t \in Tokens /\ src \in Seq(Chars)
    BY <1>4, <2>1 DEF IsReal, Types
  <2>3. Newlines(t.at, t.end) = {}
    BY <2>1, <2>2 DEF Order, Passed, PassedBy
  <2>4. EndLine(t) = Line(t.at) /\ EndLine(t) \in Nat
    BY <2>2, <2>3, EndLineIs
  <2> DEFINE u == EndLine(t)
  <2> HIDE DEF u
  <2>5. u \in Nat /\ u \notin f .. g /\ Line(t.at) = u /\ EndLine(t) = u
    BY <1>3, <2>1, <2>2, <2>4 DEF u
  <2> QED
    BY <2>5
<1>5. \A t \in Range(hist) :
         t.auto \/ t.kind \in {"COMMENT", EOF} \/ (Line(t.at) .. EndLine(t)) \cap (f .. g) = {}
  BY <1>4
<1> QED
  BY <1>2, <1>3, <1>5 DEF LeadIsAlone, Last

-----------------------------------------------------------------------------
(* Each step keeps the types.                                              *)

\* Where the file is, the sets of the types are.
LEMMA TypesNow ==
    ASSUME src' = src, src \in Seq(Chars), sc' \in Scanners,
           sc'.nlPos # NoPos => ~sc'.insertSemi /\ ~sc'.allow /\ ~sc'.prevGTR /\ pc' = "next",
           tok' \in Tokens, pc' \in {"next", "parse"}, comments' \in Seq(Comments), lead' \in Seq(Comments),
           lits' \in Seq(0 .. Size), levels' \in Seq(Levels), hist' \in Seq(Tokens), skipped' \in BOOLEAN
    PROVE  Types'
<1>1. Size' = Size /\ Tokens' = Tokens /\ Comments' = Comments /\ Scanners' = Scanners /\ Levels' = Levels
  BY SameFile
<1> QED
  BY <1>1 DEF Types

-----------------------------------------------------------------------------
(* Each action keeps the invariant.                                        *)

\* A comment.
LEMMA CommentHolds ==
    ASSUME IInv, NextComment
    PROVE  IInv'
<1> DEFINE r == Scan(sc)
<1>1. /\ pc = "next" /\ r.t.kind = "COMMENT" /\ sc' = r.s
      /\ comments' = Append(comments, r.t) /\ hist' = Append(hist, r.t)
      /\ UNCHANGED <<src, tok, pc, lead, lits, levels, skipped>>
  BY DEF NextComment
<1>2. Types /\ Owed /\ Text /\ Stack /\ Order
  BY DEF IInv
<1> HIDE DEF r
<1>3. r = Scan(sc)
  BY DEF r
<1>4. Types'
  <2>1. /\ r.s \in Scanners /\ r.t \in Tokens /\ r.t \in Comments
        /\ r.s.nlPos # NoPos => ~r.s.insertSemi /\ ~r.s.allow /\ ~r.s.prevGTR
    BY <1>1, <1>2, <1>3, ScanTypes
  <2>2. comments' \in Seq(Comments) /\ hist' \in Seq(Tokens)
    BY <1>1, <1>2, <2>1 DEF Types
  <2>3. /\ src \in Seq(Chars) /\ tok \in Tokens /\ lead \in Seq(Comments)
        /\ lits \in Seq(0 .. Size) /\ levels \in Seq(Levels) /\ skipped \in BOOLEAN
    BY <1>2 DEF Types
  <2> QED
    BY <1>1, <2>1, <2>2, <2>3, TypesNow
<1>5. Owed'
  <2>1. pc' = "parse" => tok' = r.t
    BY <1>1
  <2> QED
    BY <1>1, <1>2, <1>3, <2>1, OwedScan
<1>6. Text'
  BY <1>1, <1>2, <1>3, TextScan
<1>7. Stack'
  <2>1. ~InTemplate' /\ ~InTemplate
    BY <1>1 DEF InTemplate
  <2> QED
    BY <1>1, <1>2, <2>1, StackKeeps
<1>8. Order'
  BY <1>1, <1>2, <1>3, OrderComment
<1> QED
  BY <1>4, <1>5, <1>6, <1>7, <1>8 DEF IInv

\* A token.
LEMMA TokenHolds ==
    ASSUME IInv, NextToken
    PROVE  IInv'
<1> DEFINE r == Scan(sc)
<1>1. /\ pc = "next" /\ r.t.kind # "COMMENT" /\ sc' = r.s /\ tok' = r.t /\ hist' = Append(hist, r.t)
      /\ lead' = LeadComment(comments, r.t) /\ comments' = <<>> /\ src' = src /\ skipped' = skipped
      /\ \/ r.t.kind = "STRING_TEMPLATE" /\ Push(r.t) /\ pc' = "next"
         \/ r.t.kind # "STRING_TEMPLATE" /\ pc' = "parse" /\ UNCHANGED <<lits, levels>>
  BY DEF NextToken
<1>2. Types /\ Owed /\ Text /\ Stack /\ Order
  BY DEF IInv
<1> HIDE DEF r
<1>3. r = Scan(sc)
  BY DEF r
<1>4. /\ r.s \in Scanners /\ r.t \in Tokens /\ r.s.nlPos = NoPos
      /\ r.t.kind = "STRING_TEMPLATE" => r.t.at \in 1 .. Size
  BY <1>1, <1>2, <1>3, ScanTypes
<1>5. /\ src \in Seq(Chars) /\ lits \in Seq(0 .. Size) /\ levels \in Seq(Levels) /\ skipped \in BOOLEAN
      /\ hist \in Seq(Tokens) /\ Size \in Nat
  BY <1>2, ChIs DEF Types
<1>6. Types'
  <2>1. hist' \in Seq(Tokens) /\ comments' \in Seq(Comments) /\ pc' \in {"next", "parse"}
    BY <1>1, <1>4, <1>5
  <2>2. lead' \in Seq(Comments)
    <3>1. CASE lead' = <<>>
      BY <3>1
    <3>2. CASE lead' # <<>>
      BY <1>1, <1>2, <1>4, <3>2, LeadCommentIs
    <3> QED
      BY <3>1, <3>2
  <2>3. lits' \in Seq(0 .. Size) /\ levels' \in Seq(Levels)
    <3>1. CASE Push(r.t) /\ r.t.kind = "STRING_TEMPLATE"
      <4>1. [index |-> Len(lits) + 1, start |-> r.t.at] \in Levels
        BY <1>4, <1>5, <3>1 DEF Levels
      <4>2. NoPos \in 0 .. Size
        BY <1>5 DEF NoPos
      <4> QED
        BY <1>5, <3>1, <4>1, <4>2 DEF Push
    <3>2. CASE UNCHANGED <<lits, levels>>
      BY <1>5, <3>2
    <3> QED
      BY <1>1, <3>1, <3>2
  <2> QED
    BY <1>1, <1>4, <1>5, <2>1, <2>2, <2>3, TypesNow
<1>7. Owed'
  BY <1>1, <1>2, <1>3, OwedScan
<1>8. Text'
  BY <1>1, <1>2, <1>3, TextScan
<1>9. Stack'
  <2>1. ~InTemplate
    BY <1>1 DEF InTemplate
  <2>2. CASE r.t.kind = "STRING_TEMPLATE" /\ Push(r.t) /\ pc' = "next"
    <3>1. ~InTemplate'
      BY <2>2 DEF InTemplate
    <3>2. lits' = Append(lits, NoPos) /\ levels' = Append(levels, [index |-> Len(lits) + 1, start |-> r.t.at])
      BY <2>2 DEF Push
    <3> QED
      BY <1>1, <1>2, <2>1, <3>1, <3>2, StackPush
  <2>3. CASE r.t.kind # "STRING_TEMPLATE" /\ UNCHANGED <<lits, levels>>
    <3>1. ~InTemplate'
      BY <1>1, <2>3 DEF InTemplate
    <3> QED
      BY <1>1, <1>2, <2>1, <2>3, <3>1, StackKeeps
  <2> QED
    BY <1>1, <2>2, <2>3
<1>10. Order'
  <2>1. \/ levels' = levels
        \/ pc' = "next" /\ levels' = Append(levels, [index |-> Len(lits) + 1, start |-> r.t.at])
    BY <1>1 DEF Push
  <2> QED
    BY <1>1, <1>2, <1>3, <2>1, OrderToken
<1> QED
  BY <1>6, <1>7, <1>8, <1>9, <1>10 DEF IInv

\* The parser goes on to the next token.
LEMMA ConsumeHolds ==
    ASSUME IInv, Consume
    PROVE  IInv'
<1>1. /\ pc = "parse" /\ pc' = "next" /\ skipped' = (skipped \/ tok.kind = "STRING_TEMPLATE")
      /\ UNCHANGED <<src, sc, tok, comments, lead, lits, levels, hist>>
  BY DEF Consume
<1>2. Types /\ Owed /\ Text /\ Stack /\ Order
  BY DEF IInv
<1>3. Types'
  <2>1. skipped' \in BOOLEAN
    BY <1>1
  <2>2. /\ src \in Seq(Chars) /\ sc \in Scanners /\ sc.nlPos = NoPos /\ tok \in Tokens
        /\ comments \in Seq(Comments) /\ lead \in Seq(Comments)
        /\ lits \in Seq(0 .. Size) /\ levels \in Seq(Levels) /\ hist \in Seq(Tokens)
    BY <1>1, <1>2 DEF Types
  <2> QED
    BY <1>1, <2>1, <2>2, TypesNow
<1>4. Owed' /\ Text'
  BY <1>1, <1>2, OwedKeeps, TextKeeps
<1>5. Stack'
  <2>1. ~InTemplate' /\ (~skipped' => ~skipped /\ ~InTemplate)
    BY <1>1 DEF InTemplate
  <2> QED
    BY <1>1, <1>2, <2>1, StackKeeps
<1>6. Order'
  BY <1>1, <1>2, OrderGoesOn
<1> QED
  BY <1>3, <1>4, <1>5, <1>6 DEF IInv

\* The parser pops a literal.
LEMMA PopHolds ==
    ASSUME IInv, PopTemplate
    PROVE  IInv'
<1>1. /\ pc = "parse" /\ tok.kind = "STRING_TEMPLATE" /\ pc' = "next" /\ lits' = Front(lits)
      /\ UNCHANGED <<src, sc, tok, comments, lead, levels, hist, skipped>>
  BY DEF PopTemplate
<1>2. Types /\ Owed /\ Text /\ Stack /\ Order
  BY DEF IInv
<1>3. InTemplate /\ ~InTemplate'
  BY <1>1 DEF InTemplate
<1>4. Types'
  <2>1. /\ src \in Seq(Chars) /\ sc \in Scanners /\ sc.nlPos = NoPos /\ tok \in Tokens
        /\ comments \in Seq(Comments) /\ lead \in Seq(Comments)
        /\ lits \in Seq(0 .. Size) /\ levels \in Seq(Levels) /\ hist \in Seq(Tokens) /\ skipped \in BOOLEAN
    BY <1>1, <1>2 DEF Types
  <2>2. lits' \in Seq(0 .. Size)
    <3>1. lits # <<>>
      BY <1>1, <1>2 DEF Stack, TopIsReady
    <3>2. PICK S : S = 0 .. Size
      OBVIOUS
    <3>3. lits \in Seq(S) /\ lits # <<>> /\ lits' = SubSeq(lits, 1, Len(lits) - 1)
      BY <1>1, <2>1, <3>1, <3>2 DEF Front
    <3>4. lits' \in Seq(S)
      BY <3>3
    <3> QED
      BY <3>2, <3>4
  <2> QED
    BY <1>1, <2>1, <2>2, TypesNow
<1>5. Owed' /\ Text'
  BY <1>1, <1>2, OwedKeeps, TextKeeps
<1>6. Stack'
  BY <1>1, <1>2, <1>3, StackPop
<1>7. Order'
  BY <1>1, <1>2, OrderGoesOn
<1> QED
  BY <1>4, <1>5, <1>6, <1>7 DEF IInv

\* The parser marks the end of a tag.
LEMMA AllowHolds ==
    ASSUME IInv, AllowInsertSemiAfterGTR
    PROVE  IInv'
<1>1. /\ pc = "parse" /\ ~sc.allow /\ tok.kind \in {"GTR", "RBRACE", EOF}
      /\ sc' = [sc EXCEPT !.allow = TRUE] /\ hist' = [hist EXCEPT ![Len(hist)].closes = TRUE]
      /\ UNCHANGED <<src, tok, pc, comments, lead, lits, levels, skipped>>
  BY DEF AllowInsertSemiAfterGTR
<1>2. Types /\ Owed /\ Text /\ Stack /\ Order
  BY DEF IInv
<1>3. hist # <<>>
  BY <1>1, <1>2 DEF Owed
<1>4. Types'
  <2>1. /\ src \in Seq(Chars) /\ sc \in Scanners /\ sc.nlPos = NoPos /\ tok \in Tokens
        /\ comments \in Seq(Comments) /\ lead \in Seq(Comments)
        /\ lits \in Seq(0 .. Size) /\ levels \in Seq(Levels) /\ hist \in Seq(Tokens) /\ skipped \in BOOLEAN
    BY <1>1, <1>2 DEF Types
  <2>2. sc' \in Scanners /\ sc'.nlPos = NoPos
    BY <1>1, <2>1 DEF Scanners
  <2>3. hist' \in Seq(Tokens)
    BY <1>1, <1>3, <2>1, LastCloses
  <2> QED
    BY <1>1, <2>1, <2>2, <2>3, TypesNow
<1>5. Owed'
  BY <1>1, <1>2, OwedCloses
<1>6. Text'
  BY <1>1, <1>2, <1>3, TextCloses
<1>7. Stack'
  BY <1>1, <1>2, StackAllow
<1>8. Order'
  BY <1>1, <1>2, <1>3, OrderCloses
<1> QED
  BY <1>4, <1>5, <1>6, <1>7, <1>8 DEF IInv

\* A literal goes on, or ends.
LEMMA PartHolds ==
    ASSUME IInv, EndPart
    PROVE  IInv'
<1> DEFINE r == TemplateLiteralContinue
           l == Last(levels)
<1>1. /\ pc = "parse" /\ levels # <<>> /\ sc' = r.s /\ hist' = Append(hist, r.t)
      /\ skipped' = (skipped \/ tok.kind = "STRING_TEMPLATE") /\ UNCHANGED <<src, comments, lead>>
      /\ \/ /\ r.t.kind = "STRING_TEMPLATE" /\ tok' = r.t /\ pc' = "next" /\ UNCHANGED <<lits, levels>>
         \/ /\ r.t.kind # "STRING_TEMPLATE" /\ tok' = Token("STRING_TEMPLATE", l.start, l.start)
            /\ pc' = "parse" /\ lits' = SetLit(lits, l.index, l.start) /\ levels' = Front(levels)
  BY DEF EndPart, EndPiece
<1>2. Types /\ Owed /\ Text /\ Stack /\ Order
  BY DEF IInv
<1> HIDE DEF r, l
<1>3. r = TemplateLiteralContinue /\ l = Last(levels)
  BY DEF r, l
<1>4. r.s \in Scanners /\ r.t \in Tokens /\ r.s.nlPos = NoPos
  BY <1>1, <1>2, <1>3, PieceIs
<1>5. /\ src \in Seq(Chars) /\ lits \in Seq(0 .. Size) /\ levels \in Seq(Levels) /\ skipped \in BOOLEAN
      /\ comments \in Seq(Comments) /\ lead \in Seq(Comments) /\ hist \in Seq(Tokens) /\ Size \in Nat
  BY <1>2, ChIs DEF Types
<1>6. l \in Levels /\ l.start \in 1 .. Size /\ l.index \in 1 .. Len(lits)
  <2>1. PICK b : b = Len(levels)
    OBVIOUS
  <2>2. b \in 1 .. b /\ l = levels[b]
    BY <1>1, <1>3, <1>5, <2>1 DEF Last
  <2>3. levels[b] \in Levels
    BY <1>5, <2>1, <2>2
  <2> QED
    BY <1>2, <2>1, <2>2, <2>3 DEF Levels, Stack
<1>7. Types'
  <2>1. sc' \in Scanners /\ sc'.nlPos = NoPos /\ hist' \in Seq(Tokens) /\ skipped' \in BOOLEAN
    BY <1>1, <1>4, <1>5
  <2>2. CASE r.t.kind = "STRING_TEMPLATE" /\ tok' = r.t /\ pc' = "next" /\ UNCHANGED <<lits, levels>>
    BY <1>1, <1>4, <1>5, <2>1, <2>2, TypesNow
  <2>3. CASE /\ r.t.kind # "STRING_TEMPLATE" /\ tok' = Token("STRING_TEMPLATE", l.start, l.start)
             /\ pc' = "parse" /\ lits' = SetLit(lits, l.index, l.start) /\ levels' = Front(levels)
    <3>1. tok' \in Tokens
      BY <1>5, <1>6, <2>3 DEF Tokens, Token, Kinds
    <3>2. lits' \in Seq(0 .. Size)
      <4>1. PICK i, x : i = l.index /\ x = l.start
        OBVIOUS
      <4>2. i \in 1 .. Len(lits) /\ x \in 0 .. Size /\ lits' = [lits EXCEPT ![i] = x]
        BY <1>5, <1>6, <2>3, <4>1 DEF SetLit
      <4> QED
        BY <1>5, <4>2, ExceptSeq
    <3>3. levels' \in Seq(Levels)
      BY <1>1, <1>5, <2>3 DEF Front
    <3> QED
      BY <1>1, <1>5, <2>1, <2>3, <3>1, <3>2, <3>3, TypesNow
  <2> QED
    BY <1>1, <2>2, <2>3
<1>8. tok'.kind = "STRING_TEMPLATE"
  BY <1>1 DEF Token
<1>9. Owed'
  BY <1>1, <1>2, <1>3, <1>8, OwedPiece
<1>10. Text'
  BY <1>1, <1>2, <1>3, TextPiece
<1>11. Stack'
  <2>1. CASE r.t.kind = "STRING_TEMPLATE" /\ tok' = r.t /\ pc' = "next" /\ UNCHANGED <<lits, levels>>
    <3>1. ~InTemplate' /\ (~skipped' => ~skipped /\ ~InTemplate)
      BY <1>1, <2>1 DEF InTemplate
    <3> QED
      BY <1>2, <2>1, <3>1, StackKeeps
  <2>2. CASE /\ r.t.kind # "STRING_TEMPLATE" /\ tok' = Token("STRING_TEMPLATE", l.start, l.start)
             /\ pc' = "parse" /\ lits' = SetLit(lits, l.index, l.start) /\ levels' = Front(levels)
    BY <1>1, <1>2, <1>3, <2>2, StackFinish
  <2> QED
    BY <1>1, <2>1, <2>2
<1>12. Order'
  <2>1. PICK x : x = Last(levels).start
    OBVIOUS
  <2>2. \/ r.t.kind = "STRING_TEMPLATE" /\ tok' = r.t /\ pc' = "next" /\ levels' = levels
        \/ /\ r.t.kind # "STRING_TEMPLATE" /\ tok' = Token("STRING_TEMPLATE", x, x)
           /\ pc' = "parse" /\ levels' = Front(levels)
    BY <1>1, <1>3, <2>1
  <2> QED
    BY <1>1, <1>2, <1>3, <2>1, <2>2, OrderPiece
<1> QED
  BY <1>7, <1>9, <1>10, <1>11, <1>12 DEF IInv

-----------------------------------------------------------------------------
(* The theorems.                                                           *)

\* The invariant holds at first.
LEMMA InitHolds ==
    ASSUME SourcesOK, Init
    PROVE  IInv
<1>1. /\ src \in Seq(Chars) /\ sc = NoSemi(1) /\ tok = Token("ILLEGAL", NoPos, NoPos)
      /\ pc = "next" /\ comments = <<>> /\ lead = <<>>
      /\ lits = <<>> /\ levels = <<>> /\ hist = <<>> /\ skipped = FALSE
  BY DEF Init, SourcesOK
<1>2. Size \in Nat
  BY <1>1, ChIs
<1>3. sc \in Scanners /\ sc.pos = 1 /\ sc.nlPos = NoPos /\ ~sc.insertSemi /\ ~sc.allow /\ ~sc.prevGTR
  <2>1. 1 \in 1 .. Size + 1
    BY <1>2
  <2>2. sc \in Scanners
    <3>1. 0 \in 0 .. Size /\ FALSE \in BOOLEAN
      BY <1>2
    <3> QED
      BY <1>1, <2>1, <3>1, ScannerIs
  <2> QED
    BY <1>1, <2>2 DEF NoSemi
<1>4. tok \in Tokens /\ tok.at = 0
  BY <1>1, <1>2 DEF Tokens, Token, Kinds, NoPos
<1>5. \A i \in 1 .. Len(<<>>) : FALSE
  OBVIOUS
<1>6. Types
  <2>1. \A S : <<>> \in Seq(S)
    OBVIOUS
  <2> QED
    BY <1>1, <1>3, <1>4, <2>1, Zenon DEF Types
<1>7. LastSig(hist) = Token("none", 1, 1) /\ ~NeedsSemi(LastSig(hist))
  <2>1. LastSig(hist) = Token("none", 1, 1)
    <3>1. {m \in 1 .. Len(hist) : IsSig(hist[m])} = {}
      BY <1>1, <1>5
    <3> QED
      BY <3>1, Zenon DEF LastSig
  <2> QED
    BY <2>1 DEF Token, NeedsSemi
<1>8. Owed
  BY <1>1, <1>3, <1>7 DEF Owed, Owes, SemicolonRule
<1>9. Text
  <2>1. \A p \in 1 .. sc.pos - 1 : FALSE
    BY <1>3
  <2> QED
    BY <1>1, <1>5, <2>1 DEF Text, NoTextLost
<1>10. Stack
  <2>1. ~InTemplate /\ TopIsReady
    BY <1>1 DEF InTemplate, TopIsReady
  <2> QED
    BY <1>1, <1>5, <2>1 DEF Stack
<1>11. Order
  <2>1. Met
    BY <1>1, <1>3, <1>4, <1>5 DEF Met
  <2>2. Passed /\ Begun
    BY <1>1, <1>5 DEF Passed, PassedBy, Begun
  <2>3. Alone
    BY <1>1 DEF Alone, Clear
  <2> QED
    BY <2>1, <2>2, <2>3 DEF Order
<1> QED
  BY <1>6, <1>8, <1>9, <1>10, <1>11 DEF IInv

\* Every step keeps it.
LEMMA NextHolds ==
    ASSUME IInv, [Next]_vars
    PROVE  IInv'
<1>1. CASE Next
  BY <1>1, CommentHolds, TokenHolds, ConsumeHolds, PopHolds, AllowHolds, PartHolds DEF Next
<1>2. CASE UNCHANGED vars
  <2>1. LastSig(hist)' = LastSig(hist)
    BY <1>2 DEF vars, LastSig
  <2>2. Owed'
    BY <1>2 DEF IInv, vars, Owed, SemicolonRule, Before, Ch, Newlines, Size
  <2>3. Text' /\ Stack'
    BY <1>2, TextKeeps, StackAllow DEF IInv, vars
  <2>4. Types'
    BY <1>2 DEF IInv, vars, Types, Scanners, Tokens, Comments, Levels, Size
  <2>5. Order'
    <3>1. /\ \A x : Line(x)' = Line(x) /\ EndLine(x)' = EndLine(x)
          /\ \A h, x, y : Clear(h, x, y)' = Clear(h, x, y)
          /\ \A h, x, y, cs, z : PassedBy(h, x, y, cs, z)' = PassedBy(h, x, y, cs, z)
      BY <1>2, SameFile DEF vars
    <3>2. Met' /\ Begun'
      BY <1>2 DEF IInv, vars, Order, Met, Begun
    <3>3. Passed'
      BY <1>2, <2>1, <3>1 DEF IInv, vars, Order, Passed
    <3>4. Alone'
      BY <1>2, <3>1 DEF IInv, vars, Order, Alone
    <3> QED
      BY <3>2, <3>3, <3>4 DEF Order
  <2> QED
    BY <2>2, <2>3, <2>4, <2>5 DEF IInv
<1> QED
  BY <1>1, <1>2

\* In every state of the invariant, the properties hold.
LEMMA InvImplies ==
    ASSUME IInv
    PROVE  TypeOK /\ SemicolonRule /\ NoTextLost /\ TopIsReady /\ LeadIsAlone
<1>1. Types /\ Owed /\ Text /\ Stack /\ Order
  BY DEF IInv
<1>2. SemicolonRule /\ NoTextLost /\ TopIsReady
  BY <1>1 DEF Owed, Text, Stack
<1>3. LeadIsAlone
  BY <1>1, AloneIs
<1>4. TypeOK
  <2>1. \A t \in Tokens : IsToken(t)
    BY <1>1, ChIs DEF Types, Tokens, IsToken
  <2>2. \A c \in Range(comments \o lead) : IsToken(c) /\ c.kind = "COMMENT"
    <3>1. comments \o lead \in Seq(Comments)
      BY <1>1 DEF Types
    <3>2. \A c \in Range(comments \o lead) : c \in Comments
      BY <3>1 DEF Range
    <3> QED
      BY <2>1, <3>2 DEF Comments
  <2>3. hist # <<>> => IsToken(Last(hist))
    BY <1>1, <2>1 DEF Types, Last
  <2>4. \A l \in Range(levels) : l.index \in 1 .. Len(lits) /\ l.start \in 1 .. Size
    <3>1. ASSUME NEW l \in Range(levels) PROVE l.index \in 1 .. Len(lits) /\ l.start \in 1 .. Size
      <4>1. PICK j \in 1 .. Len(levels) : l = levels[j]
        BY <1>1, <3>1 DEF Types, Range
      <4>2. l \in Levels
        BY <1>1, <4>1 DEF Types
      <4> QED
        BY <1>1, <4>1, <4>2 DEF Stack, Levels
    <3> QED
      BY <3>1
  <2>5. sc.pos \in 1 .. Size + 1 /\ sc.nlPos \in 0 .. Size /\ {sc.insertSemi, sc.allow, sc.prevGTR, skipped} \subseteq BOOLEAN
    BY <1>1 DEF Types, Scanners
  <2>6. pc \in {"next", "parse"} /\ (pc = "parse" => sc.nlPos = NoPos) /\ IsToken(tok) /\ lits \in Seq(0 .. Size)
    BY <1>1, <2>1 DEF Types
  <2> QED
    BY <2>2, <2>3, <2>4, <2>5, <2>6 DEF TypeOK
<1> QED
  BY <1>2, <1>3, <1>4

\* The invariant holds in every behaviour.
THEOREM LexerInvariant == ASSUME SourcesOK PROVE Spec => []IInv
<1>1. Init => IInv
  BY InitHolds
<1>2. IInv /\ [Next]_vars => IInv'
  BY NextHolds
<1> QED
  BY <1>1, <1>2, PTL DEF Spec

\* Positions lie in the file, also behind a literal that is not ended: Scan,
\* scanString and scanComment stop at its end.
THEOREM PositionsAreInFile == ASSUME SourcesOK PROVE Spec => []TypeOK
BY LexerInvariant, InvImplies, PTL

\* scanner.Scan inserts semicolons for the newlines that end a statement, and for no other.
THEOREM SemicolonsAreRight == ASSUME SourcesOK PROVE Spec => []SemicolonRule
BY LexerInvariant, InvImplies, PTL

\* The tokens that Scan and TemplateLiteralContinue return cover the text of the file.
THEOREM TextIsKept == ASSUME SourcesOK PROVE Spec => []NoTextLost
BY LexerInvariant, InvImplies, PTL

\* The literal that parseTgoStmt pops is finished, and is that of its token.
THEOREM LiteralIsReady == ASSUME SourcesOK PROVE Spec => []TopIsReady
BY LexerInvariant, InvImplies, PTL

\* A lead comment, as nextToken finds it, shares a line with no token.
THEOREM LeadCommentsAreAlone == ASSUME SourcesOK PROVE Spec => []LeadIsAlone
BY LexerInvariant, InvImplies, PTL
==============================================================================
