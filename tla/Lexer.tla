-------------------------------- MODULE Lexer --------------------------------
(***************************************************************************)
(* The path of a token: scanner.Scanner turns characters into tokens       *)
(* (automatic semicolons, comments, the pieces of template literals), and  *)
(* parser.next attaches comments to the token that follows and parses a    *)
(* template literal "a\{x}b" as a whole before its token is seen.          *)
(*                                                                         *)
(* The parser above is any sequence of the calls it can make: next, the    *)
(* end of an expression, the pop of a parsed template literal, and         *)
(* AllowInsertSemiAfterGTR.  A position is the index of a character of the *)
(* source, from 1; a token spans [at, end).                                *)
(*                                                                         *)
(* Characters stand for classes: "x" a letter or digit.  Left out are the  *)
(* other literals, operators of more than two characters, carriage         *)
(* returns and line directives.                                            *)
(***************************************************************************)
EXTENDS Integers, Sequences, FiniteSets, FiniteSetsExt, SequencesExt

CONSTANT Sources    \* the files that are parsed

Chars == {"x", "\n", " ", "\"", "\\", "{", "}", "/", "*", "<", ">"}
EOF == "EOF"
NoPos == 0

VARIABLES
    src,
    sc,         \* the scanner: pos, insertSemi, nlPos, allow
                \* (allowInsertSemiAfterGTR) and prevGTR
    tok,        \* the parser's token
    pc,         \* "next": in parser.next; "parse": the parser looks at tok
    comments,   \* "next": the comments met since the last token
    lead,       \* leadComment: the comments of the group
    lits,       \* templateLit: positions of literals, NoPos for nil
    levels,     \* the calls of parseTemplateLiteral: [index, start]
    hist,       \* history: all tokens, comments and pieces of literals
    skipped     \* history: has a template literal been skipped, with an error?

vars == <<src, sc, tok, pc, comments, lead, lits, levels, hist, skipped>>

-----------------------------------------------------------------------------
(* Characters and lines.                                                   *)

Size == Len(src)
Ch(p) == IF p \in 1 .. Size THEN src[p] ELSE EOF

\* The first position from p on that has a character of C, or the end.
Find(p, C) == Min({q \in p .. Size : src[q] \in C} \cup {Size + 1})

Newlines(a, b) == {p \in a .. b - 1 : Ch(p) = "\n"}

\* File.Line: a newline that ends the file starts no line (File.AddLine).
Line(p) == IF p = NoPos THEN 0 ELSE 1 + Cardinality(Newlines(1, p) \ {Size})

\* consumeComment: the line on which a comment ends.
EndLine(c) == Line(c.at) + Cardinality(Newlines(c.at, c.end))

-----------------------------------------------------------------------------
(* The scanner.                                                            *)

Token(k, a, e) == [kind |-> k, at |-> a, end |-> e, auto |-> FALSE, closes |-> FALSE]
Semicolon(a, e) == [Token("SEMICOLON", a, e) EXCEPT !.auto = TRUE]

skipWhitespace(p, insertSemi) ==
    Find(p, Chars \ (IF insertSemi THEN {" "} ELSE {" ", "\n"}))

\* scanEscape: is q, in a string that is read from p on, behind an odd number of backslashes?
Escaped(p, q) ==
    \E r \in p .. q - 1 :
        /\ (q - r) % 2 = 1 /\ (r = p \/ Ch(r - 1) # "\\")
        /\ \A m \in r .. q - 1 : Ch(m) = "\\"

\* The quote, the hole, the end of the line or of the file that ends a piece read from p on.
EndsPiece(p, q) ==
    \/ Ch(q) \in {EOF, "\n"}
    \/ (Ch(q) = "\"" \/ (Ch(q) = "\\" /\ Ch(q + 1) = "{")) /\ ~Escaped(p, q)

\* scanString from p: the kind of the piece and its end.
scanString(p) ==
    LET q == Min({q \in p .. Size + 1 : EndsPiece(p, q)})
    IN CASE Ch(q) \in {EOF, "\n"} -> <<"STRING", q>>
         [] Ch(q) = "\"" -> <<"STRING", q + 1>>
         [] OTHER -> <<"STRING_TEMPLATE", q + 2>>

\* scanComment: the end of the comment at p.
scanComment(p) ==
    IF Ch(p + 1) = "/" THEN Find(p + 2, {"\n"})
    ELSE Min({q + 2 : q \in {q \in p + 2 .. Size - 1 : src[q] = "*" /\ src[q + 1] = "/"}}
             \cup {Size + 1})

NoSemi(e) == [pos |-> e, insertSemi |-> FALSE, nlPos |-> NoPos, allow |-> FALSE,
              prevGTR |-> FALSE]

\* Mutant: a comment makes the scanner forget that a semicolon is due.
CommentForgets(s, p, semi) ==
    LET e == scanComment(p) IN
    [t |-> Token("COMMENT", p, e), s |-> NoSemi(e)]

\* A comment; with a newline inside, the semicolon is due after it.
Comment(s, p, semi) ==
    LET e  == scanComment(p)
        nl == IF Ch(p + 1) = "*" THEN Newlines(p, e) ELSE {}
    IN  [t |-> Token("COMMENT", p, e),
         s |-> IF semi /\ nl # {} THEN [NoSemi(e) EXCEPT !.nlPos = Min(nl)]
               ELSE [NoSemi(e) EXCEPT !.insertSemi = semi]]

\* The tokens that are one character or two: kind and length.
Operator(p) ==
    CASE Ch(p) = "<" /\ Ch(p + 1) = "/" /\ Ch(p + 2) \notin {"/", "*"} -> <<"END_TAG", 2>>
      [] Ch(p) = "<" /\ Ch(p + 1) = "<" -> <<"SHL", 2>>
      [] Ch(p) = ">" /\ Ch(p + 1) = ">" -> <<"SHR", 2>>
      [] OTHER -> <<CASE Ch(p) = "<" -> "LSS"    [] Ch(p) = ">" -> "GTR"
                      [] Ch(p) = "{" -> "LBRACE" [] Ch(p) = "}" -> "RBRACE"
                      [] Ch(p) = "/" -> "QUO"    [] Ch(p) = "*" -> "MUL"
                      [] OTHER -> "ILLEGAL", 1>>

\* The token k from p to e. due: does a newline after it end the statement?
After(k, p, e, due) ==
    [t |-> Token(k, p, e),
     s |-> [NoSemi(e) EXCEPT !.insertSemi = due, !.prevGTR = (k = "GTR")]]

\* Scan at p, behind the white space. semi: is a semicolon due at a newline?
ScanAt(s, p, semi) ==
    CASE Ch(p) = "x"  -> After("IDENT", p, Find(p, Chars \ {"x"}), TRUE)
      [] Ch(p) = EOF /\ semi -> [t |-> Semicolon(p, p), s |-> NoSemi(p)]
      [] Ch(p) = EOF /\ ~semi -> After(EOF, p, p, FALSE)
      [] Ch(p) = "\n" -> [t |-> Semicolon(p, p + 1), s |-> NoSemi(p + 1)]
      [] Ch(p) = "\"" -> LET str == scanString(p + 1)
                         IN  After(str[1], p, str[2], str[1] = "STRING")
      [] Ch(p) = "/" /\ Ch(p + 1) \in {"/", "*"} -> Comment(s, p, semi)
      [] OTHER -> LET op == Operator(p)
                  IN  After(op[1], p, p + op[2], op[1] = "RBRACE" \/ (op[1] = "ILLEGAL" /\ semi))

\* Scan: the token and the scanner after it.
Scan(s) ==
    LET semi == s.insertSemi \/ (s.allow /\ s.prevGTR)
    IN  IF s.nlPos # NoPos
        THEN [t |-> Semicolon(s.nlPos, s.nlPos),
              s |-> [NoSemi(s.pos) EXCEPT !.insertSemi = semi]]
        ELSE ScanAt(s, skipWhitespace(s.pos, semi), semi)

-----------------------------------------------------------------------------
(* parser.next.                                                            *)

Init ==
    /\ src \in Sources
    /\ sc = NoSemi(1)
    /\ tok = Token("ILLEGAL", NoPos, NoPos)
    /\ pc = "next" /\ comments = <<>> /\ lead = <<>>
    /\ lits = <<>> /\ levels = <<>> /\ hist = <<>> /\ skipped = FALSE

\* consumeCommentGroup(n) from comment a on: the last comment of the group.
GroupEnd(cs, a, n) ==
    Max({b \in a .. Len(cs) :
            \A c \in a + 1 .. b : Line(cs[c].at) <= EndLine(cs[c - 1]) + n})

\* Mutant: the line comment of the last token is taken for a lead comment.
LeadOrLine(cs, t) ==
    IF cs = <<>> \/ EndLine(Last(cs)) + 1 # Line(t.at) THEN <<>>
    ELSE SubSeq(cs, Min({a \in 1 .. Len(cs) : GroupEnd(cs, a, 1) = Len(cs)}), Len(cs))

\* nextToken: the lead comment of token t, given the comments before it.  A
\* group on the line of the token before (tok) can only be a line comment.
LeadComment(cs, t) ==
    LET first == IF cs # <<>> /\ Line(cs[1].at) = Line(tok.at)
                 THEN GroupEnd(cs, 1, 0) + 1 ELSE 1
        last  == Min({a \in first .. Len(cs) : GroupEnd(cs, a, 1) = Len(cs)})
    IN  IF first > Len(cs) \/ EndLine(Last(cs)) + 1 # Line(t.at) THEN <<>>
        ELSE SubSeq(cs, last, Len(cs))

\* next0 finds a comment.
NextComment ==
    /\ pc = "next"
    /\ LET r == Scan(sc) IN
       /\ r.t.kind = "COMMENT"
       /\ sc' = r.s
       /\ comments' = Append(comments, r.t)
       /\ hist' = Append(hist, r.t)
    /\ UNCHANGED <<src, tok, pc, lead, lits, levels, skipped>>

\* Mutant: the index of the new literal is off by one.
PushAtZero(t) ==
    /\ lits' = Append(lits, NoPos)
    /\ levels' = Append(levels, [index |-> Len(lits), start |-> t.at])

\* nextTgoTemplate, parseTemplateLiteral: a place for the literal that starts
\* at token t.
Push(t) ==
    /\ lits' = Append(lits, NoPos)
    /\ levels' = Append(levels, [index |-> Len(lits) + 1, start |-> t.at])

\* next0 finds a token.  At the start of a template literal, next goes on to
\* the first token of its first expression.
NextToken ==
    /\ pc = "next"
    /\ LET r == Scan(sc) IN
       /\ r.t.kind # "COMMENT"
       /\ sc' = r.s
       /\ tok' = r.t
       /\ hist' = Append(hist, r.t)
       /\ lead' = LeadComment(comments, r.t)
       /\ IF r.t.kind = "STRING_TEMPLATE"
          THEN Push(r.t) /\ pc' = "next"
          ELSE pc' = "parse" /\ UNCHANGED <<lits, levels>>
    /\ comments' = <<>>
    /\ UNCHANGED <<src, skipped>>

-----------------------------------------------------------------------------
(* What the parser may do.                                                 *)

\* It goes on to the next token.  To skip a template literal is an error: an
\* expression has none (parseOperand, expectSemi), so advance passes over it.
Consume ==
    /\ pc = "parse" /\ tok.kind # EOF
    /\ pc' = "next"
    /\ skipped' = (skipped \/ tok.kind = "STRING_TEMPLATE")
    /\ UNCHANGED <<src, sc, tok, comments, lead, lits, levels, hist>>

\* parseTgoStmt takes the literal for a statement or an attribute, and goes on.
PopTemplate ==
    /\ pc = "parse" /\ tok.kind = "STRING_TEMPLATE"
    /\ lits' = Front(lits)
    /\ pc' = "next"
    /\ UNCHANGED <<src, sc, tok, comments, lead, levels, hist, skipped>>

\* parseTgoOpenTag, parseTgoCloseTag, at the token that ends the tag.  (With a
\* tag that lacks its `>`, that may be any token; but Scan forgets the flag.)
AllowInsertSemiAfterGTR ==
    /\ pc = "parse" /\ ~sc.allow
    /\ tok.kind \in {"GTR", "RBRACE", EOF}
    /\ sc' = [sc EXCEPT !.allow = TRUE]
    /\ hist' = [hist EXCEPT ![Len(hist)].closes = TRUE]
    /\ UNCHANGED <<src, tok, pc, comments, lead, lits, levels, skipped>>

\* Mutant: a literal takes the place of the one it is in.
SetFirst(ls, i, start) == [ls EXCEPT ![1] = start]

\* p.templateLit[i] = ..., with the slice as it is after the call.
SetLit(ls, i, start) == [ls EXCEPT ![i] = start]

\* Mutant: the literal goes on after the first character of the token.
ContinueAtToken ==
    LET p   == Min({tok.at + 1, Size + 1})
        str == scanString(p)
    IN  [t |-> Token(str[1], p, str[2]),
         s |-> [NoSemi(str[2]) EXCEPT !.insertSemi = (str[1] = "STRING")]]

\* TemplateLiteralContinue: a piece, from where the scanner is.
TemplateLiteralContinue ==
    LET str == scanString(sc.pos)
    IN  [t |-> Token(str[1], sc.pos, str[2]),
         s |-> [NoSemi(str[2]) EXCEPT !.insertSemi = (str[1] = "STRING"),
                                      !.nlPos = sc.nlPos]]

EndPiece(r) ==
    LET level == Last(levels)
    IN  /\ sc' = r.s
        /\ hist' = Append(hist, r.t)
        /\ IF r.t.kind = "STRING_TEMPLATE"
           THEN /\ tok' = r.t /\ pc' = "next"
                /\ UNCHANGED <<lits, levels>>
           ELSE /\ tok' = Token("STRING_TEMPLATE", level.start, level.start)
                /\ pc' = "parse"
                /\ lits' = SetLit(lits, level.index, level.start)
                /\ levels' = Front(levels)
        /\ skipped' = (skipped \/ tok.kind = "STRING_TEMPLATE")
        /\ UNCHANGED <<src, comments, lead>>

\* Mutant: the parser waits for the `}`.
EndAtBrace == pc = "parse" /\ levels # <<>> /\ tok.kind = "RBRACE" /\ EndPiece(TemplateLiteralContinue)

\* parseTemplateLiteral: parseExpr returns, at a `}` or with an error at any
\* other token.  The literal has another part, or it is finished: then tok is
\* its STRING_TEMPLATE again.
EndPart == pc = "parse" /\ levels # <<>> /\ EndPiece(TemplateLiteralContinue)

Next ==
    NextComment \/ NextToken \/ Consume \/ PopTemplate \/ AllowInsertSemiAfterGTR \/ EndPart

Spec == Init /\ [][Next]_vars

\* The parser returns: each loop of it makes progress.
FairSpec == Spec /\ WF_vars(Next)

-----------------------------------------------------------------------------
(* Properties.                                                             *)

Kinds == {"ILLEGAL", "IDENT", "STRING", "STRING_TEMPLATE", "SEMICOLON", "COMMENT",
          "LSS", "GTR", "END_TAG", "SHL", "SHR", "LBRACE", "RBRACE", "QUO", "MUL", EOF}
IsToken(t) ==
    t.kind \in Kinds /\ t.at \in 0 .. Size + 1 /\ t.end \in t.at .. Size + 1

\* Positions lie in the file, each literal being parsed has a place on the
\* stack, and the parser never looks at a token while a newline of a comment
\* waits to become a semicolon.
TypeOK ==
    /\ sc.pos \in 1 .. Size + 1 /\ sc.nlPos \in 0 .. Size
    /\ {sc.insertSemi, sc.allow, sc.prevGTR, skipped} \subseteq BOOLEAN
    /\ pc \in {"next", "parse"} /\ (pc = "parse" => sc.nlPos = NoPos)
    /\ IsToken(tok)
    /\ hist # <<>> => IsToken(Last(hist))
    /\ \A c \in Range(comments \o lead) : IsToken(c) /\ c.kind = "COMMENT"
    /\ lits \in Seq(0 .. Size)
    /\ \A l \in Range(levels) : l.index \in 1 .. Len(lits) /\ l.start \in 1 .. Size

\* Does a newline after t end the statement?  `>` does at the end of a tag.
NeedsSemi(t) == t.kind \in {"IDENT", "STRING", "RBRACE"} \/ (t.kind = "GTR" /\ t.closes)

\* The last token before t, the end of hist; comments and illegal characters
\* are none.
Before ==
    LET S == {m \in 1 .. Len(hist) - 1 : hist[m].kind \notin {"COMMENT", "ILLEGAL"}}
    IN  IF S = {} THEN Token("none", 1, 1) ELSE hist[Max(S)]

\* A semicolon is inserted for the first newline, or the end of the file,
\* after a token that needs one, never elsewhere: through comments of either
\* form, illegal characters, and the flag that the parser sets for a `>` after
\* the scanner has read it.
SemicolonRule ==
    hist # <<>> =>
        LET t == Last(hist)
        IN  IF t.auto
            THEN /\ NeedsSemi(Before)
                 /\ Ch(t.at) \in {"\n", EOF}
                 /\ Newlines(Before.end, t.at) = {}
            ELSE t.kind \notin {"COMMENT", "ILLEGAL"} /\ NeedsSemi(Before) =>
                    t.kind # EOF /\ Newlines(Before.end, t.at) = {}

\* The tokens, comments and pieces of literals follow one another in the file,
\* with nothing but white space in between: also where the parser switches the
\* scanner into the middle of a string, with a token already read.
NoTextLost ==
    hist # <<>> /\ ~Last(hist).auto =>
        LET from == Max({1} \cup {t.end : t \in {t \in Range(Front(hist)) : ~t.auto}})
        IN  from <= Last(hist).at /\ \A p \in from .. Last(hist).at - 1 : src[p] \in {" ", "\n"}

\* The literal that parseTgoStmt pops for a STRING_TEMPLATE is finished ("TODO:
\* figure out if this can happen"), and it is the literal of this token unless
\* an error has left another one on the stack.
TopIsReady ==
    pc = "parse" /\ tok.kind = "STRING_TEMPLATE" =>
        /\ lits # <<>> /\ Last(lits) # NoPos
        /\ ~skipped => Last(lits) = tok.at

\* "A lead comment is a comment group that starts and ends in a line without
\* any other tokens and that is followed by a non-comment token on the line
\* immediately after the comment group": no token that is in the file shares a
\* line with it.
LeadIsAlone ==
    lead # <<>> =>
        LET lines == Line(lead[1].at) .. EndLine(Last(lead))
        IN  /\ tok.at > Last(lead).at => Line(tok.at) = EndLine(Last(lead)) + 1
            /\ \A t \in Range(hist) :
                  t.auto \/ t.kind \in {"COMMENT", EOF} \/
                  (Line(t.at) .. EndLine(t)) \cap lines = {}

\* Whatever the parser makes of it, each template literal comes to its end, at
\* the latest at the end of the file, and so does the file.
Done == pc = "parse" /\ tok.kind = EOF /\ levels = <<>>
Finishes == <>Done
==============================================================================
