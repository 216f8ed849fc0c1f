-------------------------------- MODULE Output --------------------------------
(***************************************************************************)
(* What the printer writes (printer/printer.go): the tokens that nodes.go  *)
(* gives it, the white space that is delayed until the next token, and     *)
(* among it the comments of the source, each before the first token that   *)
(* is behind it.                                                           *)
(*                                                                         *)
(* A text is a sequence of tokens, comments, blanks and newlines; each is  *)
(* one character wide. Newlines and formfeeds are not told apart, neither  *)
(* are the widths of blanks; words of comments are not rewritten.          *)
(*                                                                         *)
(* A printer q is a record: at and groups are the positions of the tokens  *)
(* and the comment groups of the source; out is what has been written; ws  *)
(* is wsbuf; pos is the position in the source that the printer is at, and *)
(* last the line of it after the last token or comment; tag has the lines  *)
(* of the tag whose ">" is printed. extraBlank and extraLinebreak are the  *)
(* bits of mode, negated.                                                  *)
(***************************************************************************)
EXTENDS Grammar

LineComments == {"//a", "//b"}
LongComments == {"/*a\n*/", "/*b\n*/"}     \* these have two lines
Comments == LineComments \cup LongComments \cup {"/*a*/", "/*b*/"}
Blanks == {" ", "\t"}
CapWs == 16

\* The scanner inserts a semicolon at the end of a line after these (and after a tag's ">",
\* which the inputs here do not use as an operator).
ImpliesSemi == Idents \cup Literals \cup
    {"t{", "break", "continue", "fallthrough", "return", "++", "--", ")", "]", "}", ">"}

-----------------------------------------------------------------------------
(* The tokens of a text with their positions, and its comment groups: end is *)
(* the last line of the group that is open, gap how many lines further the   *)
(* next comment of the group may begin; lead are the tokens that have a      *)
(* comment directly above.                                                   *)

Start == [toks |-> <<>>, at |-> <<>>, groups |-> <<>>, lead |-> {}, line |-> 1, col |-> 1, off |-> 1,
          semi |-> FALSE, end |-> 0, gap |-> 0, skip |-> FALSE]

Here(sc) == [line |-> sc.line, col |-> sc.col, off |-> sc.off]
Move(sc, n) == [sc EXCEPT !.col = @ + n, !.off = @ + n]

ScanToken(sc, tok) ==
    [sc EXCEPT !.toks = Append(@, tok), !.at = Append(@, Here(sc)), !.end = 0, !.semi = tok \in ImpliesSemi,
               !.lead = IF sc.end > 0 /\ sc.gap = 1 /\ sc.end + 1 = sc.line THEN @ \cup {Len(sc.toks) + 1} ELSE @]
Semicolon(sc) == IF sc.semi THEN ScanToken(sc, "\n") ELSE sc
Newline(sc) == [Semicolon(sc) EXCEPT !.line = @ + 1, !.col = 1, !.off = @ + 1, !.skip = FALSE]

ScanComment(sc, c) ==
    LET behind == sc.end = 0 /\ sc.at # <<>> /\ Last(sc.at).line = sc.line
        joins == sc.end > 0 /\ sc.line <= sc.end + sc.gap
        comment == [text |-> c, at |-> Here(sc)]
        grouped == [sc EXCEPT !.groups = IF joins THEN Append(Front(@), Append(Last(@), comment)) ELSE Append(@, <<comment>>),
                              !.gap = IF joins THEN @ ELSE IF behind THEN 0 ELSE 1,
                              !.end = sc.line + (IF c \in LongComments THEN 1 ELSE 0)]
    IN  CASE c \in LineComments -> [Move(grouped, 1) EXCEPT !.skip = TRUE]
          [] c \in LongComments -> Move(Newline(Move(grouped, 1)), 1)
          [] OTHER -> Move(grouped, 1)

ScanItem(sc, x) ==
    CASE x = "\n" -> Newline(sc)
      [] x # "\n" /\ (sc.skip \/ x \in Blanks) -> Move(sc, 1)
      [] ~sc.skip /\ x \in Comments -> ScanComment(sc, x)
      [] OTHER -> Move(ScanToken(sc, x), 1)

RECURSIVE ScanTo(_, _)
ScanTo(text, n) == IF n = 0 THEN Start ELSE ScanItem(ScanTo(text, n - 1), text[n])
Scan(text) == LET sc == Semicolon(ScanTo(text, Len(text))) IN [sc EXCEPT !.at = Append(@, Here(sc))]

-----------------------------------------------------------------------------
(* The printer.                                                              *)

ZeroPrinter ==
    [at |-> <<>>, groups |-> <<>>, lead |-> {}, cindex |-> 0, out |-> <<>>, ws |-> <<>>,
     pos |-> Nil, last |-> 0, indent |-> 0, level |-> 0, impliedSemi |-> FALSE,
     lastTok |-> "", prevOpen |-> "", extraBlank |-> TRUE, extraLinebreak |-> TRUE, tag |-> Nil,
     negative |-> FALSE, panic |-> FALSE]

\* The comment group cindex is the next one to write.
nextComment(q) == [q EXCEPT !.cindex = @ + 1]

NewPrinter(src) ==
    nextComment([ZeroPrinter EXCEPT !.pos = [line |-> 1, col |-> 1, off |-> 1],
                                    !.at = src.at, !.groups = src.groups, !.lead = src.lead])

lineFor(q, pos) == IF pos = NoPos THEN 0 ELSE q.at[pos].line
setPos(q, pos) == IF pos = NoPos THEN q ELSE [q EXCEPT !.pos = q.at[pos]]

Lines(text) == Cardinality({i \in DOMAIN text : text[i] \in {"\n"} \cup LongComments})
AtLineStart(q) == q.out = <<>> \/ Last(q.out) = "\n"

\* The trimmer removes blanks at the end of a line.
RECURSIVE Trimmed(_)
Trimmed(text) == IF text # <<>> /\ Last(text) \in Blanks THEN Trimmed(Front(text)) ELSE text

Ahead(q, n) == [q EXCEPT !.pos.col = @ + n, !.pos.off = @ + n]
writeIndent(q) ==
    IF AtLineStart(q) THEN Ahead([q EXCEPT !.out = @ \o [i \in 1 .. q.indent |-> "\t"]], q.indent) ELSE q
writeBlank(q) == LET r == writeIndent(q) IN Ahead([r EXCEPT !.out = Append(@, " ")], 1)
writeNewlines(q, n) ==
    LET r == writeIndent(q)
    IN  IF n <= 0 THEN q
        ELSE [r EXCEPT !.out = Trimmed(@) \o [i \in 1 .. n |-> "\n"],
                       !.pos = [line |-> @.line + n, col |-> 1, off |-> @.off + n]]
writeString(q, pos, s) ==
    LET r == [writeIndent(q) EXCEPT !.out = Append(@, s), !.pos = [pos EXCEPT !.col = @ + 1, !.off = @ + 1]]
    IN  [r EXCEPT !.last = r.pos.line]

\* The lines of a comment are indented like the first.
writeComment(q, c) ==
    LET r == writeString(q, c.at, c.text)
        ended == [line |-> r.pos.line + 1, col |-> r.indent + 2, off |-> r.pos.off + r.indent + 2]
    IN  IF c.text \in LongComments THEN [r EXCEPT !.pos = ended, !.last = ended.line] ELSE r

\* An unindent behind a line break goes before it.
Swapped(q, ws) ==
    IF Len(ws) > 1 /\ ws[1] = "\n" /\ ws[2] = "unindent" THEN <<"unindent", "\n">> \o SubSeq(ws, 3, Len(ws)) ELSE ws

RECURSIVE writeEntries(_, _)
writeEntries(q, entries) ==
    LET ws == Swapped(q, entries)
        One == CASE ws[1] = "indent" -> [q EXCEPT !.indent = @ + 1]
                 [] ws[1] = "unindent" /\ q.indent > 0 -> [q EXCEPT !.indent = @ - 1]
                 [] ws[1] = "unindent" /\ q.indent = 0 -> [q EXCEPT !.negative = TRUE]
                 [] ws[1] = "\n" -> writeNewlines(q, 1)
                 [] ws[1] \in {" ", "vtab"} -> writeBlank(q)
                 [] ws[1] = "ignore" -> q
    IN  IF ws = <<>> THEN q ELSE writeEntries(One, Tail(ws))

\* The first n entries of wsbuf.
writeWhitespace(q, n) == [writeEntries(q, SubSeq(q.ws, 1, n)) EXCEPT !.ws = SubSeq(q.ws, n + 1, Len(q.ws))]

-----------------------------------------------------------------------------
(* Comments.                                                                 *)

commentsHaveNewline(list) ==
    \E i \in DOMAIN list : list[i].at.line # list[1].at.line \/ list[i].text \in LineComments \cup LongComments

\* Mutant: a comment goes before the next token although the line ends behind it.
AnyCommentBefore(q, nextAt) == q.cindex <= Len(q.groups) /\ q.groups[q.cindex][1].at.off < nextAt.off

commentBefore(q, nextAt) ==
    /\ q.cindex <= Len(q.groups)
    /\ q.groups[q.cindex][1].at.off < nextAt.off
    /\ ~q.impliedSemi \/ ~commentsHaveNewline(q.groups[q.cindex]) \/ q.tag # Nil

IsLine(prev) == prev # Nil /\ prev.text \in LineComments
EndOfComment(c) == c.at.line + (IF c.text \in LongComments THEN 1 ELSE 0)

\* The entries of wsbuf before the first that stops are written before the comment, without the
\* blanks; if none stops, all stay.
BeforeComment(q, stops, blanks) ==
    LET n == IF stops = {} THEN Len(q.ws) + 1 ELSE Min(stops)
        Kept(i) == IF i < n /\ q.ws[i] \in blanks THEN "ignore" ELSE q.ws[i]
    IN  writeWhitespace([q EXCEPT !.ws = [i \in DOMAIN q.ws |-> Kept(i)]], IF stops = {} THEN 0 ELSE n - 1)

\* The comment is on the line of what was written last.
BehindLast(q, c, nextAt, prev) ==
    LET stops == {i \in DOMAIN q.ws : q.ws[i] \notin {" ", "vtab", "indent"}}
        reached == IF stops = {} THEN Len(q.ws) ELSE Min(stops) - 1
        hasSep == prev = Nil /\ \E i \in 1 .. reached : q.ws[i] = "vtab"
        r == IF prev = Nil THEN BeforeComment(q, stops, {" "}) ELSE q
    IN  IF hasSep THEN r ELSE writeBlank(r)

\* An unindent closes a block unless more follow or the comment is aligned with the next token.
Closes(q, i, c, nextAt, tok) ==
    /\ ~(i < Len(q.ws) /\ q.ws[i + 1] = "unindent")
    /\ (q.tag # Nil /\ tok = ">") \/ tok = "}" \/ c.at.col # nextAt.col

OnItsLine(q, c, nextAt, prev, tok) ==
    LET stops == {i \in DOMAIN q.ws : \/ q.ws[i] \in {"\n", "ignore"}
                                      \/ q.ws[i] = "unindent" /\ Closes(q, i, c, nextAt, tok)}
        broken == stops # {} /\ q.ws[Min(stops)] = "\n"
        a == IF broken THEN [q EXCEPT !.ws[Min(stops)] = "ignore"] ELSE q
        b == BeforeComment(a, stops, {" ", "vtab"})
        lines == IF b.last = 0 THEN 0 ELSE Max({c.at.line - b.last, 0})
        more == lines + (IF b.indent = 0 /\ broken /\ prev = Nil THEN 1 ELSE 0)
        n == IF more = 0 /\ IsLine(prev) THEN 1 ELSE more
    IN  writeNewlines(b, Min({n, 2}))

writeCommentPrefix(q, c, nextAt, prev, tok) ==
    CASE q.out = <<>> -> q
      [] q.out # <<>> /\ c.at.line = q.last /\ ~IsLine(prev) -> BehindLast(q, c, nextAt, prev)
      [] OTHER -> OnItsLine(q, c, nextAt, prev, tok)

\* Of the line breaks that are pending one is kept, if it is needed.
writeCommentSuffix(q, needsLinebreak) ==
    LET breaks == {i \in DOMAIN q.ws : q.ws[i] = "\n"}
        Kept(i) == CASE q.ws[i] \in {"indent", "unindent"} -> q.ws[i]
                     [] q.ws[i] = "\n" /\ needsLinebreak /\ i = Min(breaks) -> "\n"
                     [] OTHER -> "ignore"
        r == writeWhitespace([q EXCEPT !.ws = [i \in DOMAIN q.ws |-> Kept(i)]], Len(q.ws))
    IN  [q |-> IF needsLinebreak /\ breaks = {} THEN writeNewlines(r, 1) ELSE r, wrote |-> needsLinebreak]

\* All comments that are before the next token; a is the printer and the last of them.
RECURSIVE writeComments(_, _, _)
writeComments(a, nextAt, tok) ==
    LET Write(b, c) == [q |-> writeComment(writeCommentPrefix(b.q, c, nextAt, b.last, tok), c), last |-> c]
        written == FoldLeft(Write, a, a.q.groups[a.q.cindex])
    IN  IF commentBefore(a.q, nextAt) THEN writeComments([written EXCEPT !.q = nextComment(@)], nextAt, tok) ELSE a

\* The line ends behind a line comment, and before the end of a block or of the file.
BreaksAfter(q, last, tok) ==
    \/ last.text \in LineComments \/ tok = "EOF" \/ (tok \in {"}", "</"} /\ q.extraLinebreak)

intersperseComments(q0, nextAt, tok) ==
    LET a == writeComments([q |-> q0, last |-> Nil], nextAt, tok)
        q == a.q
        last == a.last
        separates == /\ q.extraBlank /\ last.text \notin LineComments /\ last.at.line = nextAt.line /\ tok # ","
                     /\ tok # ")" \/ q.prevOpen = "("
                     /\ tok # "]" \/ q.prevOpen = "["
        breaks == separates /\ (\E i \in DOMAIN q.ws : q.ws[i] = "\n") /\ q.extraLinebreak /\ q.level = 0
        b == IF separates /\ ~breaks THEN writeBlank(q) ELSE q
        sameLine == q.tag # Nil /\ q.tag.first = EndOfComment(last)
        inTag == q.tag # Nil /\ ~sameLine /\ q.tag.first # q.tag.last
        c == IF sameLine /\ Last(b.out) # " " THEN writeBlank(b) ELSE b
    IN  writeCommentSuffix(c, breaks \/ BreaksAfter(q, last, tok) \/ inTag)

flush(q, nextAt, tok) ==
    IF commentBefore(q, nextAt) THEN intersperseComments(q, nextAt, tok)
    ELSE [q |-> writeWhitespace(q, Len(q.ws)), wrote |-> FALSE]

-----------------------------------------------------------------------------
(* Tokens and white space.                                                   *)

Words == Idents \cup {"1", "package", "import", "const", "type", "var", "func", "struct", "interface", "map",
    "chan", "if", "else", "for", "range", "switch", "select", "case", "default", "go", "defer", "return",
    "break", "continue", "goto", "fallthrough"}

\* Two tokens that would be scanned as another token get a blank between them.
mayCombine(prev, tok) ==
    \/ prev = "1" /\ tok \in {".", "..."}
    \/ prev = "+" /\ tok \in {"+", "++", "+="}
    \/ prev = "-" /\ tok \in {"-", "--"}
    \/ prev = "/" /\ tok = "*"
    \/ prev = "<" /\ tok \in {"-", "<", "<-", "</"}
    \/ prev = "&" /\ tok \in {"&", "&&", "^"}

\* What the scanner would take for one token.
Combine(prev, tok) ==
    \/ prev \in Words /\ tok \in Words
    \/ <<prev, tok>> \in {<<"1", ".">>, <<"1", "...">>, <<"+", "+">>, <<"-", "-">>, <<"/", "*">>,
                          <<"<", "-">>, <<"&", "&">>, <<"&", "^">>}

\* Comments and white space, further line breaks that the source has, and the token.
Put(q, tok) ==
    LET f == flush(q, q.pos, tok)
        extra == IF q.impliedSemi THEN 0 ELSE Min({q.pos.line - f.q.pos.line, IF f.wrote THEN 1 ELSE 2})
        ready == writeIndent(writeNewlines(f.q, extra))
        glued == ready.out # <<>> /\ Combine(Last(ready.out), tok)
        r == IF glued THEN [ready EXCEPT !.out = Front(@)] ELSE ready
    IN  [writeString(r, q.pos, IF glued THEN "ILLEGAL" ELSE tok) EXCEPT
            !.impliedSemi = extra <= 0 /\ tok \in ImpliesSemi \ {">"}]

Entries == {" ", "\n", "vtab", "indent", "unindent"}

\* One token, white space, or a change of the mode.
printItem(q, x) ==
    LET r == [q EXCEPT !.prevOpen = CASE q.lastTok = "" -> @ [] q.lastTok \in {"(", "["} -> q.lastTok [] OTHER -> ""]
        full == IF Len(r.ws) = CapWs THEN writeWhitespace(r, CapWs) ELSE r
    IN  CASE x = "noExtraBlank" -> [r EXCEPT !.extraBlank = ~@]
          [] x = "noExtraLinebreak" -> [r EXCEPT !.extraLinebreak = ~@]
          [] x = "ignore" -> r
          [] x \in Entries -> [full EXCEPT !.ws = Append(@, x), !.lastTok = "", !.impliedSemi = @ /\ x # "\n"]
          [] OTHER -> Put([r EXCEPT !.ws = IF mayCombine(r.lastTok, x) THEN <<" ">> ELSE @, !.lastTok = x], x)

RECURSIVE print(_, _)
print(q, items) == IF q.panic \/ items = <<>> THEN q ELSE print(printItem(q, items[1]), Tail(items))

\* nodeSize: is what fits when it is printed alone on one line? Comments are not printed then.
Alone(q) == NewPrinter([at |-> q.at, groups |-> <<>>, lead |-> {}])
OneLine(q) == Lines(q.out) = 0 /\ "\n" \notin {q.ws[i] : i \in DOMAIN q.ws}
================================================================================
