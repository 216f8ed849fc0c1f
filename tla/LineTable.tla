------------------------------ MODULE LineTable ------------------------------
(***************************************************************************)
(* The table of lines of a file (token/position.go) and its serialization  *)
(* (token/serialize.go).                                                   *)
(*                                                                         *)
(* A table is a slice: an array of the heap and a length. Slices share     *)
(* arrays: Lines returns the table itself, SetLines keeps the slice of its *)
(* caller, which may be the table of another file (the importer gives all  *)
(* files prefixes of one array), AddLine appends in place when the array   *)
(* has room, and MergeLine shifts entries in place. A state st has the     *)
(* heap, the files, and the slices that callers hold.                      *)
(***************************************************************************)
EXTENDS Integers, Sequences, FiniteSets, SequencesExt

Slice(array, len) == [array |-> array, len |-> len]
Nil == Slice(1, 0)                      \* its array, the first of the heap, has no entries
Content(st, slice) == SubSeq(st.heap[slice.array], 1, slice.len)
lineInfo(offset, name, line, column) == [offset |-> offset, name |-> name, line |-> line, column |-> column]

File(name, base, size) == [name |-> name, base |-> base, size |-> size, lines |-> Nil, infos |-> <<>>]
State(files) == [heap |-> <<<<>>>>, files |-> files, held |-> <<>>, panics |-> FALSE]
lines(st, i) == Content(st, st.files[i].lines)
Panic(st) == [st EXCEPT !.panics = TRUE]

\* The slice is a new array that holds table; room is how many entries more it has.
Allocate(st, table, room) == [st EXCEPT !.heap = Append(@, table \o [k \in 1 .. room |-> 0])]
Newest(st, len) == Slice(Len(st.heap), len)
\* Go's append: in place if there is room, to an array of twice the size otherwise.
WithAppended(st, i, x) ==
    LET s == st.files[i].lines
        grown == Allocate(st, Append(Content(st, s), x), IF s.len = 0 THEN 0 ELSE s.len - 1)
    IN IF s.len < Len(st.heap[s.array])
       THEN [st EXCEPT !.heap[s.array][s.len + 1] = x, !.files[i].lines.len = @ + 1]
       ELSE [grown EXCEPT !.files[i].lines = Newest(grown, s.len + 1)]

LineCount(st, i) == st.files[i].lines.len

AddLine(st, i, offset) ==
    LET table == lines(st, i)
    IN IF (table = <<>> \/ table[Len(table)] < offset) /\ offset < st.files[i].size
       THEN WithAppended(st, i, offset) ELSE st

\* Mutant: removes the entry of the line itself.
MergePrevious(st, i, line) ==
    IF line < 1 \/ line >= LineCount(st, i) THEN Panic(st)
    ELSE LET s == st.files[i].lines
         IN [st EXCEPT !.heap[s.array] = [k \in DOMAIN @ |-> IF k \in line .. s.len - 1 THEN @[k + 1] ELSE @[k]],
                       !.files[i].lines.len = @ - 1]
\* The entries after the next line's are shifted in the array: whoever holds it sees that.
MergeLine(st, i, line) ==
    IF line < 1 \/ line >= LineCount(st, i) THEN Panic(st)
    ELSE LET s == st.files[i].lines
         IN [st EXCEPT !.heap[s.array] = [k \in DOMAIN @ |-> IF k \in line + 1 .. s.len - 1 THEN @[k + 1] ELSE @[k]],
                       !.files[i].lines.len = @ - 1]

\* The caller holds the table.
Lines(st, i) == [st EXCEPT !.held = Append(@, st.files[i].lines)]

\* The file keeps the slice of the caller.
SetLines(st, i, slice) ==
    LET table == Content(st, slice)
    IN IF \E k \in DOMAIN table : (k > 1 /\ table[k] <= table[k - 1]) \/ st.files[i].size <= table[k]
       THEN st
       ELSE [st EXCEPT !.files[i].lines = slice]

\* The content is a sequence of bytes of which only newlines matter.
SetLinesForContent(st, i, content) ==
    LET Byte(acc, k) == [table |-> IF acc.line >= 0 THEN Append(acc.table, acc.line) ELSE acc.table,
                         line |-> IF content[k] THEN k ELSE -1]
        set == Allocate(st, FoldLeftDomain(Byte, [table |-> <<>>, line |-> 0], content).table, 0)
    IN [set EXCEPT !.files[i].lines = Newest(set, Len(set.heap[Len(set.heap)]))]

AddLineColumnInfo(st, i, info) ==
    LET infos == st.files[i].infos
    IN IF (infos = <<>> \/ infos[Len(infos)].offset < info.offset) /\ info.offset < st.files[i].size
       THEN [st EXCEPT !.files[i].infos = Append(@, info)] ELSE st
AddLineInfo(st, i, info) == AddLineColumnInfo(st, i, [info EXCEPT !.column = 1])

-----------------------------------------------------------------------------
(* Positions.                                                                *)

\* The index of the last entry of a sorted table that is at most x, or 0: a binary search.
searchInts(a, x) ==
    LET search[i \in 1 .. Len(a) + 1, j \in 1 .. Len(a) + 1] ==
            LET h == (i + j) \div 2
            IN IF i >= j THEN i - 1 ELSE IF a[h] <= x THEN search[h + 1, j] ELSE search[i, h]
    IN search[1, Len(a) + 1]
searchLineInfos(a, x) ==
    LET at == CHOOSE k \in 1 .. Len(a) + 1 :        \* slices.BinarySearchFunc
                  (\A l \in 1 .. k - 1 : a[l].offset < x) /\ (\A l \in k .. Len(a) : a[l].offset >= x)
    IN IF at \in DOMAIN a /\ a[at].offset = x THEN at ELSE at - 1

fixOffset(f, offset) == IF offset < 0 THEN 0 ELSE IF offset > f.size THEN f.size ELSE offset
Pos(f, offset) == f.base + fixOffset(f, offset)
Offset(f, p) == fixOffset(f, p - f.base)

Position(name, offset, line, column) == [name |-> name, offset |-> offset, line |-> line, column |-> column]
NoPosition == Position("", 0, 0, 0)

\* The position, d lines below a directive alt.
Relative(pos, alt, d) ==
    [pos EXCEPT !.line = alt.line + d,
                !.column = IF alt.column = 0 THEN 0
                           ELSE IF d = 0 THEN alt.column + (pos.offset - alt.offset) ELSE @]
unpack(st, i, offset, adjusted) ==
    LET f == st.files[i]
        table == lines(st, i)
        at == searchInts(table, offset)
        pos == IF at > 0 THEN Position(f.name, offset, at, offset - table[at] + 1)
               ELSE Position(f.name, offset, 0, 0)
        alt == IF adjusted THEN searchLineInfos(f.infos, offset) ELSE 0
        of == searchInts(table, f.infos[alt].offset)
    IN IF alt = 0 THEN pos
       ELSE [(IF of = 0 THEN pos ELSE Relative(pos, f.infos[alt], pos.line - of)) EXCEPT !.name = f.infos[alt].name]
position(st, i, p, adjusted) == unpack(st, i, Offset(st.files[i], p), adjusted)

\* FileSet.PositionFor; the files' intervals are disjoint.
PositionFor(st, p, adjusted) ==
    LET of == {i \in DOMAIN st.files : p \in st.files[i].base .. st.files[i].base + st.files[i].size}
    IN IF p = 0 \/ of = {} THEN NoPosition ELSE position(st, CHOOSE i \in of : TRUE, p, adjusted)

LineStart(st, i, line) == st.files[i].base + lines(st, i)[line]

-----------------------------------------------------------------------------
(* Serialization.                                                            *)

\* What is encoded has tables of its own.
Write(st) == [i \in DOMAIN st.files |-> [st.files[i] EXCEPT !.lines = lines(st, i)]]
\* The file set becomes the one that was encoded; who held tables still does.
Read(st, written) ==
    LET Decode(acc, i) == LET on == Allocate(acc, written[i].lines, 0)
                          IN [on EXCEPT !.files = Append(@, [written[i] EXCEPT !.lines = Newest(on, Len(written[i].lines))])]
    IN FoldLeftDomain(Decode, [st EXCEPT !.files = <<>>], written)

-----------------------------------------------------------------------------
(* What is promised of a sequence of calls.                                  *)

Call(op, file, n, arg) == [op |-> op, file |-> file, n |-> n, arg |-> arg]
Do(st, c) ==
    CASE c.op = "AddLine" -> AddLine(st, c.file, c.n)
      [] c.op = "MergeLine" -> MergeLine(st, c.file, c.n)
      [] c.op = "Lines" -> Lines(st, c.file)
      [] c.op = "SetHeld" -> IF st.held = <<>> THEN st ELSE SetLines(st, c.file, st.held[Len(st.held)])
      [] c.op = "SetPrefix" -> LET set == Allocate(st, c.arg, 0)      \* all but n entries of an array
                               IN Lines(SetLines(set, c.file, Newest(set, Len(c.arg) - c.n)), c.file)
      [] c.op = "SetLinesForContent" -> SetLinesForContent(st, c.file, c.arg)
      [] c.op = "AddLineColumnInfo" -> AddLineColumnInfo(st, c.file, c.arg)
      [] c.op = "AddLineInfo" -> AddLineInfo(st, c.file, c.arg)
      [] c.op = "Serialize" -> Read(st, Write(st))

(* Without slices: a file has a set of starts of lines. Whoever holds a      *)
(* table, another file or a caller, has what the table was; except that     *)
(* entries of shared arrays may be overwritten, which is what spoils a slice. *)
Table(starts) == SetToSortSeq(starts, <)
Overlaps(s, of, from) == s.array = of.array /\ s.len >= from
\* The sets after a call; panics only if the line is none.
SetsAfter(sets, st, c) ==
    LET mine == sets[c.file]
        size == st.files[c.file].size
        Valid(table) == \A k \in DOMAIN table : table[k] < size /\ (k > 1 => table[k - 1] < table[k])
        next ==
            CASE c.op = "AddLine" -> IF c.n < size /\ \A s \in mine : s < c.n THEN mine \cup {c.n} ELSE mine
              [] c.op = "MergeLine" -> mine \ {Table(mine)[c.n + 1]}
              [] c.op = "SetHeld" -> IF st.held # <<>> /\ Valid(Content(st, st.held[Len(st.held)]))
                                     THEN ToSet(Content(st, st.held[Len(st.held)])) ELSE mine
              [] c.op = "SetPrefix" -> LET given == SubSeq(c.arg, 1, Len(c.arg) - c.n)
                                       IN IF Valid(given) THEN ToSet(given) ELSE mine
              [] c.op = "SetLinesForContent" -> {o \in 0 .. Len(c.arg) - 1 : o = 0 \/ c.arg[o]}
              [] OTHER -> mine
    IN [sets EXCEPT ![c.file] = next]
\* The slices whose entries the call overwrites, if they are those of others.
Overwrites(st, c, slice) ==
    LET s == st.files[c.file].lines
    IN \/ c.op = "MergeLine" /\ Overlaps(slice, s, c.n + 1)
       \/ c.op = "AddLine" /\ s.len < Len(st.heap[s.array]) /\ Overlaps(slice, s, s.len + 1)

\* Walks the text from a directive, or from the start of the file, to the offset.
Walked(starts, from, line, column, to) ==
    LET Byte(at, k) == IF from + k \in starts THEN [line |-> at.line + 1, column |-> IF column = 0 THEN 0 ELSE 1]
                       ELSE [at EXCEPT !.column = IF column = 0 \/ at.line = 0 THEN 0 ELSE @ + 1]
    IN FoldLeftDomain(Byte, [line |-> line, column |-> column], [k \in 1 .. to - from |-> 0])
\* Positions of the file, from the starts of its lines.
PositionsFollow(st, i, starts) ==
    LET f == st.files[i]
    IN \A o \in -1 .. f.size + 1 :
          LET offset == Offset(f, f.base + o)
              plain == Walked(starts, -1, 0, 1, offset)
              before == {k \in DOMAIN f.infos : f.infos[k].offset <= offset}
              alt == f.infos[CHOOSE k \in before : before \subseteq 1 .. k]
              there == (\E s \in starts : s <= alt.offset)
              walk == IF before = {} \/ ~there THEN plain
                      ELSE LET w == Walked(starts, alt.offset, alt.line, alt.column, offset) IN w
          IN /\ offset = (IF o < 0 THEN 0 ELSE IF o > f.size THEN f.size ELSE o)
             /\ Offset(f, Pos(f, o)) = offset
             /\ LET got == PositionFor(st, f.base + offset, FALSE)
                IN /\ got.line = plain.line /\ (got.line > 0 => got.column = plain.column)
                   /\ got.line > 0 => LineStart(st, i, got.line) + got.column - 1 = f.base + offset
             /\ LET got == PositionFor(st, f.base + offset, TRUE)
                IN /\ got.name = (IF before = {} THEN f.name ELSE alt.name)
                   /\ got.line = walk.line /\ (plain.line > 0 => got.column = walk.column)

\* A table has the starts of the lines that the calls on its file gave it, in order,
\* whatever arrays it shares (position.go:53-76), but for entries of shared arrays that
\* a merged line moved or an added one took. So what a caller holds stays what it was
\* until then (Lines, position.go:126), and offsets, lines and columns are those of the
\* text, from the last line directive on.
TablesAreTheirs(calls, files) ==
    LET Step(acc, k) ==
            LET c == calls[k]
                st == acc.st
                ends == st.panics \/ (c.op = "MergeLine" /\ c.n \notin 1 .. LineCount(st, c.file) - 1)
                              \/ acc.spoilt[c.file]
                after == Do(st, c)
                sets == SetsAfter(acc.sets, st, c)
                Fresh(i) == c.op = "Serialize" \/ (c.op \in {"SetHeld", "SetPrefix", "SetLinesForContent"} /\ i = c.file)
                spoilt == [i \in DOMAIN files |->
                              (acc.spoilt[i] /\ ~Fresh(i)) \/ (i # c.file /\ Overwrites(st, c, st.files[i].lines))]
                keeps == {h \in DOMAIN acc.keeps : ~Overwrites(st, c, st.held[h])}
            IN IF ends THEN [acc EXCEPT !.ok = @ /\ (c.op = "MergeLine" /\ ~acc.spoilt[c.file] => after.panics)]
               ELSE [st |-> after, sets |-> sets, spoilt |-> spoilt,
                     keeps |-> [h \in keeps |-> acc.keeps[h]]
                               @@ (IF Len(after.held) > Len(st.held)
                                   THEN Len(after.held) :> Content(after, after.held[Len(after.held)]) ELSE <<>>),
                     ok |-> /\ acc.ok /\ ~after.panics
                            /\ \A i \in DOMAIN files :
                                  ~spoilt[i] => /\ lines(after, i) = Table(sets[i])
                                                /\ k = Len(calls) => PositionsFollow(after, i, sets[i])
                            /\ \A h \in keeps : Content(after, after.held[h]) = acc.keeps[h]]
    IN FoldLeftDomain(Step, [st |-> State(files), sets |-> [i \in DOMAIN files |-> {}],
                             spoilt |-> [i \in DOMAIN files |-> FALSE], keeps |-> <<>>, ok |-> TRUE], calls).ok
==============================================================================
