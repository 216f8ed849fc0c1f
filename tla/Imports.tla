------------------------------ MODULE Imports ------------------------------
(***************************************************************************)
(* Sorting the imports of a file (ast/import.go).                          *)
(*                                                                         *)
(* A block of imports is a sequence of lines, after the line of "import (" *)
(* and before that of ")". A line has some specs, a comment to the left    *)
(* and one to the right of them; 0 is no comment. Specs and comments have  *)
(* positions, which are rewritten: line and offset decide what belongs     *)
(* together when the file is printed. Duplicates are removed with their    *)
(* lines, in the table of the file (LineTable). A state st has the table,  *)
(* the specs of the block and the comments of the file.                    *)
(***************************************************************************)
EXTENDS Integers, Sequences, FiniteSets, SequencesExt

T == INSTANCE LineTable

Width == 8      \* offsets of a line: a comment at 1, specs at 2 and 4, a comment at 6
Line(left, specs, right) == [left |-> left, specs |-> specs, right |-> right]
Spec(path, name) == [path |-> path, name |-> name]

\* An import spec; comment is the index of the comment to its right, endPos what the parser leaves 0.
ImportSpec(s, pos, comment) == [path |-> s.path, name |-> s.name, pos |-> pos, endPos |-> 0, comment |-> comment]
End(s) == IF s.endPos # 0 THEN s.endPos ELSE s.pos + 1
Comment(text, slash) == [text |-> text, slash |-> slash]

\* What is parsed from the lines.
Parsed(block) ==
    LET Start(k) == 1 + k * Width       \* base and first line
        Add(st, k) ==
            LET l == block[k]
                WithLeft == IF l.left = 0 THEN st.comments ELSE Append(st.comments, Comment(l.left, Start(k) + 1))
                all == IF l.right = 0 THEN WithLeft ELSE Append(WithLeft, Comment(l.right, Start(k) + 6))
            IN [st EXCEPT !.comments = all,
                          !.specs = @ \o [i \in DOMAIN l.specs |->
                              ImportSpec(l.specs[i], Start(k) + 2 * i,
                                         IF i = Len(l.specs) /\ l.right # 0 THEN Len(all) ELSE 0)]]
        count == Len(block) + 2
    IN FoldLeftDomain(Add,
           [table |-> FoldLeftDomain(LAMBDA t, k : T!AddLine(t, 1, (k - 1) * Width),
                                     T!State(<<T!File("f", 1, count * Width)>>), [k \in 1 .. count |-> 0]),
            specs |-> <<>>, comments |-> <<>>, rparen |-> Start(count - 1)], block)

lineAt(st, pos) == T!PositionFor(st.table, pos, FALSE).line
LineStart(st, line) == T!LineStart(st.table, 1, line)
MergeLine(st, line) == [st EXCEPT !.table = T!MergeLine(@, 1, line)]
importComment(st, s) == IF s.comment = 0 THEN 0 ELSE st.comments[s.comment].text

\* Whether prev may be removed, leaving only next.
collapse(prev, next) == next.path = prev.path /\ next.name = prev.name /\ prev.comment = 0

Before(st, a, b) ==
    \/ a.path < b.path
    \/ a.path = b.path /\ a.name < b.name
    \/ a.path = b.path /\ a.name = b.name /\ importComment(st, a) < importComment(st, b)
\* A stable sort: slices.SortFunc inserts in order, up to a dozen elements.
Sorted(seq, Less(_, _)) ==
    FoldLeft(LAMBDA acc, x : LET k == Cardinality({i \in DOMAIN acc : ~Less(x, acc[i])})
                             IN InsertAt(acc, k + 1, x), <<>>, seq)

\* The comments of the lines of the specs, by their indices.
InRange(st, specs) ==
    LET last == specs[Len(specs)]
        endLine == lineAt(st, End(last))
        beg == LineStart(st, lineAt(st, specs[1].pos))
        end == IF endLine = T!LineCount(st.table, 1) THEN End(last) ELSE LineStart(st, endLine + 1)
        before == {i \in DOMAIN st.comments : \A j \in 1 .. i : st.comments[j].slash + 1 < end}
    IN {i \in before : beg <= st.comments[i].slash}

\* Mutant: a comment to the left of a spec is taken for one to the right of the spec before.
OwnerRight(st, specs, i) ==
    [spec |-> CHOOSE k \in DOMAIN specs : (k = 1 \/ specs[k].pos <= st.comments[i].slash)
                                           /\ \A m \in k + 1 .. Len(specs) : specs[m].pos > st.comments[i].slash,
     left |-> st.comments[i].slash < specs[1].pos]
\* The spec, by its index, that the comment i belongs to, and the side.
Owner(st, specs, i) ==
    LET g == st.comments[i].slash
        k == CHOOSE k \in DOMAIN specs : (k = 1 \/ specs[k].pos <= g) /\ \A m \in k + 1 .. Len(specs) : specs[m].pos > g
    IN CASE k = 1 /\ specs[1].pos > g -> [spec |-> 1, left |-> TRUE]
         [] k < Len(specs) /\ lineAt(st, specs[k].pos) + 1 = lineAt(st, g) -> [spec |-> k + 1, left |-> TRUE]
         [] OTHER -> [spec |-> k, left |-> FALSE]

\* Sorts the specs of a run, and returns them in st.sorted.
sortSpecs(st, specs) ==
    LET pos == [i \in DOMAIN specs |-> [start |-> specs[i].pos, end |-> End(specs[i])]]
        comments == InRange(st, specs)
        owned == [i \in comments |-> Owner(st, specs, i)]
        order == Sorted([i \in DOMAIN specs |-> i], LAMBDA a, b : Before(st, specs[a], specs[b]))
        kept == SelectSeq([i \in DOMAIN order |-> i],
                          LAMBDA i : i = Len(order) \/ ~collapse(specs[order[i]], specs[order[i + 1]]))
        \* The line of a removed one is merged with the next.
        Drop(acc, i) == IF Contains(kept, i) \/ acc.table.panics THEN acc
                        ELSE MergeLine(acc, lineAt(acc, specs[order[i]].pos))
        merged == FoldLeftDomain(Drop, st, order)
        deduped == [n \in DOMAIN kept |-> order[kept[n]]]
        Place(n) == [specs[deduped[n]] EXCEPT !.pos = pos[n].start, !.endPos = pos[n].end]
        Moved(i) == LET n == SelectInSeq(deduped, LAMBDA k : k = owned[i].spec)
                    IN IF n = 0 THEN st.comments[i]
                       ELSE [st.comments[i] EXCEPT !.slash = IF owned[i].left THEN pos[n].start - 1 ELSE pos[n].end]
        placed == [i \in DOMAIN st.comments |-> IF i \in comments THEN Moved(i) ELSE st.comments[i]]
        sequence == Sorted([i \in DOMAIN placed |-> i],
                           LAMBDA a, b : a \in comments /\ b \in comments /\ placed[a].slash < placed[b].slash)
        Index(c) == IF c = 0 THEN 0 ELSE SelectInSeq(sequence, LAMBDA k : k = c)
        Renamed(list) == [n \in DOMAIN list |-> [list[n] EXCEPT !.comment = Index(@)]]
    IN IF Len(specs) <= 1 THEN [st EXCEPT !.sorted = @ \o specs]
       ELSE [merged EXCEPT !.comments = [i \in DOMAIN placed |-> placed[sequence[i]]],
                           !.specs = Renamed(@),
                           !.sorted = Renamed(@ \o [n \in DOMAIN deduped |-> Place(n)])]

\* Sorts the runs of successive lines, and removes blank lines before ")".
SortImports(parsed) ==
    LET Run(acc, j) ==
            LET s == acc.specs[j]
            IN IF j > acc.i /\ lineAt(acc, s.pos) > 1 + lineAt(acc, End(acc.specs[j - 1]))
               THEN [sortSpecs(acc, SubSeq(acc.specs, acc.i, j - 1)) EXCEPT !.i = j] ELSE acc
        runs == FoldLeftDomain(Run, [i |-> 1, sorted |-> <<>>] @@ parsed, parsed.specs)
        all == sortSpecs(runs, SubSeq(runs.specs, runs.i, Len(runs.specs)))
        lastLine == lineAt(all, all.sorted[Len(all.sorted)].pos)
        rparen == lineAt(all, all.rparen)
        Blank(acc, k) == IF acc.table.panics THEN acc ELSE MergeLine(acc, rparen - k)
    IN IF all.sorted = <<>> THEN all
       ELSE FoldLeftDomain(Blank, all, [k \in 1 .. rparen - lastLine - 1 |-> 0])

-----------------------------------------------------------------------------
(* What is promised.                                                         *)

\* The specs of each run, in the order of the file.
Runs(block) ==
    LET Next(acc, k) == IF block[k].specs = <<>> THEN [acc EXCEPT !.open = FALSE]
                        ELSE [open |-> TRUE, runs |-> IF acc.open THEN [acc.runs EXCEPT ![Len(acc.runs)] = Append(@, k)]
                                                      ELSE Append(acc.runs, <<k>>)]
    IN FoldLeftDomain(Next, [open |-> FALSE, runs |-> <<>>], block).runs

\* What a reader sees of an import: path and name, the comments that are beside it.
Seen(path, name, left, right) == [path |-> path, name |-> name, left |-> left, right |-> right]
SeenBefore(a, b) ==
    \/ a.path < b.path
    \/ a.path = b.path /\ a.name < b.name
    \/ a.path = b.path /\ a.name = b.name /\ a.right < b.right
Sought(block, run) ==
    Sorted([n \in DOMAIN run |-> LET l == block[run[n]] IN Seen(l.specs[1].path, l.specs[1].name, l.left, l.right)],
           SeenBefore)
\* One without a comment to the right is removed if it is there again.
IsDouble(sought, n) ==
    \E m \in n + 1 .. Len(sought) : /\ sought[n].right = 0
                                   /\ sought[m].path = sought[n].path /\ sought[m].name = sought[n].name

\* Sorting imports sorts the runs of successive lines and removes those that are there
\* again, "when it is possible to do so without data loss" (import.go:16): each of the others
\* has its comments, where they were, on its line; the only comments it gets are from one
\* that was removed. Runs stay apart, no blank line comes into one or before ")", and
\* nothing panics.
ImportsAreSorted(block) ==
    LET st == SortImports(Parsed(block))
        runs == Runs(block)
        sought == [k \in DOMAIN runs |-> Sought(block, runs[k])]
        wanted == FlattenSeq([k \in DOMAIN runs |->
                      SelectSeq([n \in DOMAIN sought[k] |-> [of |-> sought[k][n], run |-> k, double |-> IsDouble(sought[k], n)]],
                                LAMBDA w : ~w.double)])
        doubles == UNION {{sought[k][n].left : n \in {x \in DOMAIN sought[k] : IsDouble(sought[k], x)}} : k \in DOMAIN runs}
        line == [n \in DOMAIN st.sorted |-> lineAt(st, st.sorted[n].pos)]
        Between(n, from, to) ==
            {st.comments[i].text : i \in {c \in DOMAIN st.comments : /\ st.comments[c].slash \in from .. to
                                                                     /\ lineAt(st, st.comments[c].slash) = line[n]}}
        Left(n) == Between(n, IF n = 1 THEN 1 ELSE End(st.sorted[n - 1]) + 1, st.sorted[n].pos - 1)
        Right(n) == Between(n, End(st.sorted[n]), IF n = Len(st.sorted) THEN st.rparen ELSE st.sorted[n + 1].pos - 2)
        IsThere(n) == LET w == wanted[n].of
                      IN /\ st.sorted[n].path = w.path /\ st.sorted[n].name = w.name
                         /\ {w.right} \ {0} \subseteq Right(n) /\ Right(n) \subseteq {w.right} \cup doubles
                         /\ {w.left} \ {0} \subseteq Left(n) /\ Left(n) \subseteq {w.left} \cup doubles
    IN /\ ~st.table.panics
       /\ Len(st.sorted) = Len(wanted) /\ \A n \in DOMAIN wanted : IsThere(n)
       /\ \A n \in 1 .. Len(wanted) - 1 :
             /\ End(st.sorted[n]) < st.sorted[n + 1].pos
             /\ (line[n + 1] > line[n] + 1) <=> (wanted[n].run # wanted[n + 1].run)
       /\ st.sorted # <<>> => lineAt(st, st.rparen) <= line[Len(line)] + 1
==============================================================================
