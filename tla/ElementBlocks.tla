---------------------------- MODULE ElementBlocks ----------------------------
(***************************************************************************)
(* parser.combineElemmentBlocks (parser/tgo.go): the flat list of the      *)
(* statements of a block, in which open and end tags are statements like   *)
(* any other, becomes a tree of elements.                                  *)
(*                                                                         *)
(* Statement n of the list is identified with the number n, and an element *)
(* (an ElementBlockStmt) with the number of its open tag.  A labeled open  *)
(* tag becomes a labeled element, which is the same to what follows; the   *)
(* label of an end tag becomes a statement of its own (labeled, empty)     *)
(* that keeps the number of the end tag.  A tag without its `>` is treated *)
(* like any other statement.                                               *)
(***************************************************************************)
EXTENDS Integers, Sequences, FiniteSets, SequencesExt

CONSTANTS
    Name,   \* names of elements
    Void,   \* the name of the element that needs no end tag: br
    Lists   \* the lists of statements that are parsed

\* k: "open", "end" or "other"; label: is it labeled?
Stmt == [k : {"open", "end", "other"}, name : Name, label : BOOLEAN]

ASSUME ListsAssumption == Lists \subseteq Seq(Stmt)

VARIABLES
    list,   \* the argument
    i,      \* the statement that is looked at
    last,   \* the statements up to here have been placed
    depth,  \* openTagDepth: the open tags not closed yet, with the statements
            \* that follow them
    out,    \* the result
    elem,   \* [open tag -> [end, body]]: the elements made
    errors, \* the <<statement, message>> reported, a sequence
    pc,     \* "scan", "close" (an end tag has been matched), "rest", "done"
    j, v,   \* "close", "rest": the level matched, and the next one to add
    body    \* "close": the statements of the element

vars == <<list, i, last, depth, out, elem, errors, pc, j, v, body>>

-----------------------------------------------------------------------------
\* list[a:b], in the numbers of the statements.
Slice(a, b) == [m \in 1 .. b - a |-> a + m]

\* appendStmts, with the stack it appends to.
Appended(stack, stmts) ==
    IF stack = <<>> THEN stack ELSE [stack EXCEPT ![Len(stack)].body = @ \o stmts]

AppendOut(stack, stmts) == IF stack = <<>> THEN out \o stmts ELSE out

Error(n, msg) == Append(errors, <<n, msg>>)

Unclosed(n) == IF list[n].name = Void THEN errors ELSE Error(n, "unclosed tag")

Init ==
    /\ list \in Lists
    /\ i = 1 /\ last = 0
    /\ depth = <<>> /\ out = <<>> /\ elem = <<>> /\ errors = <<>>
    /\ pc = "scan"
    /\ j = 0 /\ v = 0 /\ body = <<>>

\* The case of other statements.
OtherStmt ==
    /\ pc = "scan" /\ i <= Len(list)
    /\ list[i].k = "other"
    /\ i' = i + 1
    /\ UNCHANGED <<list, last, depth, out, elem, errors, pc, j, v, body>>

OpenTag ==
    /\ pc = "scan" /\ i <= Len(list)
    /\ list[i].k = "open"
    /\ depth' = Append(Appended(depth, Slice(last, i - 1)), [open |-> i, body |-> <<>>])
    /\ out' = AppendOut(depth, Slice(last, i - 1))
    /\ last' = i /\ i' = i + 1
    /\ UNCHANGED <<list, elem, errors, pc, j, v, body>>

\* The levels with the name of the end tag at hand.
Matches == {m \in DOMAIN depth : list[depth[m].open].name = list[i].name}

\* Mutant: the stack is searched from the outermost element.
MatchOutermost ==
    /\ pc = "scan" /\ i <= Len(list)
    /\ list[i].k = "end"
    /\ \E m \in Matches :
          /\ \A l \in Matches : m <= l
          /\ j' = m /\ v' = m + 1 /\ body' = depth[m].body
    /\ pc' = "close"
    /\ UNCHANGED <<list, i, last, depth, out, elem, errors>>

\* An end tag: the search for the innermost open tag of that name ...
Match ==
    /\ pc = "scan" /\ i <= Len(list)
    /\ list[i].k = "end"
    /\ \E m \in Matches :
          /\ \A l \in Matches : l <= m
          /\ j' = m /\ v' = m + 1 /\ body' = depth[m].body
    /\ pc' = "close"
    /\ UNCHANGED <<list, i, last, depth, out, elem, errors>>

\* ... which can fail.
NoMatch ==
    /\ pc = "scan" /\ i <= Len(list)
    /\ list[i].k = "end" /\ Matches = {}
    /\ errors' = Error(i, "unopened tag")
    /\ i' = i + 1
    /\ UNCHANGED <<list, last, depth, out, elem, pc, j, v, body>>

\* Mutant: the statements that follow the inner open tag are dropped.
CloseInnerNoBody ==
    /\ pc = "close" /\ v <= Len(depth)
    /\ errors' = Unclosed(depth[v].open)
    /\ body' = body \o <<depth[v].open>>
    /\ v' = v + 1
    /\ UNCHANGED <<list, i, last, depth, out, elem, pc, j>>

\* The open tags inside the one matched become plain statements of its body.
CloseInner ==
    /\ pc = "close" /\ v <= Len(depth)
    /\ errors' = Unclosed(depth[v].open)
    /\ body' = body \o <<depth[v].open>> \o depth[v].body
    /\ v' = v + 1
    /\ UNCHANGED <<list, i, last, depth, out, elem, pc, j>>

\* The element is made and placed.
Close ==
    /\ pc = "close" /\ v > Len(depth)
    /\ LET label == IF list[i].label THEN <<i>> ELSE <<>>
           n == depth[j].open
           b == body \o Slice(last, i - 1) \o label
           rest == SubSeq(depth, 1, j - 1)
       IN  /\ elem' = [m \in DOMAIN elem \cup {n} |->
                         IF m = n THEN [end |-> i, body |-> b] ELSE elem[m]]
           /\ depth' = Appended(rest, <<n>>)
           /\ out' = AppendOut(rest, <<n>>)
    /\ last' = i /\ i' = i + 1
    /\ pc' = "scan" /\ j' = 0 /\ v' = 0 /\ body' = <<>>
    /\ UNCHANGED <<list, errors>>

\* The end of the list.  If nothing has been placed, it is the result.
End ==
    /\ pc = "scan" /\ i > Len(list)
    /\ IF last = 0
       THEN out' = Slice(0, Len(list)) /\ pc' = "done" /\ UNCHANGED v
       ELSE pc' = "rest" /\ v' = 1 /\ UNCHANGED out
    /\ UNCHANGED <<list, i, last, depth, elem, errors, j, body>>

\* Mutant: no error for an open tag that is still open at the end.
RestNoError ==
    /\ pc = "rest" /\ v <= Len(depth)
    /\ out' = out \o <<depth[v].open>> \o depth[v].body
    /\ v' = v + 1
    /\ UNCHANGED <<list, i, last, depth, elem, errors, pc, j, body>>

\* The open tags left over become plain statements of the result.
Rest ==
    /\ pc = "rest" /\ v <= Len(depth)
    /\ errors' = Unclosed(depth[v].open)
    /\ out' = out \o <<depth[v].open>> \o depth[v].body
    /\ v' = v + 1
    /\ UNCHANGED <<list, i, last, depth, elem, pc, j, body>>

Finish ==
    /\ pc = "rest" /\ v > Len(depth)
    /\ out' = out \o Slice(last, Len(list))
    /\ pc' = "done"
    /\ UNCHANGED <<list, i, last, depth, elem, errors, j, v, body>>

Next ==
    \/ OtherStmt \/ OpenTag \/ Match \/ NoMatch \/ CloseInner \/ Close
    \/ End \/ Rest \/ Finish

Spec == Init /\ [][Next]_vars

-----------------------------------------------------------------------------
\* The last statement of the list that node n stands for, with elements el.
EndOf(el, n) == IF n \in DOMAIN el THEN el[n].end ELSE n

\* The nodes of s stand for the statements a+1 .. b, each once and in order.
Tiles(el, s, a, b) ==
    /\ s = <<>> => a = b
    /\ s # <<>> => s[1] = a + 1 /\ EndOf(el, s[Len(s)]) = b
    /\ \A m \in 1 .. Len(s) : a < s[m] /\ EndOf(el, s[m]) <= b
    /\ \A m \in 1 .. Len(s) - 1 : s[m + 1] = EndOf(el, s[m]) + 1

\* What is between the tags of the element of open tag n, with the label of
\* the end tag at the end.
BodyEnd(n) == IF list[elem[n].end].label THEN elem[n].end ELSE elem[n].end - 1

\* No statement is lost, duplicated or moved: the result is the list again,
\* and so is the body of every element between its tags.
EachStmtOnce ==
    /\ pc = "done" => Tiles(elem, out, 0, Len(list))
    /\ \A n \in DOMAIN elem : Tiles(elem, elem[n].body, n, BodyEnd(n))

Ends == {elem[n].end : n \in DOMAIN elem}

StmtsOf(k) == {n \in DOMAIN list : list[n].k = k}

\* Each tag that is not part of an element is reported, void ones excepted,
\* no other statement is, and none is reported twice.
ErrorsMatchTree ==
    pc = "done" =>
        /\ ToSet(errors) =
              {<<n, "unopened tag">> : n \in StmtsOf("end") \ Ends}
              \cup {<<n, "unclosed tag">> :
                       n \in {n \in StmtsOf("open") \ DOMAIN elem : list[n].name # Void}}
        /\ IsInjective(errors)

\* The reference: the tags can be paired (pair is the open tag of an end tag),
\* so that the tags of a pair have one name, pairs nest, and only void open
\* tags are left over.
Nests(pair) ==
    /\ IsInjective(pair)
    /\ \A e \in StmtsOf("end") : pair[e] < e /\ list[pair[e]].name = list[e].name
    /\ \A n \in StmtsOf("open") \ Range(pair) : list[n].name = Void
    /\ \A e, f \in StmtsOf("end") : pair[e] < pair[f] /\ pair[f] < e => f < e
WellFormed == \E pair \in [StmtsOf("end") -> StmtsOf("open")] : Nests(pair)

\* A list is accepted exactly when it is well formed: closing the innermost
\* element of a name, and the open tags inside it with it, loses nothing.
AcceptsWellFormed == pc = "done" => (errors = <<>> <=> WellFormed)
==============================================================================
