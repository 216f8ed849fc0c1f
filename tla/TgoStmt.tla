------------------------------- MODULE TgoStmt -------------------------------
(***************************************************************************)
(* How the type checker decides whether the jumps, tags, attributes and    *)
(* texts of a tgo function are in place: the statement contexts of         *)
(* Checker.stmt (types/stmt.go), the second pass over labels               *)
(* (types/labels.go) and the analysis of terminating statements            *)
(* (types/return.go).                                                      *)
(*                                                                         *)
(* A statement is a record: its kind k, its label l (""  for none), the    *)
(* number d of its default clause (0 for none) and its blocks b, sequences *)
(* of statements.  An element <e open> body </e> has the two blocks `open` *)
(* and `body`; a void element is a "tag" with only the first.  A statement *)
(* is identified by its path: the sequence of <<block, index>> pairs that  *)
(* lead to it from the function.  "else if" is an else block with an if.   *)
(***************************************************************************)
EXTENDS Integers, Sequences, FiniteSets, SequencesExt

CONSTANT TgoFunc \* is the function a tgo function: func(tgo.Ctx, ...) error?

Func(body) == [k |-> "func", l |-> "", d |-> 0, b |-> <<body>>]

\* The statement of function fun at path p.
Node(fun, p) == FoldLeft(LAMBDA s, e : s.b[e[1]][e[2]], fun, p)

RECURSIVE Below(_)
Below(s) ==
    UNION {{<<e>> \o q : q \in {<<>>} \cup Below(s.b[e[1]][e[2]])} :
              e \in UNION {{n} \X DOMAIN s.b[n] : n \in DOMAIN s.b}}

\* The paths of all statements of a function.
Paths(fun) == Below(fun)

\* The paths of the statements around p, the function left out.
Around(p) == {SubSeq(p, 1, n) : n \in 1 .. Len(p) - 1}

Innermost(ps) == CHOOSE p \in ps : \A q \in ps : Len(q) <= Len(p)

Loops == {"for", "forcond"}
Breakable == Loops \cup {"switch", "typeswitch", "select"}

-----------------------------------------------------------------------------
\* First pass: Checker.stmt with its stmtContext, a set of flags.

\* Mutant: a switch starts from an empty context.
SwitchCtxtFresh(c) == (c \cap {"inTgoFunc", "continueOk"}) \cup {"breakOk"}

SwitchCtxt(c) ==
    (c \ {"breakNotOkElementBlockStmt", "breakNotOkOpenTag"}) \cup {"breakOk"}

ForCtxt(c) ==
    (c \ {"breakNotOkElementBlockStmt", "breakNotOkOpenTag",
          "continueNotOkElementBlockStmt", "continueNotOkOpenTag"})
      \cup {"breakOk", "continueOk"}

OpenTagCtxt(c) == c \cup {"inOpenTag", "breakNotOkOpenTag", "continueNotOkOpenTag"}

BodyCtxt(c) ==
    c \cup {"inElementBody", "breakNotOkElementBlockStmt", "continueNotOkElementBlockStmt"}

\* The context of block n of statement s, whose own context is c.
Inner(c, s, n) ==
    LET inner == c \ {"fallthroughOk", "finalSwitchCase", "inTypeSwitch"}
    IN  CASE s.k = "func" -> c
          [] s.k = "switch" ->
                SwitchCtxt(inner)
                    \cup {IF n < Len(s.b) THEN "fallthroughOk" ELSE "finalSwitchCase"}
          [] s.k = "typeswitch" -> SwitchCtxt(inner) \cup {"inTypeSwitch"}
          [] s.k = "select" -> SwitchCtxt(inner)
          [] s.k \in Loops -> ForCtxt(inner)
          [] s.k = "tag" \/ (s.k = "elem" /\ n = 1) -> OpenTagCtxt(inner)
          [] s.k = "elem" /\ n = 2 -> BodyCtxt(inner)
          [] OTHER -> inner

\* The index of the last statement that is not empty.
LastStmt(list) ==
    IF \A n \in DOMAIN list : list[n].k = "empty" THEN 0
    ELSE CHOOSE n \in DOMAIN list :
            list[n].k # "empty" /\ \A m \in n + 1 .. Len(list) : list[m].k = "empty"

\* The context stmtList gives to the statement with index n of a list.
ListCtxt(c, list, n) == IF n = LastStmt(list) THEN c ELSE c \ {"fallthroughOk"}

RECURSIVE Ctxt(_, _)
Ctxt(fun, p) ==
    IF p = <<>> THEN {"inTgoFunc" : t \in {TgoFunc} \cap {TRUE}}
    ELSE LET s == Node(fun, Front(p))
             c == Ctxt(fun, Front(p))
             e == Last(p)
         IN  IF s.k = "labeled" THEN c ELSE ListCtxt(Inner(c, s, e[1]), s.b[e[1]], e[2])

\* The errors Checker.stmt reports for statement s in context c.
StmtErrors(c, s) ==
    LET jump == s.k \in {"break", "continue"} /\ s.l = ""
        ok == IF s.k = "break" THEN "breakOk" \in c ELSE "continueOk" \in c
        overEndTag == (IF s.k = "break" THEN "breakNotOkElementBlockStmt"
                       ELSE "continueNotOkElementBlockStmt") \in c
        inTag == (IF s.k = "break" THEN "breakNotOkOpenTag" ELSE "continueNotOkOpenTag") \in c
    IN  {e \in {"JumpOverEndTag"} : jump /\ ok /\ overEndTag}
        \cup {e \in {"MisplacedBreak"} :
                 \/ jump /\ ok /\ ~ overEndTag /\ inTag
                 \/ jump /\ ~ ok /\ s.k = "break"}
        \cup {e \in {"MisplacedContinue"} : jump /\ ~ ok /\ s.k = "continue"}
        \cup {e \in {"MisplacedFallthrough"} :
                 s.k = "fallthrough" /\ "fallthroughOk" \notin c}
        \cup {e \in {"MisplacedReturn"} :
                 s.k = "return" /\ c \cap {"inOpenTag", "inElementBody"} # {}}
        \cup {e \in {"MisplacedTag"} :
                 s.k \in {"elem", "tag"} /\ ("inTgoFunc" \notin c \/ "inOpenTag" \in c)}
        \cup {e \in {"MisplacedAttribute"} :
                 s.k = "attr" /\ ("inTgoFunc" \notin c \/ "inOpenTag" \notin c)}
        \cup {e \in {"MisplacedTemplateLiteral"} :
                 s.k = "text" /\ ("inTgoFunc" \notin c \/ "inOpenTag" \in c)}

-----------------------------------------------------------------------------
\* Second pass: Checker.labels.  Its state r is what blockBranches keeps
\* for the block at hand, and what all blocks share:
\*   all     the labels declared so far, with the statements they belong to
\*   used    the labels that have been used
\*   err     the errors, with the statements they are reported for
\*   blocks  the block and those around it; labels: the labels declared in
\*           it; lstmt: the labeled statement it is the block of; tag: is it
\*           the body of an element?  (count is the number of such bodies
\*           from the block to the innermost one)
\*   lstmt   the variable lstmt, which nothing resets in a list
\*   fwd     the gotos without a label yet
\*   bad     those of them that a variable declaration follows

NoStmt == <<>>

\* Mutant: the bodies around the block count as well.
CountAll(r, n) == Cardinality({m \in DOMAIN r.blocks : r.blocks[m].tag})

Count(r, n) == Cardinality({m \in n .. Len(r.blocks) : r.blocks[m].tag})

\* The innermost block for which P holds, 0 when there is none.
Nearest(r, P(_)) ==
    LET ns == {n \in DOMAIN r.blocks : P(r.blocks[n])}
    IN  IF ns = {} THEN 0 ELSE CHOOSE n \in ns : \A m \in ns : m <= n

\* Mutant: the blocks around are not searched.
GotoTargetOwn(r, l) ==
    IF l \in DOMAIN r.blocks[Len(r.blocks)].labels THEN Len(r.blocks) ELSE 0

GotoTarget(r, l) == Nearest(r, LAMBDA blk : l \in DOMAIN blk.labels)

EnclosingTarget(r, fun, l) ==
    Nearest(r, LAMBDA blk : blk.lstmt # NoStmt /\ Node(fun, blk.lstmt).l = l)

Report(r, p, code) == [r EXCEPT !.err = @ \cup {<<p, code>>}]

Use(r, l) == [r EXCEPT !.used = @ \cup {l}]

\* break L and continue L, at p.
LabeledBranch(r, fun, s, p) ==
    LET n == EnclosingTarget(r, fun, s.l)
        target == Node(fun, r.blocks[n].lstmt).b[1][1]
    IN  IF n = 0 \/ target.k \notin (IF s.k = "break" THEN Breakable ELSE Loops)
        THEN Report(r, p, "MisplacedLabel")
        ELSE Use(IF Count(r, n) = 0 THEN r ELSE Report(r, p, "JumpOverEndTag"), s.l)

\* Mutant: a goto to a label that is already declared is not looked at.
GotoNoCount(r, s, p) ==
    IF GotoTarget(r, s.l) = 0 THEN [r EXCEPT !.fwd = @ \cup {p}] ELSE Use(r, s.l)

Goto(r, s, p) ==
    LET n == GotoTarget(r, s.l)
    IN  IF n = 0 THEN [r EXCEPT !.fwd = @ \cup {p}]
        ELSE Use(IF Count(r, n) = 0 THEN r ELSE Report(r, p, "JumpOverEndTag"), s.l)

\* A variable declaration.
DeclareVar(r) == [r EXCEPT !.bad = r.fwd]

\* A label declaration: the gotos that wait for it are resolved.
DeclareLabel(r, fun, s, p) ==
    LET new == s.l \notin DOMAIN r.all
        matched == {q \in r.fwd : Node(fun, q).l = s.l}
        top == Len(r.blocks)
        labels == [m \in DOMAIN r.blocks[top].labels \cup {s.l} |->
                      IF m = s.l THEN p ELSE r.blocks[top].labels[m]]
    IN  [r EXCEPT
            !.all = IF new THEN [m \in DOMAIN @ \cup {s.l} |-> IF m = s.l THEN p ELSE @[m]] ELSE @,
            !.blocks[top].labels = IF new THEN labels ELSE @,
            !.used = IF new /\ matched # {} THEN @ \cup {s.l} ELSE @,
            !.err = @ \cup {<<p, "DuplicateLabel">> : n \in {new} \cap {FALSE}}
                      \cup {<<q, "JumpOverDecl">> : q \in matched \cap r.bad},
            !.fwd = @ \ matched,
            !.lstmt = p]

RECURSIVE Branches(_, _, _)

\* blockBranches for block n of the statement at p: the block's own labels
\* end with it, its pending gotos become the enclosing block's.
Nested(r, fun, p, n, lstmt, tag) ==
    LET list == Node(fun, p).b[n]
        inside == [r EXCEPT
                     !.blocks = Append(@, [labels |-> <<>>, lstmt |-> lstmt, tag |-> tag]),
                     !.lstmt = lstmt, !.fwd = {}, !.bad = {}]
        done == FoldLeft(LAMBDA q, m : Branches(q, fun, Append(p, <<n, m>>)),
                         inside, [m \in DOMAIN list |-> m])
    IN  [done EXCEPT !.blocks = r.blocks, !.lstmt = r.lstmt,
                     !.fwd = r.fwd \cup @, !.bad = r.bad]

\* The body of an element: a goto that leaves it to a label not declared yet
\* is an error.
ElementBody(r, fun, p) ==
    LET done == Nested([r EXCEPT !.fwd = {}], fun, p, 2, NoStmt, TRUE)
    IN  [done EXCEPT
            !.err = @ \cup {<<q, "JumpOverEndTag">> :
                               q \in {q \in done.fwd : Node(fun, q).l \notin DOMAIN done.all}},
            !.fwd = r.fwd \cup @]

\* stmtBranches for the statement at p.
Branches(r, fun, p) ==
    LET s == Node(fun, p)
        clauses == [m \in DOMAIN s.b |-> m]
        inSwitch == [r EXCEPT !.blocks = Append(@, [labels |-> <<>>, lstmt |-> r.lstmt, tag |-> FALSE]),
                              !.fwd = {}, !.bad = {}]
        outOfSwitch(q) == [q EXCEPT !.blocks = r.blocks, !.lstmt = r.lstmt,
                                    !.fwd = r.fwd \cup @, !.bad = r.bad]
    IN  CASE s.k = "var" -> DeclareVar(r)
          [] s.k = "labeled" -> Branches(DeclareLabel(r, fun, s, p), fun, Append(p, <<1, 1>>))
          [] s.k \in {"break", "continue"} /\ s.l # "" -> LabeledBranch(r, fun, s, p)
          [] s.k = "goto" -> Goto(r, s, p)
          [] s.k \in {"block", "if", "tag"} \cup Loops ->
                FoldLeft(LAMBDA q, m : Nested(q, fun, p, m, r.lstmt, FALSE), r, clauses)
          [] s.k \in Breakable \ Loops ->
                outOfSwitch(FoldLeft(LAMBDA q, m : Nested(q, fun, p, m, NoStmt, FALSE),
                                     inSwitch, clauses))
          [] s.k = "elem" -> ElementBody(Nested(r, fun, p, 1, r.lstmt, FALSE), fun, p)
          [] OTHER -> r

\* The errors of the second pass.
LabelErrors(fun) ==
    LET start == [all |-> <<>>, used |-> {}, err |-> {}, blocks |-> <<>>,
                  lstmt |-> NoStmt, fwd |-> {}, bad |-> {}]
        r == Nested(start, fun, <<>>, 1, NoStmt, FALSE)
        into == {q \in r.fwd : Node(fun, q).l \in DOMAIN r.all}
        used == r.used \cup {Node(fun, q).l : q \in into}
    IN  r.err \cup {<<q, "JumpIntoBlock">> : q \in into}
              \cup {<<q, "UndeclaredLabel">> : q \in r.fwd \ into}
              \cup {<<r.all[l], "UnusedLabel">> : l \in DOMAIN r.all \ used}

-----------------------------------------------------------------------------
\* Terminating statements.

RECURSIVE HasBreak(_, _, _)

\* Mutant: labels are not looked at.
HasBreakNoLabel(s, l, implicit) ==
    \/ s.k = "break" /\ s.l = "" /\ implicit
    \/ /\ s.k \in Breakable => l # ""
       /\ \E n \in DOMAIN s.b : \E m \in DOMAIN s.b[n] :
              HasBreak(s.b[n][m], l, implicit /\ s.k \notin Breakable)

\* Does s contain a break of the statement labeled l, or an unlabeled one
\* (implicit) of the closest breakable statement?
HasBreak(s, l, implicit) ==
    \/ s.k = "break" /\ (IF s.l = "" THEN implicit ELSE s.l = l)
    \/ /\ s.k \in Breakable => l # ""
       /\ \E n \in DOMAIN s.b : \E m \in DOMAIN s.b[n] :
              HasBreak(s.b[n][m], l, implicit /\ s.k \notin Breakable)

HasBreakList(list, l) == \E m \in DOMAIN list : HasBreak(list[m], l, TRUE)

RECURSIVE IsTerminating(_, _)

IsTerminatingList(list) ==
    LastStmt(list) > 0 /\ IsTerminating(list[LastStmt(list)], "")

\* Is s, labeled l, a terminating statement?
IsTerminating(s, l) ==
    LET clauses ==
            \A n \in DOMAIN s.b : IsTerminatingList(s.b[n]) /\ ~ HasBreakList(s.b[n], l)
    IN  \/ s.k \in {"return", "goto", "fallthrough", "panic"}
        \/ s.k = "labeled" /\ IsTerminating(s.b[1][1], s.l)
        \/ s.k = "block" /\ IsTerminatingList(s.b[1])
        \/ s.k = "if" /\ Len(s.b) = 2 /\ \A n \in 1 .. 2 : IsTerminatingList(s.b[n])
        \/ s.k \in {"switch", "typeswitch"} /\ s.d # 0 /\ clauses
        \/ s.k = "select" /\ clauses
        \/ s.k = "for" /\ ~ HasBreakList(s.b[1], l)

-----------------------------------------------------------------------------
\* What funcBody reports, for a function with a result.
Errors(fun) ==
    UNION {{<<p, e>> : e \in StmtErrors(Ctxt(fun, p), Node(fun, p))} : p \in Paths(fun)}
    \cup LabelErrors(fun)
    \cup {<<<<>>, "MissingReturn">> : t \in {IsTerminatingList(fun.b[1])} \cap {FALSE}}

-----------------------------------------------------------------------------
(***************************************************************************)
(* Running a function that has been accepted: the semantics of Go's        *)
(* statements, and of tags, which write `<e`, `>` and `</e>` before,       *)
(* between and after the two blocks of an element.  Conditions and clauses *)
(* are chosen at random.                                                   *)
(*                                                                         *)
(* What the checker promises shows when the program runs: every end tag is *)
(* reached, a function with a result does not end without a return.        *)
(***************************************************************************)
CONSTANTS
    Programs, \* the function bodies checked and run, a set of sets
    MaxTags   \* bound, a number: the function stops with so many tags not closed

VARIABLES
    fun,    \* the function
    errors, \* what the checker reports
    pc,     \* <<"check">>, <<"rejected">>, <<"at", path>>, the end of a block
            \* <<"end", path, block>>, <<"return">>, <<"panic">>, <<"fell">>
    tags    \* the <<element, block>> written and not closed, outermost first

vars == <<fun, errors, pc, tags>>

-----------------------------------------------------------------------------
Start(p, n) ==
    IF Node(fun, p).b[n] = <<>> THEN <<"end", p, n>>
    ELSE <<"at", Append(p, <<n, 1>>)>>

After(p) ==
    LET e == Last(p)
    IN  IF e[2] < Len(Node(fun, Front(p)).b[e[1]])
        THEN <<"at", Append(Front(p), <<e[1], e[2] + 1>>)>>
        ELSE <<"end", Front(p), e[1]>>

\* The statements around p that a branch statement s at p can refer to.
Targets(s, p) ==
    LET kinds == IF s.k = "break" THEN Breakable ELSE Loops
    IN  {q \in Around(p) :
            /\ Node(fun, q).k \in kinds
            /\ s.l # "" => /\ Len(q) > 1
                           /\ Node(fun, Front(q)).k = "labeled"
                           /\ Node(fun, Front(q)).l = s.l}

\* The statements labeled l.
Labeled(l) == {q \in Paths(fun) : Node(fun, q).k = "labeled" /\ Node(fun, q).l = l}

Init ==
    /\ \E bodies \in Programs : \E body \in bodies : fun = Func(body)
    /\ errors = {}
    /\ pc = <<"check">>
    /\ tags = <<>>

Check ==
    /\ pc = <<"check">>
    /\ errors' = Errors(fun)
    /\ pc' = IF errors' \subseteq {<<<<>>, "MissingReturn">>} THEN Start(<<>>, 1)
             ELSE <<"rejected">>
    /\ UNCHANGED <<fun, tags>>

\* The statement about to run is s, at p.
At(p, s) == pc[1] = "at" /\ p = pc[2] /\ s = Node(fun, p)

Simple(p, s) ==
    /\ s.k \in {"simple", "var", "empty", "attr", "text"}
    /\ pc' = After(p)
    /\ UNCHANGED tags

Enter(p, s) ==
    /\ \/ \E n \in DOMAIN s.b : s.k # "elem" /\ pc' = Start(p, n)
       \/ s.k = "if" /\ Len(s.b) = 1 /\ pc' = After(p)
       \/ s.k \in {"switch", "typeswitch"} /\ s.d = 0 /\ pc' = After(p)
       \/ s.k = "forcond" /\ pc' = After(p)
    /\ s.k # "tag"
    /\ UNCHANGED tags

OpenTag(p, s) ==
    /\ s.k \in {"elem", "tag"}
    /\ Len(tags) < MaxTags
    /\ tags' = Append(tags, <<p, 1>>)
    /\ pc' = Start(p, 1)

Branch(p, s) ==
    /\ \/ s.k = "break" /\ Targets(s, p) # {} /\ pc' = After(Innermost(Targets(s, p)))
       \/ s.k = "continue" /\ Targets(s, p) # {} /\ pc' = <<"end", Innermost(Targets(s, p)), 1>>
       \/ s.k = "goto" /\ \E q \in Labeled(s.l) : pc' = <<"at", q>>
       \/ /\ s.k = "fallthrough"
          /\ LET q == Innermost({q \in Around(p) : Node(fun, q).k = "switch"})
             IN  pc' = Start(q, p[Len(q) + 1][1] + 1)
       \/ s.k \in {"return", "panic"} /\ pc' = <<s.k>>
    /\ UNCHANGED tags

\* The end of block n of the statement at p.
EndOfBlock(p, n) ==
    LET s == Node(fun, p)
        closed == SelectSeq(tags, LAMBDA t : t[1] # p)
    IN  /\ pc = <<"end", p, n>>
        /\ \/ s.k = "func" /\ pc' = <<"fell">> /\ UNCHANGED tags
           \/ s.k \in Loops /\ pc' = Start(p, 1) /\ UNCHANGED tags
           \/ s.k = "forcond" /\ pc' = After(p) /\ UNCHANGED tags
           \/ s.k = "elem" /\ n = 1 /\ pc' = Start(p, 2) /\ tags' = Append(closed, <<p, 2>>)
           \/ s.k = "elem" /\ n = 2 /\ pc' = After(p) /\ tags' = closed
           \/ s.k = "tag" /\ pc' = After(p) /\ tags' = closed
           \/ /\ s.k \notin Loops \cup {"func", "elem", "tag"}
              /\ pc' = After(p)
              /\ UNCHANGED tags

Run ==
    /\ pc[1] \in {"at", "end"}
    /\ IF pc[1] = "at"
       THEN LET s == Node(fun, pc[2])
            IN  Simple(pc[2], s) \/ Enter(pc[2], s) \/ OpenTag(pc[2], s) \/ Branch(pc[2], s)
       ELSE EndOfBlock(pc[2], pc[3])
    /\ UNCHANGED <<fun, errors>>

Next == Check \/ Run

Spec == Init /\ [][Next]_vars

-----------------------------------------------------------------------------
\* The innermost path of what is being run.
Here ==
    IF pc[1] = "at" THEN pc[2] ELSE IF pc[1] = "end" THEN Append(pc[2], <<pc[3], 1>>) ELSE <<>>

\* The elements and void tags around p, with the block that p is in.
TagsAround(p) ==
    SelectSeq([n \in 1 .. Len(p) |-> <<SubSeq(p, 1, n - 1), p[n][1]>>],
              LAMBDA t : Node(fun, t[1]).k \in {"elem", "tag"})

Running == pc[1] \in {"at", "end", "return", "fell"}

\* The statement that the branch statement at p goes to, or after.
Target(p) ==
    LET s == Node(fun, p)
    IN  IF s.k = "goto" THEN Labeled(s.l) ELSE {Innermost(ts) : ts \in {Targets(s, p)} \ {{}}}

Jumps == {p \in Paths(fun) : Node(fun, p).k \in {"break", "continue", "goto"}}

\* The elements that the jump at p leaves, with the block that p is in.
Left(p, target) == ToSet(TagsAround(p)) \ ToSet(TagsAround(target))

\* A jump with a label that leaves a tag's open part, or a break whose label
\* is not that of a statement around it.
KnownGap ==
    \E p \in Jumps :
        /\ Node(fun, p).l # ""
        /\ Target(p) = {} \/ \E q \in Target(p) : \E t \in Left(p, q) : t[2] = 1

\* "JumpOverEndTag occurs when a goto, continue or break would cause an end tag
\* not to be reached" (and is an error): at any time, the elements that have
\* been opened and not closed are those around the statement being run.
EndTagsReached == Running => tags = TagsAround(Here)

\* The same, but for jumps with a label out of the open part of a tag.
BodiesAreClosed == EndTagsReached \/ KnownGap

\* A function with a result for which isTerminating (return.go) holds never
\* reaches the end of its body.
NeverFallsOff == pc = <<"fell">> => <<<<>>, "MissingReturn">> \in errors

\* Attributes are written between `<e` and `>`; texts and tags are not.
WritesArePlaced ==
    Running /\ pc[1] = "at" /\ ~ KnownGap =>
        LET k == Node(fun, pc[2]).k
            inOpenTag == tags # <<>> /\ Last(tags)[2] = 1
        IN  /\ k = "attr" => inOpenTag
            /\ k \in {"text", "elem", "tag"} => ~ inOpenTag

\* The variable declarations in the list of the statement at q that a jump
\* from p to q passes.
Passed(p, q) ==
    LET list == Node(fun, Front(q)).b[Last(q)[1]]
        from == p[Len(q)][2]
    IN  {m \in from + 1 .. Last(q)[2] - 1 : list[m].k = "var"}

\* Is the list with the statement at q around p?
InBlockOf(p, q) ==
    Len(q) <= Len(p) /\ Front(q) = SubSeq(p, 1, Len(q) - 1) /\ p[Len(q)][1] = Last(q)[1]

\* A goto is rejected exactly when there is no label, when the label is in a
\* block that is not around the goto, or when the jump passes a variable
\* declaration of the label's block.
GotosAreChecked ==
    pc[1] \notin {"check"} /\ (\A p \in Paths(fun) : <<p, "DuplicateLabel">> \notin errors) =>
        \A p \in Jumps : Node(fun, p).k = "goto" =>
            /\ (<<p, "UndeclaredLabel">> \in errors) = (Target(p) = {})
            /\ \A q \in Target(p) :
                  /\ (<<p, "JumpIntoBlock">> \in errors) = ~ InBlockOf(p, q)
                  /\ (<<p, "JumpOverDecl">> \in errors) = (InBlockOf(p, q) /\ Passed(p, q) # {})

\* "Would cause an end tag not to be reached": the error is reported only for
\* jumps that leave the body of an element - and, which the comment does not
\* say, for a goto back to a label of the element's own body.
OnlyBadJumpsOrBack ==
    pc[1] \notin {"check"} =>
        \A p \in Jumps : <<p, "JumpOverEndTag">> \in errors =>
            \/ Target(p) = {}
            \/ \E q \in Target(p) :
                  \/ \E t \in Left(p, q) : t[2] = 2
                  \/ /\ Node(fun, p).k = "goto"
                     /\ Node(fun, Front(q)).k = "elem" /\ Last(q)[1] = 2
                     /\ InBlockOf(p, q)

\* "If there is a label, it must be that of an enclosing "for", "switch", or
\* "select" statement": the label of an accepted break or continue is.
LabelsEnclose ==
    Running =>
        \A p \in Jumps : Node(fun, p).k \in {"break", "continue"} => Target(p) # {}
==============================================================================
